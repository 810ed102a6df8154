SPECIFICATION FairSpec
CONSTANTS
  acme = acme
  borg = borg
  core = core
  plug = plug
  kit = kit
  T1 = T1
  T2 = T2
  op1 = op1
  gpu = gpu
  Threads = {t1, t2}
  Modules = {acme, borg, core, plug, kit}
  EntryPoints <- Installed
  Body <- Packaged
  Targets = {T1, T2}
  Ops = {op1}
  Devices = {gpu}
  Claims <- Claiming
  RudeDetectors = {}
  DirectModules = {acme}
  DefaultChoices = {T1}
  MaxInterrupts = 0
  NoThread = NoThread
  NoModule = NoModule
  NoDevice = NoDevice
  NoAnswer = NoAnswer
  None = None
  Builtin = Builtin
  Unpublished = Unpublished
PROPERTIES
  WaitersServed
CHECK_DEADLOCK FALSE
