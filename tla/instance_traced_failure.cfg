SPECIFICATION Spec
CONSTANTS
  vendor = vendor
  other = other
  absent = absent
  gpu = gpu
  cpu = cpu
  Targets = {vendor, other, absent}
  Registered = {vendor, other}
  BUILTIN = BUILTIN
  NoTarget = NoTarget
  Devices = {gpu, cpu}
  NoDevice = NoDevice
  Detected <- Claims
  Roles = {"gemm", "plan"}
  InTreeRoles = {"gemm"}
  Keys = {"fp16"}
  Threads = {"t"}
  Modes = {"eager", "traced"}
  Interruptible = FALSE
  Dicts = {"d1", "d2"}
  NoDict = NoDict
  InTree = InTree
  Unresolved = Unresolved
INVARIANTS
  FailureSettlesNothing
