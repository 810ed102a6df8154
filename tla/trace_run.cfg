SPECIFICATION SpecTimeline
CONSTANTS
  Names = {a, b}
  Lanes = {main, tma, wg}
  Groups = {producer}
  DefaultGroup = default
  Flows = {arrow}
  Blocks = {{0, 1}}
  MAX_LANES = 2
  MaxBuilds = 2
  MaxMarkers = 3
  MaxScopes = 1
  MaxFlows = 1
  Branch <- Mixed
  max_events = 3
  MaxClock = 4
  Garbage = Garbage
  NoRun = NoRun
  NoState = NoState
  NoBuild = NoBuild
  NoKernel = NoKernel
SYMMETRY Symmetry
CONSTRAINT Later
INVARIANTS
  TypeOK
  TablesInv
  OwnTables
  TimelineFaithful
CHECK_DEADLOCK FALSE
