SPECIFICATION FairSpec
CONSTANTS
  p1 = p1
  p2 = p2
  c0 = c0
  c1 = c1
  Producers = {p1, p2}
  Leader = p1
  Consumers = {c0, c1}
  Operands = {"a", "b"}
  NumStages = 3
  KIters = 4
  Tiles = 2
INVARIANTS
  ParityTellsRounds
  NoOverwrite
  TileComplete
PROPERTIES
  Streams
  Finishes
CHECK_DEADLOCK FALSE
