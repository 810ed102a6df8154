SPECIFICATION FairSpec
CONSTANTS
  Group1 = {"a1", "a2"}
  Group2 = {"b1", "b2"}
  BlockM = 2
  BlockN = 2
  MBlocks = 4
  Pairs <- PairList
  Plain = 2
  KBlocks = 2
INVARIANTS
  SlotsHeld
  PingPong
  TileWhole
PROPERTIES
  Finishes
\* The block stops when its tiles are done; that it stops no earlier is Finishes.
CHECK_DEADLOCK FALSE
