SPECIFICATION Spec
CONSTANTS
  NumTokens = 3
  TopK = 2
  NumExperts = 4
  Alignment = 2
  BlockThreads = 2
  RoutesPerBlock = 4
  WarpSize = 2
  MinWorkers = 5
  Cases <- AllCases
  NumSms = 2
  BlockM = 2
  NumBlocksN = 2
  BlocksPerGroup = 2
  CounterCases <- Counted
INVARIANTS
  RowsTakenOnce
  Permuted
  TilesOnce
  Delivered
