SPECIFICATION FairSpec
CONSTANTS
  Files = 2
  prewarm = 0
  stall_timeout = 2
  total_budget = 3
  teardown_timeout = 1
  MaxTests = 1
INVARIANTS
  OneRuns
  
  StallIsSilence
  VerdictHonest
PROPERTIES
  SettledInOrder
  Ends
CHECK_DEADLOCK FALSE
