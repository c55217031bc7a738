CONSTANTS
  N = 4
  MaxParallel = 2
SPECIFICATION FairSpec
INVARIANTS
  ModelOrder
  EveryCallAnswered
  OverlapIsLimited
  NothingLeftRunning
PROPERTIES
  StopsStarting
  Terminates
CHECK_DEADLOCK FALSE
