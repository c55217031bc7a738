CONSTANTS
  c1 = c1
  c2 = c2
  Call <- MCCall
  MaxEvents = 7
  MaxCrashes = 2
SPECIFICATION FairSpec
INVARIANTS
  RepairBalances
  InterruptedCallsAnswered
  RanIsNeverNotStarted
  AckedSurvives
PROPERTY
  LoadCompletes
CHECK_DEADLOCK FALSE
