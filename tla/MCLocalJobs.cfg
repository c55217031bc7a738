SPECIFICATION JobsSpec
CONSTANTS
  Job = {j1, j2}
  Owner = {a}
  Nobody = nobody
  Wait = {w1, w2}
  Limit = 1
INVARIANT ReportedOnce
INVARIANT GoneOwnsNothing
PROPERTY TeardownIsSilent
PROPERTY TeardownCompletes
CHECK_DEADLOCK FALSE
