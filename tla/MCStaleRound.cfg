SPECIFICATION GoalsSpec
CONSTANTS
  Human = {1}
  MaxRevision = 3
  Cap = {2}
INVARIANT AdmittedRoundIsReplayable
CHECK_DEADLOCK FALSE
