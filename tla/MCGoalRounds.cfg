SPECIFICATION GoalsSpec
CONSTANTS
  Human = {1}
  MaxRevision = 3
  Cap = {2}
INVARIANT OneReservation
PROPERTY CancelStopsGoal
PROPERTY NoRoundAfterUnload
PROPERTY GoalContinues
CHECK_DEADLOCK FALSE
