SPECIFICATION LifecycleSpec
CONSTANTS
  Call = {c1, c2}
  Owner = {o1}
  Id = {i1, i2}
  None = none
INVARIANT RegisteredWhileAtWork
INVARIANT DriverBeforeScope
INVARIANT PreparationOutlivesUse
INVARIANT ProviderGoneIsQuiet
INVARIANT NoOrphan
PROPERTY TeardownSettles
CHECK_DEADLOCK FALSE
