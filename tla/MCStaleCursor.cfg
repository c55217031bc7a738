SPECIFICATION Spec
CONSTANTS
  i1 = i1
  i2 = i2
  c1 = c1
  c2 = c2
  None = None
  Id = {i1, i2}
  Caller = {c1, c2}
  Asks <- MCAsks
  Capacity = 1
  MaxLen <- MCMaxLen
  MaxToken = 6
INVARIANT AppendContinuesLog
