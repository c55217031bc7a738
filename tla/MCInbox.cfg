CONSTANTS
  m1 = m1
  m2 = m2
  m3 = m3
  Msg <- MCMsg
  MaxSplices = 4
SYMMETRY MCSymmetry
SPECIFICATION Spec
INVARIANTS
  ReplayRebuilds
  PendingAsNotified
