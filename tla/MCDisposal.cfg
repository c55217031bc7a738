CONSTANTS
  m1 = m1
  m2 = m2
  m3 = m3
  Msg <- MCMsg
  MaxStep = 1
SPECIFICATION Spec
PROPERTY
  DisposalStartsNoDriver
