SPECIFICATION Spec
CONSTANTS
  s1 = s1
  o1 = o1
  d1 = d1
  d2 = d2
  Sessions <- MCSessions
  Others <- MCOthers
  Devices <- MCDevices
  MinNow = 1
  MaxNow = 3
  MaxTime = 3
INVARIANTS
  TypeOK
  AppliedTimeFresh
  SuccessMeansSet
PROPERTY
  BothEndsReturn
CHECK_DEADLOCK FALSE
