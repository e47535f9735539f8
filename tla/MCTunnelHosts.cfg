SPECIFICATION Spec
CONSTANTS
  c1 = c1
  c2 = c2
  c3 = c3
  d1 = d1
  Cmds <- MCCmds
  Devices <- MCDevices
SYMMETRY Symmetry
CHECK_DEADLOCK FALSE
INVARIANTS
  TypeOK
  HeldStanza
  CleanExit
  PersistentKept
PROPERTY
  ReapClears
