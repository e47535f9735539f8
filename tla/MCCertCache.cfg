SPECIFICATION Spec
CONSTANTS
  c1 = c1
  c2 = c2
  c3 = c3
  d1 = d1
  Cmds <- MCCmds
  Devices <- MCDevices
  Lifetimes <- MCLifetimes
  Margin = 2
  MaxKeys = 2
  MaxTime = 2
SYMMETRY Symmetry
CHECK_DEADLOCK FALSE
INVARIANTS
  TypeOK
  OneKey
  UseFindsCert
