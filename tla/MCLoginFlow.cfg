SPECIFICATION Spec
CONSTANTS
  p1 = p1
  p2 = p2
  Logins = {l1, l2}
  AllPorts <- MCPorts
  MaxVisits = 2
CHECK_DEADLOCK FALSE
INVARIANT
  CodeIsMine
PROPERTIES
  AnsweredReturns
  CancelledReturns
