SPECIFICATION Spec
CONSTANTS
  Requests = {r1, r2}
  MaxWindow = 1
  Limit = 1
  Classes <- MCClasses
  CertMinutes <- MCCertMinutes
  TunnelMinutes <- MCTunnelMinutes
  Minute = 12
  MaxDuration = 127
  CertCeiling <- MCCertCeiling
  MaxTunnel = 3
  DefaultTunnel = 2
  TargetFromRegistry = TRUE
SYMMETRY Symmetric
INVARIANTS
  TypeOK
  FailClosed
  BudgetHeld
  LifetimeAllowed
  TrailNeverContradicts
  NoFeedbackBeforePolicy
PROPERTY
  Implements
