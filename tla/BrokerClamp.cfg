SPECIFICATION Spec
CONSTANTS
  Requests = {r1}
  MaxWindow = 1
  Limit = 1
  Classes <- MCClasses
  CertMinutes <- MCCertMinutes
  TunnelMinutes <- MCTunnelMinutes
  Minute = 12
  MaxDuration = 127
  CertCeiling <- MCCertCeiling
  MaxTunnel = 3
  DefaultTunnel = 2
  TargetFromRegistry = TRUE
INVARIANT ClampedToCeiling
