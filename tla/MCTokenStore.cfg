SPECIFICATION Spec
CONSTANTS
  c1 = c1
  c2 = c2
  c3 = c3
  Cmds <- MCCmds
  Keychain = TRUE
  MaxLogins = 2
  MaxGrants = 3
SYMMETRY Symmetry
INVARIANTS
  TypeOK
  StoredRefreshLive
  RefreshGoesHome
  LogoutClears
CHECK_DEADLOCK FALSE
