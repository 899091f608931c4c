CONSTANTS
  p1 = p1
  p2 = p2
  Procs = {p1, p2}
  Second = 1
  AccessDuration = 1
  RefreshDuration = 1
  MaxRevokedTokens = 3
  KeyConfigured = FALSE
  MaxTime = 2
  MaxIds = 2
  MaxRestarts = 1
  NoToken = NoToken
CHECK_DEADLOCK FALSE
SPECIFICATION Spec
SYMMETRY Symm
INVARIANTS
  TypeOK
  RevokedStaysRevoked
  SpentTokensDead
