CONSTANTS
  t1 = t1
  t2 = t2
  Threads = {t1}
  Langs = {"go"}
  RefreshThreshold = 0
  Second = 1
  AccessDuration = 1
  RefreshDuration = 1
  MaxRevokedTokens = 4
  KeyConfigured = FALSE
  NoToken = NoToken
  MaxTime = 0
  MaxIds = 8
  MaxRestarts = 1
  MaxCalls = 2
CHECK_DEADLOCK FALSE
SPECIFICATION Spec
INVARIANTS
  LogoutEndsSession
