CONSTANTS
  t1 = t1
  t2 = t2
  Threads = {t1, t2}
  Langs = {"go", "python"}
  RefreshThreshold = 1
  Second = 1
  AccessDuration = 1
  RefreshDuration = 2
  MaxRevokedTokens = 4
  KeyConfigured = FALSE
  NoToken = NoToken
  MaxTime = 1
  MaxIds = 8
  MaxRestarts = 1
  MaxCalls = 2
CHECK_DEADLOCK FALSE
SPECIFICATION Spec
INVARIANTS
  TypeOK
  LogoutRevokes
  CachedRefreshUnspent
  RefreshesInTurn
PROPERTIES
  CallsReturn
