CONSTANTS
  general = general
  login = login
  Keys = {general, login}
  Limit <- MCLimit
  Window <- MCWindow
  CleanupWindow = 3
  MaxTime = 5
  MaxCount = 5
SPECIFICATION Spec
INVARIANTS
  TypeOK
  NeverTooMany
  KeepsTheWindow
PROPERTY ImplementsSlidingWindow
