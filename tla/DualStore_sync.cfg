CONSTANTS
  p1 = p1
  p2 = p2
  r1 = r1
  r2 = r2
  r3 = r3
  Procs = {p1}
  Rows = {r1, r3}
  Hidden = {r3}
  NumGroups = 1
  Cols = {"a"}
  Vals = {"old", "x", "y"}
  Requests <- SyncRequests
  Seed <- SeedRow
  Faults = {}
  MaxOps = 3
  MaxCrashes = 0
  Missing = Missing
  Torn = Torn
  Garbled = Garbled
  NoRow = NoRow
  NoReq = NoReq
CHECK_DEADLOCK FALSE
SPECIFICATION Spec
INVARIANTS
  Synchronized
