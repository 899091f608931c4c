CONSTANTS
  p1 = p1
  p2 = p2
  r1 = r1
  r2 = r2
  r3 = r3
  Procs = {p1, p2}
  Rows = {r1, r2}
  Hidden = {}
  NumGroups = 2
  Cols = {"a"}
  Vals = {"old", "x", "y"}
  Requests <- BulkRequests
  Seed <- SeedRow
  Faults = {"read", "cancel", "crash"}
  MaxOps = 3
  MaxCrashes = 1
  Missing = Missing
  Torn = Torn
  Garbled = Garbled
  NoRow = NoRow
  NoReq = NoReq
CHECK_DEADLOCK FALSE
SPECIFICATION Spec
SYMMETRY Symm
INVARIANTS
  Agreement
  ReadCommitted
