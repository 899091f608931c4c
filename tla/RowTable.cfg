CONSTANTS
  p1 = p1
  p2 = p2
  r1 = r1
  r2 = r2
  r3 = r3
  Procs = {p1, p2}
  Rows = {r1, r3}
  Hidden = {r3}
  NumGroups = 2
  Cols = {"a", "b"}
  Vals = {"old", "x", "y"}
  Requests <- TableRequests
  Seed <- SeedRow
  Faults = {"cancel", "crash"}
  MaxOps = 2
  MaxCrashes = 1
  Missing = Missing
  Torn = Torn
  Garbled = Garbled
  NoRow = NoRow
  NoReq = NoReq
  Unknown = Unknown
CHECK_DEADLOCK FALSE
SPECIFICATION HFairSpec
INVARIANTS
  TypeOK
  Agreement
  ReadCommitted
PROPERTIES
  ImplementsRowTable
  Answered
