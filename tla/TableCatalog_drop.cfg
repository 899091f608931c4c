CONSTANTS
  Procs = {p1, p2}
  Schemas = {s1, s2}
  Rows = {r1}
  Persistent = TRUE
  Faults = {}
  Kinds = {"create", "drop", "insert", "load"}
  MaxOps = 3
  MaxCrashes = 0
  SchemaFile = SchemaFile
  Missing = Missing
  Torn = Torn
  NoSchema = NoSchema
  NoProc = NoProc
  NoRow = NoRow
CHECK_DEADLOCK FALSE
SPECIFICATION Spec
INVARIANTS
  DropRemovesAll
