CONSTANTS
  Procs = {p1, p2}
  Schemas = {s1, s2}
  Rows = {r1}
  Persistent = TRUE
  Faults = {"cancel", "crash"}
  Kinds = {"create", "drop", "insert", "load"}
  MaxOps = 5
  MaxCrashes = 2
  SchemaFile = SchemaFile
  Missing = Missing
  Torn = Torn
  NoSchema = NoSchema
  NoProc = NoProc
  NoRow = NoRow
CHECK_DEADLOCK FALSE
SPECIFICATION FairSpec
INVARIANTS
  TypeOK
  CacheIsOnDisk
  CatalogAgrees
PROPERTIES
  ImplementsSchemaStore
  Returns
