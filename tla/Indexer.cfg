CONSTANTS
  Rows = {1, 2}
  e1 = e1
  e2 = e2
  Engines = {e1, e2}
  Persistent = {e1}
  c1 = c1
  c2 = c2
  Columns = {c1, c2}
  MaxChanges = 3
  MaxStarts = 2
  MaxFaults = 1
  None = None
CHECK_DEADLOCK FALSE
SPECIFICATION Spec
INVARIANTS
  TypeOK
  LoadedIsCurrent
PROPERTIES
  OnlyIfNecessary
