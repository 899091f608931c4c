CONSTANTS
  Rows = {1, 2}
  e1 = e1
  e2 = e2
  Engines = {e1}
  Persistent = {e1}
  c1 = c1
  c2 = c2
  Columns = {c1, c2}
  MaxChanges = 4
  MaxStarts = 3
  MaxFaults = 1
  None = None
CHECK_DEADLOCK FALSE
SPECIFICATION Spec
INVARIANTS
  KeptIsCurrent
