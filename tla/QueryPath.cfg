CONSTANTS
  Schemas <- MCSchemas
  Statements <- MCStatements
  Absent = Absent
  MaxChanges = 2
CHECK_DEADLOCK FALSE
SPECIFICATION Spec
INVARIANTS
  TypeOK
  TranslatesPlain
  PlainIsAnswered

  
