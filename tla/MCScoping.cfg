SPECIFICATION Spec
CONSTANTS
  INF = 24
  Programs <- MCPrograms
INVARIANTS
  TypeOK
  OneContextPerObject
  ContextMatchesType
  AssignmentsAreMerged
  CallsConnect
  ArraysKeepTheirSize
CHECK_DEADLOCK FALSE
