SPECIFICATION Spec
CONSTANTS
  INF = 24
  TypeEnv <- Env
  Decls <- Variables
  Pool <- Statements
  MaxStmts = 3
  MaxInt = 6
INVARIANTS
  TypeOK
  VariablesAreCovered
  FieldsAreCovered
  DereferenceIsReported
CHECK_DEADLOCK FALSE
