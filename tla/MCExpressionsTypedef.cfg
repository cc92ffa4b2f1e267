SPECIFICATION Spec
CONSTANTS
  INF = 24
  TypeEnv <- Env
  Decls <- Handles
  Pool <- Accesses
  MaxStmts = 2
  MaxInt = 6
INVARIANT FieldsAreCovered
CHECK_DEADLOCK FALSE
