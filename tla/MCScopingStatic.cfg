SPECIFICATION Spec
CONSTANTS
  INF = 24
  Programs <- Statics
INVARIANT AssignmentsAreMerged
CHECK_DEADLOCK FALSE
