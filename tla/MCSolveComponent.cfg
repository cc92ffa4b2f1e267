CONSTANTS
  INF = 3
  MaxIters = 6
  Var <- Three
  Constraint <- AllConstraints
  Eval <- EvalConstraint
  Problem <- AllCalls
SPECIFICATION FairSpec
INVARIANTS
  TypeOK
  ConvergedIsSolution
  AcyclicIsExact
PROPERTY Terminates
