CONSTANTS
  INF = 3
  MaxItems = 2
  Coeff <- MCCoeff
  Konst <- MCKonst
  Value <- MCValue
SPECIFICATION Spec
INVARIANTS
  TypeOK
  RangeContainsValue
  EvaluationIsMonotone
  QueryDecidesGe
  TierTellsCertainty
CHECK_DEADLOCK FALSE
