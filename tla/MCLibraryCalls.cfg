SPECIFICATION Spec
CONSTANTS
  INF = 24
  Pool <- Usual
  MaxCalls = 3
  ArraySize <- Sizes
  ConvMax <- Digits
  MaxLine = 6
INVARIANTS
  TypeOK
  LengthsAreCovered
  ValuesAreCovered
  OverflowIsReported
CHECK_DEADLOCK FALSE
