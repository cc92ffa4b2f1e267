CONSTANTS
  INF = 3
  N = 3
  MaxIters = 6
  Systems <- MCSystems
SPECIFICATION Spec
INVARIANTS
  TypeOK
  InputsAreFinal
  VerdictIsSound
  ExactWhenAcyclic
  OnlyFedHaveValues
PROPERTY Terminates
