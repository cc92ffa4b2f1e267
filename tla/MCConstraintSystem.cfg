CONSTANTS
  INF = 3
  Konst = {1}
  MaxVars = 3
  MaxMerges = 2
  MaxStore = 1
  MaxOperands = 2
SPECIFICATION Spec
INVARIANTS
  TypeOK
  ClassesAreMerged
  TopIsUnique
  StoreMeansWhatWasAsked

