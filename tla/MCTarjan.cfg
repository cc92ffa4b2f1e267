CONSTANTS
  N = 4
  Graph <- MCGraph
SPECIFICATION Spec
INVARIANTS
  TypeOK
  StackHoldsOpenNodes
PROPERTIES
  EmitsComponents
  FindsAllComponents
