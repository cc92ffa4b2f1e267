CONSTANT Input <- MCInput
SPECIFICATION Spec
INVARIANTS
  TypeOK
  OrderRespectsFlow
  OrderIsPermutation
