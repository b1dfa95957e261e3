\* Four slots, so that the list fills, overflows and is cleared.
SPECIFICATION Spec
CONSTANTS
  n1 = n1
  n2 = n2
  n3 = n3
  Null = Null
  Node <- MCNode
  Slots = 4
INVARIANTS
  TypeOK
  BlocksOwned
PROPERTIES
  ImplementsList
