\* Room for an RV to come back to the node it started from.
SPECIFICATION Spec
CONSTANTS
  n1 = n1
  n2 = n2
  n3 = n3
  Node <- MCNode
  Root = Root
  None = None
  Pool = 3
  MaxBlocks = 4
  MaxMoves = 3
  MaxDamage = 0
SYMMETRY MCSymmetry
INVARIANTS
  CyclesEliminated
CHECK_DEADLOCK FALSE
