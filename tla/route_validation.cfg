\* Three nodes, so that parents can form a cycle that is noticed or not; a pool
\* that one long RV or two recorded nodes exhaust.  The system stops when MaxMoves
\* changes of parents have been used and no node has a parent.
SPECIFICATION Spec
CONSTANTS
  n1 = n1
  n2 = n2
  n3 = n3
  Node <- MCNode
  Root = Root
  None = None
  Pool = 3
  MaxBlocks = 3
  MaxMoves = 4
  MaxDamage = 1
SYMMETRY MCSymmetry
INVARIANTS
  TypeOK
  UnalteredIsVerified
  AckedRouteWasWalked
  PoolHoldsRecorded
CHECK_DEADLOCK FALSE
