\* Answers may arrive at any time after their request.
SPECIFICATION Spec
CONSTANTS
  p1 = p1
  p2 = p2
  r = r
  None = None
  Node <- TwoParents
  Root = r
  Route <- TwoParentRoutes
  RoutePool = 1
  Slots = 2
  LossThreshold = 2
  UnreachableLimit = 1
  SeqMod = 3
  Late = TRUE
INVARIANTS
  ValidationGuarded
  LossAccounting
  CondemnedAreBlocked
PROPERTIES
  CondemnedForCause
