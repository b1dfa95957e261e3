\* Answers arrive before the next tick or never.
SPECIFICATION Spec
CONSTANTS
  p1 = p1
  p2 = p2
  r = r
  None = None
  Node <- TwoParents
  Root = r
  Route <- TwoParentRoutes
  RoutePool = 1
  Slots = 2
  LossThreshold = 2
  UnreachableLimit = 1
  SeqMod = 3
  Late = FALSE
INVARIANTS
  TypeOK
  ValidatedRouteLeavesByParent
  MissesShareParent
  ArAvoidsCondemnedParent
