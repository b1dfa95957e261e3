\* What Contiki's timers alone force to happen.
SPECIFICATION FairSpec
CONSTANTS
  p1 = p1
  p2 = p2
  r = r
  None = None
  Node <- OneParent
  Root = r
  Route <- OneParentRoutes
  RoutePool = 1
  Slots = 2
  LossThreshold = 2
  UnreachableLimit = 1
  SeqMod = 3
  Late = TRUE
PROPERTIES
  ValidationEnds
  StableParentSettles
  DeafParentBlocked
  IsolationEnds
