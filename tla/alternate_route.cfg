\* Two ARs, one of them delivered twice, over four nodes and the root.
\* The system stops when the last AR and the last probe have been dealt with.
SPECIFICATION FairSpec
CONSTANTS
  n1 = n1
  n2 = n2
  n3 = n3
  n4 = n4
  Root = Root
  None = None
  Node <- MCNode
  Link <- MCLink
  Validated <- MCValidated
  SuspectPool = 2
  ScoreMod = 256
  MaxAr = 3
  MaxStart = 2
  MaxCopies = 1
INVARIANTS
  TypeOK
  NoNodeTwice
  RouteIsPath
  DetourFirst
PROPERTIES
  DeliversToFaultLocation
  ArsDieOut
CHECK_DEADLOCK FALSE
