\* An accused node answers its probe and stays in the list with no suspicion.
SPECIFICATION Spec
CONSTANTS
  n1 = n1
  n2 = n2
  n3 = n3
  Node <- MCNode
  AvoidRoute <- MCAvoidRoute
  SuspectPool = 2
  ScoreMod = 256
  MaxAr = 3
  MaxRepeat = 1
INVARIANTS
  SuspectsHavePositiveScore
CHECK_DEADLOCK FALSE
