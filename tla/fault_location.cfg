\* More nodes than the pool holds, more accusations than a score can count.
\* The system stops when the last AR allowed by MaxAr has been dealt with.
SPECIFICATION FairSpec
CONSTANTS
  n1 = n1
  n2 = n2
  n3 = n3
  Node <- MCNode
  AvoidRoute <- MCAvoidRoute
  SuspectPool = 2
  ScoreMod = 3
  MaxAr = 3
  MaxRepeat = 1
INVARIANTS
  TypeOK
  SuspicionIsUnanswered
  AccusedAreRecorded
PROPERTIES
  AnsweringClears
CHECK_DEADLOCK FALSE
