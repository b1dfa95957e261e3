\* Three neighbours, every table made of ten entries, scanned in every order.
SPECIFICATION Spec
CONSTANTS
  n1 = n1
  n2 = n2
  n3 = n3
  None = None
  Nbr <- MCNbr
  Entry <- MCEntry
  InfiniteRank = 65535
  MaxLinkMetric = 512
  MaxPathCost = 32768
  RankThreshold = 192
  MinHopRankInc = 128
SYMMETRY Symmetry
INVARIANTS
  TypeOK
  SwitchIsJustified
  CondemnedIsReplaced
  RankGrows
PROPERTIES
  OnlyUnlistedChosen
