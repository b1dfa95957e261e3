------------------------ MODULE ParentSelectionProofs -------------------------
(***************************************************************************)
(* Proofs about ParentSelection for every set of neighbours, every neighbour *)
(* table and every value of the thresholds.                                 *)
(***************************************************************************)
EXTENDS ParentSelection, TLAPS

(* The parent takes part in the scan and may stay. *)
ParentStands == parent \in seen /\ IsAcceptable(parent)

BestAcceptable == best # None => IsAcceptable(best)

IInv ==
  /\ TypeOK
  /\ BestAcceptable
  /\ SwitchIsJustified
  /\ CondemnedIsReplaced
-------------------------------------------------------------------------------
LEMMA CostType ==
  ASSUME TypeOK, NEW nbr \in Nbr \cup {None}
  PROVE  NbrPathCost(nbr) \in 0 .. InfiniteRank
<1>1. CASE nbr = None
  BY <1>1, ParentSelectionAssumption DEF NbrPathCost
<1>2. CASE nbr \in Nbr
  <2>1. table[nbr].rank \in Nat /\ table[nbr].etx \in Nat
    BY <1>2, ParentSelectionAssumption DEF TypeOK
  <2>2. nbr # None
    BY <1>2, ParentSelectionAssumption
  <2>3. QED
    BY <2>1, <2>2, ParentSelectionAssumption DEF NbrPathCost, Smaller
<1>3. QED
  BY <1>1, <1>2

(* An acceptable neighbour is a neighbour. *)
LEMMA AcceptableType ==
  ASSUME TypeOK, NEW nbr \in Nbr \cup {None}, IsAcceptable(nbr)
  PROVE  nbr \in Nbr /\ nbr # None /\ nbr \notin listed /\ HasUsableLink(nbr)
BY DEF IsAcceptable

(* best_parent returns one of its arguments, acceptable, if there is one. *)
LEMMA BestParentFacts ==
  ASSUME TypeOK, NEW nbr1 \in Nbr \cup {None}, NEW nbr2 \in Nbr
  PROVE  LET b == BestParent(nbr1, nbr2)
         IN /\ b \in {nbr1, nbr2, None}
            /\ b # None => IsAcceptable(b)
            /\ IsAcceptable(nbr1) \/ IsAcceptable(nbr2) => b # None
            /\ ~IsAcceptable(nbr1) => b \in {nbr2, None}
            /\ ~IsAcceptable(nbr2) /\ IsAcceptable(nbr1) => b = nbr1
<1>1. CASE ~IsAcceptable(nbr1) /\ IsAcceptable(nbr2)
  BY <1>1, AcceptableType DEF BestParent
<1>2. CASE ~IsAcceptable(nbr1) /\ ~IsAcceptable(nbr2)
  BY <1>2, AcceptableType DEF BestParent
<1>3. CASE IsAcceptable(nbr1) /\ ~IsAcceptable(nbr2)
  BY <1>3, AcceptableType DEF BestParent
<1>4. CASE IsAcceptable(nbr1) /\ IsAcceptable(nbr2)
  BY <1>4, AcceptableType DEF BestParent, Cheaper
<1>5. QED
  BY <1>1, <1>2, <1>3, <1>4

(* Of two acceptable neighbours it prefers the parent within the hysteresis,  *)
(* and otherwise the cheaper one.                                            *)
LEMMA BestOfTwo ==
  ASSUME TypeOK, NEW nbr1 \in Nbr \cup {None}, NEW nbr2 \in Nbr,
         IsAcceptable(nbr1), IsAcceptable(nbr2)
  PROVE  LET b == BestParent(nbr1, nbr2)
         IN /\ nbr1 = parent /\ WithinHysteresis(nbr2) => b = nbr1
            /\ nbr1 # parent /\ nbr2 = parent /\ WithinHysteresis(nbr1) => b = nbr2
            /\ \/ nbr1 = parent /\ WithinHysteresis(nbr2)
               \/ nbr2 = parent /\ WithinHysteresis(nbr1)
               \/ /\ NbrPathCost(b) <= NbrPathCost(nbr1)
                  /\ NbrPathCost(b) <= NbrPathCost(nbr2)
<1>1. BestParent(nbr1, nbr2) =
        IF nbr1 = parent /\ WithinHysteresis(nbr2) THEN nbr1
        ELSE IF nbr2 = parent /\ WithinHysteresis(nbr1) THEN nbr2
        ELSE Cheaper(nbr1, nbr2)
  BY DEF BestParent
<1>2. /\ NbrPathCost(Cheaper(nbr1, nbr2)) <= NbrPathCost(nbr1)
      /\ NbrPathCost(Cheaper(nbr1, nbr2)) <= NbrPathCost(nbr2)
  <2>1. NbrPathCost(nbr1) \in Nat /\ NbrPathCost(nbr2) \in Nat
    BY CostType, ParentSelectionAssumption
  <2>2. QED
    BY <2>1 DEF Cheaper
<1>3. QED
  BY <1>1, <1>2

LEMMA InitInv == Init => IInv
BY DEF Init, IInv, TypeOK, BestAcceptable, SwitchIsJustified, CondemnedIsReplaced

(* With nothing scanned there is nothing to show. *)
LEMMA BetweenScans == TypeOK /\ seen = {} => IInv
<1> SUFFICES ASSUME TypeOK, seen = {} PROVE IInv
  OBVIOUS
<1>1. best = None
  BY DEF TypeOK
<1>2. QED
  BY <1>1 DEF IInv, BestAcceptable, SwitchIsJustified, CondemnedIsReplaced

(* The invariant after a neighbour has been offered, with the verdicts on the  *)
(* neighbours as they were before.                                           *)
LEMMA OfferKeeps ==
  ASSUME IInv, NEW nbr \in Nbr, nbr \notin seen
  PROVE  LET b == BestParent(best, nbr)
         IN /\ b \in seen \cup {nbr, None}
            /\ b # None => IsAcceptable(b)
            /\ parent \in seen \cup {nbr} /\ IsAcceptable(parent) /\ b # parent =>
                 /\ b # None
                 /\ NbrPathCost(b) <= NbrPathCost(parent)
                 /\ \E n \in (seen \cup {nbr}) \ {parent} :
                      /\ IsAcceptable(n) /\ ~WithinHysteresis(n)
                      /\ NbrPathCost(n) <= NbrPathCost(parent)
            /\ parent \notin seen \cup {nbr} \/ ~IsAcceptable(parent) =>
                 \A n \in seen \cup {nbr} : IsAcceptable(n) =>
                   b # None /\ NbrPathCost(b) <= NbrPathCost(n)
<1> DEFINE b == BestParent(best, nbr)
<1>1. TypeOK /\ best \in seen \cup {None} /\ best \in Nbr \cup {None} /\ seen \subseteq Nbr
  BY DEF IInv, TypeOK
<1>2. best # None => best \in seen /\ IsAcceptable(best)
  BY <1>1 DEF IInv, BestAcceptable
<1>3. ~IsAcceptable(None)
  BY DEF IsAcceptable
<1>4. /\ b \in {best, nbr, None}
      /\ b # None => IsAcceptable(b)
      /\ IsAcceptable(best) \/ IsAcceptable(nbr) => b # None
      /\ ~IsAcceptable(best) => b \in {nbr, None}
      /\ ~IsAcceptable(nbr) /\ IsAcceptable(best) => b = best
  BY <1>1, BestParentFacts
<1>5. IsAcceptable(best) /\ IsAcceptable(nbr) =>
        /\ best = parent /\ WithinHysteresis(nbr) => b = best
        /\ best # parent /\ nbr = parent /\ WithinHysteresis(best) => b = nbr
        /\ \/ best = parent /\ WithinHysteresis(nbr)
           \/ nbr = parent /\ WithinHysteresis(best)
           \/ /\ NbrPathCost(b) <= NbrPathCost(best)
              /\ NbrPathCost(b) <= NbrPathCost(nbr)
  BY <1>1, BestOfTwo
<1>6. \A n \in Nbr \cup {None} : NbrPathCost(n) \in Nat
  BY <1>1, CostType, ParentSelectionAssumption
<1>7. b \in Nbr \cup {None} /\ parent \in Nbr \cup {None}
  BY <1>1, <1>4 DEF TypeOK
<1> HIDE DEF b
<1>8. ASSUME parent \in seen \cup {nbr}, IsAcceptable(parent), b # parent
      PROVE  /\ b # None
             /\ NbrPathCost(b) <= NbrPathCost(parent)
             /\ \E n \in (seen \cup {nbr}) \ {parent} :
                  /\ IsAcceptable(n) /\ ~WithinHysteresis(n)
                  /\ NbrPathCost(n) <= NbrPathCost(parent)
  <2>1. CASE nbr = parent
    <3>1. IsAcceptable(best) /\ IsAcceptable(nbr) /\ best \in seen /\ best # parent
      BY <1>2, <1>3, <1>4, <1>8, <2>1
    <3>2. ~WithinHysteresis(best) /\ b = best /\ NbrPathCost(b) <= NbrPathCost(parent)
      BY <3>1, <1>4, <1>5, <1>8, <2>1
    <3>3. b # None /\ best \in (seen \cup {nbr}) \ {parent}
      BY <3>1, <3>2, <1>3
    <3>4. QED
      BY <3>1, <3>2, <3>3
  <2>2. CASE nbr # parent /\ best = parent
    <3>1. IsAcceptable(best) /\ IsAcceptable(nbr)
      BY <1>4, <1>8, <2>2
    <3>2. ~WithinHysteresis(nbr) /\ b = nbr /\ NbrPathCost(b) <= NbrPathCost(parent)
      BY <3>1, <1>4, <1>5, <1>8, <2>2
    <3>3. QED
      BY <3>1, <3>2, <2>2, <1>3
  <2>3. CASE nbr # parent /\ best # parent
    <3>1. /\ best # None
          /\ NbrPathCost(best) <= NbrPathCost(parent)
          /\ \E n \in seen \ {parent} :
               /\ IsAcceptable(n) /\ ~WithinHysteresis(n)
               /\ NbrPathCost(n) <= NbrPathCost(parent)
      BY <1>8, <2>3 DEF IInv, SwitchIsJustified
    <3>2. b # None /\ NbrPathCost(b) <= NbrPathCost(best)
      BY <3>1, <2>3, <1>1, <1>2, <1>4, <1>5, <1>6
    <3>3. NbrPathCost(b) <= NbrPathCost(parent)
      BY <3>1, <3>2, <1>1, <1>6, <1>7
    <3>4. QED
      BY <3>1, <3>2, <3>3
  <2>4. QED
    BY <2>1, <2>2, <2>3
<1>9. ASSUME parent \notin seen \cup {nbr} \/ ~IsAcceptable(parent),
             NEW n \in seen \cup {nbr}, IsAcceptable(n)
      PROVE  b # None /\ NbrPathCost(b) <= NbrPathCost(n)
  <2>1. /\ IsAcceptable(best) => best # parent
        /\ IsAcceptable(nbr) => nbr # parent
    BY <1>1, <1>3, <1>9
  <2>2. IsAcceptable(best) /\ IsAcceptable(nbr) =>
          NbrPathCost(b) <= NbrPathCost(best) /\ NbrPathCost(b) <= NbrPathCost(nbr)
    BY <2>1, <1>5
  <2>3. CASE n = nbr
    BY <2>2, <2>3, <1>1, <1>4, <1>6, <1>7, <1>9
  <2>4. CASE n \in seen
    <3>1. best # None /\ NbrPathCost(best) <= NbrPathCost(n)
      BY <1>9, <2>4 DEF IInv, CondemnedIsReplaced
    <3>2. NbrPathCost(b) <= NbrPathCost(best)
      BY <3>1, <2>2, <1>1, <1>2, <1>4, <1>6
    <3>3. n \in Nbr
      BY <2>4, <1>1
    <3>4. NbrPathCost(b) <= NbrPathCost(n)
      BY <3>1, <3>2, <3>3, <1>1, <1>6, <1>7
    <3>5. QED
      BY <3>1, <3>4, <1>2, <1>4
  <2>5. QED
    BY <2>3, <2>4
<1>10. b \in seen \cup {nbr, None}
  BY <1>1, <1>4
<1>11. b # None => IsAcceptable(b)
  BY <1>4
<1>12. QED
  BY <1>8, <1>9, <1>10, <1>11 DEF b

LEMMA OfferInv ==
  ASSUME IInv, NEW nbr \in Nbr, Offer(nbr)
  PROVE  IInv'
<1> DEFINE b == BestParent(best, nbr)
<1>1. nbr \notin seen /\ scanning /\ best' = b /\ seen' = seen \cup {nbr}
  BY DEF Offer
<1> HIDE DEF b
<1>2. /\ b \in seen \cup {nbr, None}
      /\ b # None => IsAcceptable(b)
      /\ parent \in seen \cup {nbr} /\ IsAcceptable(parent) /\ b # parent =>
           /\ b # None
           /\ NbrPathCost(b) <= NbrPathCost(parent)
           /\ \E n \in (seen \cup {nbr}) \ {parent} :
                /\ IsAcceptable(n) /\ ~WithinHysteresis(n)
                /\ NbrPathCost(n) <= NbrPathCost(parent)
      /\ parent \notin seen \cup {nbr} \/ ~IsAcceptable(parent) =>
           \A n \in seen \cup {nbr} : IsAcceptable(n) =>
             b # None /\ NbrPathCost(b) <= NbrPathCost(n)
  BY <1>1, OfferKeeps DEF b
<1>3. TypeOK'
  BY <1>1, <1>2 DEF Offer, IInv, TypeOK
<1>4. BestAcceptable'
  BY <1>1, <1>2 DEF Offer, BestAcceptable, IsAcceptable, HasUsableLink, NbrPathCost
<1>5. SwitchIsJustified'
  BY <1>1, <1>2 DEF Offer, SwitchIsJustified, IsAcceptable, HasUsableLink, NbrPathCost,
                    WithinHysteresis
<1>6. CondemnedIsReplaced'
  BY <1>1, <1>2 DEF Offer, CondemnedIsReplaced, IsAcceptable, HasUsableLink, NbrPathCost
<1>7. QED
  BY <1>3, <1>4, <1>5, <1>6 DEF IInv

LEMMA NextInv == IInv /\ [Next]_vars => IInv'
<1> SUFFICES ASSUME IInv, [Next]_vars PROVE IInv'
  OBVIOUS
<1>1. TypeOK
  BY DEF IInv
<1>2. CASE \E nbr \in Nbr, entry \in Entry : Hear(nbr, entry)
  <2>1. PICK nbr \in Nbr, entry \in Entry : Hear(nbr, entry)
    BY <1>2
  <2>2. (TypeOK /\ seen = {})'
    BY <1>1, <2>1 DEF Hear, TypeOK
  <2>3. QED
    BY <2>2, BetweenScans, PTL
<1>3. CASE ChangeList
  <2>1. (TypeOK /\ seen = {})'
    BY <1>1, <1>3 DEF ChangeList, TypeOK
  <2>2. QED
    BY <2>1, BetweenScans, PTL
<1>4. CASE LeaveParent
  <2>1. (TypeOK /\ seen = {})'
    BY <1>1, <1>4 DEF LeaveParent, TypeOK
  <2>2. QED
    BY <2>1, BetweenScans, PTL
<1>5. CASE BeginScan
  <2>1. (TypeOK /\ seen = {})'
    BY <1>1, <1>5 DEF BeginScan, TypeOK
  <2>2. QED
    BY <2>1, BetweenScans, PTL
<1>6. CASE \E nbr \in Nbr : Offer(nbr)
  BY <1>6, OfferInv
<1>7. CASE EndScan
  <2>1. (TypeOK /\ seen = {})'
    BY <1>1, <1>7 DEF EndScan, TypeOK
  <2>2. QED
    BY <2>1, BetweenScans, PTL
<1>8. CASE UNCHANGED vars
  BY <1>8 DEF vars, IInv, TypeOK, BestAcceptable, SwitchIsJustified, CondemnedIsReplaced,
              IsAcceptable, HasUsableLink, NbrPathCost, WithinHysteresis
<1>9. QED
  BY <1>2, <1>3, <1>4, <1>5, <1>6, <1>7, <1>8 DEF Next

(* No sum of ranks and metrics gets near the width of its type for a          *)
(* neighbour that is acceptable.                                            *)
LEMMA RankOfAcceptable ==
  ASSUME TypeOK, best # None, IsAcceptable(best)
  PROVE  RankViaNbr(best) > table[best].rank /\ RankViaNbr(best) < InfiniteRank
<1>1. best \in Nbr
  BY DEF TypeOK
<1>2. table[best].rank \in Nat /\ table[best].etx \in Nat
  BY <1>1, ParentSelectionAssumption DEF TypeOK
<1>3. NbrPathCost(best) = Smaller(table[best].rank + table[best].etx, InfiniteRank)
  BY DEF NbrPathCost
<1>4. NbrPathCost(best) <= MaxPathCost
  BY DEF IsAcceptable
<1>5. table[best].rank <= MaxPathCost
  BY <1>2, <1>3, <1>4, ParentSelectionAssumption DEF Smaller
<1>6. RankViaNbr(best) = Greater(Smaller(table[best].rank + MinHopRankInc, InfiniteRank),
                                 NbrPathCost(best))
  BY DEF RankViaNbr
<1>7. NbrPathCost(best) \in Nat
  BY <1>1, CostType, ParentSelectionAssumption
<1>8. QED
  BY <1>2, <1>4, <1>5, <1>6, <1>7, ParentSelectionAssumption DEF Smaller, Greater

LEMMA IInvRank == IInv => RankGrows
BY RankOfAcceptable DEF IInv, BestAcceptable, RankGrows

(* In whatever order and over whatever part of the table RPL asks, an         *)
(* acceptable parent is left only for a reason, a condemned one is replaced   *)
(* by the cheapest neighbour left, and the rank grows on the way down         *)
(* (rpl-mrhof.c:213-341).                                                    *)
THEOREM ScanSafety == Spec => [](TypeOK /\ SwitchIsJustified /\ CondemnedIsReplaced /\ RankGrows)
<1>1. IInv => TypeOK /\ SwitchIsJustified /\ CondemnedIsReplaced /\ RankGrows
  BY IInvRank DEF IInv
<1>2. QED
  BY InitInv, NextInv, <1>1, PTL DEF Spec

(* RPL moves only to a neighbour that is neither condemned nor beyond the     *)
(* link metric: the environment that DmaitClient assumes                     *)
(* (rpl-mrhof.c:279-341).                                                    *)
THEOREM OnlyUnlisted == Spec => OnlyUnlistedChosen
<1>1. IInv /\ [Next]_vars =>
        [parent' \notin {parent, None} => parent' \notin listed /\ HasUsableLink(parent')]_vars
  <2> SUFFICES ASSUME IInv, Next, parent' \notin {parent, None}
               PROVE  parent' \notin listed /\ HasUsableLink(parent')
    BY DEF vars
  <2>1. parent' = best /\ best # None
    BY DEF Next, Hear, ChangeList, LeaveParent, BeginScan, Offer, EndScan
  <2>2. IsAcceptable(best)
    BY <2>1 DEF IInv, BestAcceptable
  <2>3. QED
    BY <2>1, <2>2 DEF IsAcceptable
<1>2. QED
  BY InitInv, NextInv, <1>1, PTL DEF Spec, OnlyUnlistedChosen
===============================================================================
