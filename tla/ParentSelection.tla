--------------------------- MODULE ParentSelection ----------------------------
(***************************************************************************)
(* The selection of a parent by the DMAIT objective function                *)
(* ("#CONTIKI-NG MODIFICATION/rpl-mrhof.c"): MRHOF with hysteresis, which    *)
(* in addition refuses the neighbours on the negative list.                 *)
(*                                                                         *)
(* The objective function compares two neighbours.  The loop that calls it   *)
(* for the whole neighbour table belongs to RPL-lite and is external: it may *)
(* meet the neighbours in any order and leave some out, and what the table   *)
(* says of them does not change while it runs.                              *)
(***************************************************************************)
EXTENDS Naturals

CONSTANTS
  Nbr,             \* the neighbours
  None,            \* no neighbour
  Entry,           \* what the neighbour table may say of a neighbour
  InfiniteRank,    \* 0xffff, also the greatest path cost
  MaxLinkMetric,   \* MAX_LINK_METRIC (512)
  MaxPathCost,     \* MAX_PATH_COST (32768)
  RankThreshold,   \* RANK_THRESHOLD (192)
  MinHopRankInc    \* min_hoprankinc of the DODAG (128)

(* better: whether better_parent_since is 0, no more than TIME_THRESHOLD ago, *)
(* or longer ago.                                                            *)
ASSUME ParentSelectionAssumption ==
  /\ None \notin Nbr
  /\ InfiniteRank \in Nat /\ MaxLinkMetric \in Nat /\ MaxPathCost \in Nat
  /\ RankThreshold \in Nat /\ MinHopRankInc \in Nat \ {0}
  /\ MaxPathCost + MinHopRankInc < InfiniteRank
  /\ Entry \subseteq [rank : 0 .. InfiniteRank, etx : 0 .. InfiniteRank,
                      better : {"no", "recently", "long"}]

VARIABLES
  table,     \* neighbour -> entry
  listed,    \* members of the negative list
  parent,    \* curr_instance.dag.preferred_parent
  scanning,  \* the loop runs
  seen,      \* neighbours it has offered
  best       \* the best of them so far

vars == <<table, listed, parent, scanning, seen, best>>

Init ==
  /\ table \in [Nbr -> Entry]
  /\ listed = {} /\ parent = None
  /\ scanning = FALSE /\ seen = {} /\ best = None
-------------------------------------------------------------------------------
Smaller(a, b) == IF a <= b THEN a ELSE b
Greater(a, b) == IF a <= b THEN b ELSE a

(* Mutant: the sum is computed in the 16 bits it is returned in. *)
NbrPathCostWraps(nbr) ==
  IF nbr = None THEN InfiniteRank
    ELSE (table[nbr].rank + table[nbr].etx) % (InfiniteRank + 1)

(* nbr_path_cost *)
NbrPathCost(nbr) ==
  IF nbr = None THEN InfiniteRank
    ELSE Smaller(table[nbr].rank + table[nbr].etx, InfiniteRank)

(* rank_via_nbr *)
RankViaNbr(nbr) ==
  IF nbr = None THEN InfiniteRank
    ELSE Greater(Smaller(table[nbr].rank + MinHopRankInc, InfiniteRank), NbrPathCost(nbr))

(* nbr_has_usable_link *)
HasUsableLink(nbr) == table[nbr].etx <= MaxLinkMetric

(* Mutant: the objective function does not ask the negative list. *)
IsAcceptableStock(nbr) == nbr # None /\ HasUsableLink(nbr) /\ NbrPathCost(nbr) <= MaxPathCost

(* nbr_is_acceptable_parent, of a neighbour that is not null. *)
IsAcceptable(nbr) ==
  /\ nbr # None
  /\ nbr \notin listed
  /\ HasUsableLink(nbr)
  /\ NbrPathCost(nbr) <= MaxPathCost

(* within_hysteresis *)
WithinHysteresis(nbr) ==
  /\ NbrPathCost(nbr) + RankThreshold > NbrPathCost(parent)
  /\ table[nbr].better # "long"

Cheaper(nbr1, nbr2) == IF NbrPathCost(nbr1) < NbrPathCost(nbr2) THEN nbr1 ELSE nbr2

(* Mutant: the parent is kept only when it is the first of the two. *)
BestParentOneSided(nbr1, nbr2) ==
  CASE ~IsAcceptable(nbr1) -> IF IsAcceptable(nbr2) THEN nbr2 ELSE None
    [] IsAcceptable(nbr1) /\ ~IsAcceptable(nbr2) -> nbr1
    [] OTHER -> IF nbr1 = parent /\ WithinHysteresis(nbr2) THEN nbr1 ELSE Cheaper(nbr1, nbr2)

(* Mutant: the parent is kept before it is asked whether it is acceptable. *)
BestParentLoyal(nbr1, nbr2) ==
  CASE nbr1 # None /\ nbr2 = parent /\ WithinHysteresis(nbr1) -> nbr2
    [] OTHER -> BestParentOneSided(nbr1, nbr2)

(* Mutant: within the hysteresis the parent is returned, not the argument. *)
BestParentUnseen(nbr1, nbr2) ==
  IF IsAcceptable(nbr1) /\ IsAcceptable(nbr2) /\ parent # None /\ WithinHysteresis(nbr2)
    THEN parent ELSE BestParentOneSided(nbr1, nbr2)

(* best_parent: nbr1 is the best so far, or None, nbr2 the next neighbour. *)
BestParent(nbr1, nbr2) ==
  CASE ~IsAcceptable(nbr1) -> IF IsAcceptable(nbr2) THEN nbr2 ELSE None
    [] IsAcceptable(nbr1) /\ ~IsAcceptable(nbr2) -> nbr1
    [] IsAcceptable(nbr1) /\ IsAcceptable(nbr2) ->
         IF nbr1 = parent /\ WithinHysteresis(nbr2) THEN nbr1
         ELSE IF nbr2 = parent /\ WithinHysteresis(nbr1) THEN nbr2
         ELSE Cheaper(nbr1, nbr2)
-------------------------------------------------------------------------------
(* A DIO, a transmission or the clock changes an entry. *)
Hear(nbr, entry) ==
  /\ ~scanning
  /\ table' = [table EXCEPT ![nbr] = entry]
  /\ UNCHANGED <<listed, parent, scanning, seen, best>>

(* addNodeToNegativeList and clearNegativeList, called between two scans.    *)
(* A full list drops the node: nothing changes.                             *)
ChangeList ==
  /\ ~scanning
  /\ \/ \E nbr \in Nbr : listed' = listed \cup {nbr}
     \/ listed' = {}
  /\ UNCHANGED <<table, parent, scanning, seen, best>>

(* RPL gives up its parent, or DMAIT makes it leave the network. *)
LeaveParent ==
  /\ ~scanning
  /\ parent' = None
  /\ UNCHANGED <<table, listed, scanning, seen, best>>

BeginScan ==
  /\ ~scanning
  /\ scanning' = TRUE
  /\ UNCHANGED <<table, listed, parent, seen, best>>

Offer(nbr) ==
  /\ scanning /\ nbr \notin seen
  /\ seen' = seen \cup {nbr}
  /\ best' = BestParent(best, nbr)
  /\ UNCHANGED <<table, listed, parent, scanning>>

(* RPL adopts the result, or waits for a probe before it does. *)
EndScan ==
  /\ scanning
  /\ parent' \in {best, parent}
  /\ scanning' = FALSE /\ seen' = {} /\ best' = None
  /\ UNCHANGED <<table, listed>>

Next ==
  \/ \E nbr \in Nbr, entry \in Entry : Hear(nbr, entry)
  \/ ChangeList
  \/ LeaveParent
  \/ BeginScan
  \/ \E nbr \in Nbr : Offer(nbr)
  \/ EndScan

Spec == Init /\ [][Next]_vars
-------------------------------------------------------------------------------
TypeOK ==
  /\ table \in [Nbr -> Entry]
  /\ listed \subseteq Nbr /\ parent \in Nbr \cup {None}
  /\ scanning \in BOOLEAN /\ seen \subseteq Nbr /\ best \in seen \cup {None}
  /\ ~scanning => seen = {}

(* "Maintain stability of the preferred parent": once a scan has met an      *)
(* acceptable parent, it can only end with that parent or with a neighbour    *)
(* that costs no more, and only if some other neighbour lies outside the     *)
(* hysteresis, in whatever order the table is (rpl-mrhof.c:299-341).         *)
SwitchIsJustified ==
  parent \in seen /\ IsAcceptable(parent) /\ best # parent =>
    /\ best # None
    /\ NbrPathCost(best) <= NbrPathCost(parent)
    /\ \E nbr \in seen \ {parent} :
         /\ IsAcceptable(nbr) /\ ~WithinHysteresis(nbr)
         /\ NbrPathCost(nbr) <= NbrPathCost(parent)

(* A condemned parent gets no benefit from the hysteresis: when the parent is *)
(* not acceptable, or was not met, a scan ends with the cheapest of the       *)
(* acceptable neighbours it met, and with none only if there was none         *)
(* (rpl-mrhof.c:279-341).                                                    *)
CondemnedIsReplaced ==
  parent \notin seen \/ ~IsAcceptable(parent) =>
    \A nbr \in seen : IsAcceptable(nbr) =>
      best # None /\ NbrPathCost(best) <= NbrPathCost(nbr)

(* "The blacklisted node cannot parent this node again": RPL moves only to a  *)
(* neighbour that is not on the negative list and whose link is usable, which *)
(* is what DmaitClient expects of RPL (rpl-mrhof.c:279-297,                   *)
(* dmait-client.c:497-505).                                                  *)
OnlyUnlistedChosen ==
  [][parent' \notin {parent, None} => parent' \notin listed /\ HasUsableLink(parent')]_vars

(* The rank of a node is beyond that of the parent it selects and short of    *)
(* infinity, however high ranks and link metrics are: no sum wraps at 16 bits *)
(* and makes a hopeless neighbour the best (rpl-mrhof.c:213-269).             *)
RankGrows ==
  best # None =>
    /\ RankViaNbr(best) > table[best].rank
    /\ RankViaNbr(best) < InfiniteRank
===============================================================================
