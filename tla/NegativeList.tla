----------------------------- MODULE NegativeList -----------------------------
(***************************************************************************)
(* The negative list of the DMAIT objective function as it is stored       *)
(* ("#CONTIKI-NG MODIFICATION/rpl-mrhof.c"): an array of pointers to        *)
(* addresses, each address in a block of the memory pool linkaddr_memb,    *)
(* with as many blocks as the array has slots.  It implements              *)
(* BlockedNodes, the list the rest of DMAIT relies on.                     *)
(***************************************************************************)
EXTENDS Naturals, FiniteSets

CONSTANTS
  Node,   \* link-layer addresses
  Slots,  \* NBR_TABLE_MAX_NEIGHBORS: slots of the array, blocks of the pool
  Null    \* an empty slot; also the null address some callers pass

ASSUME NegativeListAssumption ==
  /\ Slots \in Nat \ {0}
  /\ Null \notin Node
  /\ Null \notin 1 .. Slots

VARIABLES
  initialized,
  negativelist,  \* slot -> block, or Null
  used,          \* blocks the pool has handed out
  content        \* block -> the address last copied to it

vars == <<initialized, negativelist, used, content>>

Slot  == 1 .. Slots
Block == 1 .. Slots

Empty == [x \in Slot |-> Null]

(* The memory of the pool starts zeroed: every block holds the same address. *)
Init ==
  /\ initialized = FALSE
  /\ negativelist = Empty
  /\ used = {}
  /\ \E zeros \in Node : content = [b \in Block |-> zeros]

-------------------------------------------------------------------------------
(* checkInit: every operation below starts from these values. *)
CheckedList == IF initialized THEN negativelist ELSE Empty
CheckedUsed == IF initialized THEN used ELSE {}

FirstOf(S) == CHOOSE x \in S : \A y \in S : x <= y

(* isNodeInNegativeList *)
IsNodeInNegativeList(lladdr) ==
  \E x \in Slot : CheckedList[x] # Null /\ content[CheckedList[x]] = lladdr

Ask(lladdr) ==
  /\ initialized' = TRUE
  /\ negativelist' = CheckedList
  /\ used' = CheckedUsed
  /\ UNCHANGED content

(* Mutant: the search does not stop at an empty slot. *)
FreeSlotsAny == Slot

FreeSlots == {x \in Slot : CheckedList[x] = Null}

(* Mutant: the null address is not refused. *)
RefusedNever(lladdr) == FALSE

Refused(lladdr) == lladdr = Null

(* addNodeToNegativeList.  Empty slots are tried in turn until one gets a   *)
(* block; when the pool has none, all of them stay empty.                   *)
AddNodeToNegativeList(lladdr) ==
  /\ initialized' = TRUE
  /\ \/ /\ ~Refused(lladdr) /\ FreeSlots # {} /\ CheckedUsed # Block
        /\ LET x == FirstOf(FreeSlots)
               b == FirstOf(Block \ CheckedUsed)
           IN /\ negativelist' = [CheckedList EXCEPT ![x] = b]
              /\ used' = CheckedUsed \cup {b}
              /\ content' = [content EXCEPT ![b] = lladdr]
     \/ /\ Refused(lladdr) \/ FreeSlots = {} \/ CheckedUsed = Block
        /\ negativelist' = CheckedList
        /\ used' = CheckedUsed
        /\ UNCHANGED content

(* Mutant: the array is emptied, its blocks are not given back. *)
FreedNothing == {}

(* memb_free of every block an occupied slot points to. *)
Freed == {CheckedList[x] : x \in Slot \ FreeSlots}

(* clearNegativeList *)
ClearNegativeList ==
  /\ initialized' = TRUE
  /\ negativelist' = Empty
  /\ used' = CheckedUsed \ Freed
  /\ UNCHANGED content

Next ==
  \/ \E lladdr \in Node \cup {Null} : Ask(lladdr) \/ AddNodeToNegativeList(lladdr)
  \/ ClearNegativeList

Spec == Init /\ [][Next]_vars
-------------------------------------------------------------------------------
TypeOK ==
  /\ initialized \in BOOLEAN
  /\ negativelist \in [Slot -> Block \cup {Null}]
  /\ used \subseteq Block
  /\ content \in [Block -> Node]

(* The pool and the array agree: every block handed out is in exactly one   *)
(* slot, so no call to add or clear loses a block or shares one             *)
(* (rpl-mrhof.c:399-474).                                                   *)
BlocksOwned ==
  /\ used = {negativelist[x] : x \in Slot} \ {Null}
  /\ \A x, y \in Slot : negativelist[x] = negativelist[y] /\ negativelist[x] # Null => x = y

(* The occupied slots come first: the list the array stands for. *)
Occupied == {x \in Slot : negativelist[x] # Null}
List == [x \in 1 .. Cardinality(Occupied) |-> content[negativelist[x]]]

Abstract == INSTANCE BlockedNodes WITH blocked <- List

(* The array and its pool behave as the bounded list of BlockedNodes: each  *)
(* call appends, drops or clears, and a query finds exactly the members     *)
(* (rpl-mrhof.c:144-185, 399-474).                                          *)
ImplementsList ==
  /\ Abstract!BlockedSpec
  /\ [][\A n \in Node : IsNodeInNegativeList(n) <=> n \in Abstract!Members(List)]_vars
===============================================================================
