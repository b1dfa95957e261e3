----------------------------- MODULE BlockedNodes -----------------------------
(***************************************************************************)
(* What the objective function of DMAIT promises its callers about the     *)
(* negative list ("#CONTIKI-NG MODIFICATION/rpl-mrhof.c"): the addresses    *)
(* handed to addNodeToBlackList since the last clearBlackList, in order,   *)
(* as many as there are slots.  An address may appear more than once, and  *)
(* an address that arrives when all slots are taken is silently dropped.   *)
(* NegativeList implements this specification with an array of pointers    *)
(* into a memory pool; DmaitClient uses its operators.                     *)
(***************************************************************************)
EXTENDS Naturals, Sequences

CONSTANTS
  Node,   \* link-layer addresses of the possible neighbours
  Slots   \* NBR_TABLE_MAX_NEIGHBORS, the length of the list

(* The addresses that occur in a list. *)
Members(list) == {list[i] : i \in DOMAIN list}

(* Mutants: the search stops one slot early, or never finds the list full. *)
AddedOffByOne(list, node) == IF Len(list) + 1 < Slots THEN Append(list, node) ELSE list
AddedUnbounded(list, node) == Append(list, node)

(* The list after one call of addNodeToBlackList. *)
Added(list, node) == IF Len(list) < Slots THEN Append(list, node) ELSE list

-------------------------------------------------------------------------------
VARIABLE blocked

BlockedInit == blocked = <<>>

Add(node) == blocked' = Added(blocked, node)

Clear == blocked' = <<>>

BlockedNext == (\E node \in Node : Add(node)) \/ Clear

BlockedSpec == BlockedInit /\ [][BlockedNext]_blocked
===============================================================================
