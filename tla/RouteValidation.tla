---------------------------- MODULE RouteValidation ---------------------------
(***************************************************************************)
(* Route validation: the message (RV) on its way from a client through the  *)
(* parents it meets to the root (rpl-dmait/dmait-client.c,                  *)
(* dmait-client-logic.c), and its verification there                        *)
(* (dmait-server-logic.c).                                                  *)
(*                                                                         *)
(* Every node adds a block that names the node the RV came from, itself,    *)
(* and its parent, and signs it.  The root checks the signatures and that   *)
(* the blocks fit together, and answers with the list of nodes (RVACK).     *)
(* RPL may change any parent while the RV is under way; RVs are lost,       *)
(* repeated, delayed and altered, lose some of their blocks, and may be     *)
(* passed on by a node that adds no block.                                  *)
(***************************************************************************)
EXTENDS Naturals, Sequences, FiniteSets

CONSTANTS
  Node,       \* the client nodes
  Root,       \* the DAG root
  None,       \* no address: the zero address of a first block, a missing parent
  Pool,       \* blocks of dmait_route_node_memb at the root (100)
  MaxBlocks,  \* blocks of the longest RV that fits a packet
  MaxMoves,   \* bound: changes of parents
  MaxDamage   \* bound: RVs damaged on their way: altered, cut, passed on unsigned

ASSUME RouteValidationAssumption ==
  /\ Root \notin Node /\ None \notin Node /\ None # Root
  /\ Pool \in Nat
  /\ MaxBlocks \in Nat /\ MaxMoves \in Nat /\ MaxDamage \in Nat

VARIABLES
  parent,  \* node -> its preferred parent
  rv,      \* the RVs ever sent: each may arrive again, late, or never
  valid,   \* dmaitRvValidRouteNodes
  used,    \* blocks taken from dmait_route_node_memb
  acked,   \* the RVACKs ever sent
  moves,   \* changes of parents so far
  damage   \* RVs damaged so far

(* What no code keeps: <<n, p>> if p has ever been the parent of n.  The     *)
(* field whole of an RV is not in the code either: no block has been lost    *)
(* and no node it went through has kept its own block back.                  *)
VARIABLE wasParent

vars == <<parent, rv, valid, used, acked, moves, damage, wasParent>>

Init ==
  /\ parent = [n \in Node |-> None]
  /\ rv = {} /\ acked = {}
  /\ valid = {} /\ used = 0
  /\ moves = 0 /\ damage = 0
  /\ wasParent = {}
-------------------------------------------------------------------------------
(* RPL moves a node to another parent, or to none. *)
RplUpdate(n, p) ==
  /\ moves < MaxMoves
  /\ p # n /\ p # parent[n]
  /\ parent' = [parent EXCEPT ![n] = p]
  /\ wasParent' = IF p = None THEN wasParent ELSE wasParent \cup {<<n, p>>}
  /\ moves' = moves + 1
  /\ UNCHANGED <<rv, valid, used, acked, damage>>

(* Mutant: nobody asks whether the node has a parent. *)
ReachableAlways(n) == n \in Node

(* NETSTACK_ROUTING.node_is_reachable *)
Reachable(n) == parent[n] # None

(* Mutant: the address of the previous node is never filled in. *)
SignedBlockNoPrev(prev, n) == [prev |-> None, node |-> n, next |-> parent[n], hmac |-> TRUE]

(* The block a node adds, signed with its key.  hmac says whether the        *)
(* digest matches the rest of the block.                                     *)
SignedBlock(prev, n) == [prev |-> prev, node |-> n, next |-> parent[n], hmac |-> TRUE]

(* dmait_send_text_data to the parent of n.  A message too long for a packet *)
(* is not sent.                                                              *)
SendToParent(n, chain, whole) ==
  rv' = IF Len(chain) <= MaxBlocks
          THEN rv \cup {[from |-> n, to |-> parent[n], chain |-> chain, whole |-> whole]}
          ELSE rv

(* dmait_rv_start_route_validation, called by the client's tick. *)
StartRouteValidation(n) ==
  /\ Reachable(n)
  /\ SendToParent(n, <<SignedBlock(None, n)>>, TRUE)
  /\ UNCHANGED <<parent, valid, used, acked, moves, damage, wasParent>>

(* dmait_process_route_validation_message in a client.  An RV that would go  *)
(* straight back to where it came from is dropped; longer cycles are not     *)
(* noticed.                                                                  *)
ForwardRv(m) ==
  /\ m.to \in Node
  /\ Reachable(m.to)
  /\ m.from # parent[m.to]
  /\ SendToParent(m.to, Append(m.chain, SignedBlock(m.from, m.to)), m.whole)
  /\ UNCHANGED <<parent, valid, used, acked, moves, damage, wasParent>>

(* The network or a node on the way damages an RV: m2 is what may arrive.    *)
Damage(m2) ==
  /\ damage < MaxDamage
  /\ rv' = rv \cup {m2}
  /\ damage' = damage + 1
  /\ UNCHANGED <<parent, valid, used, acked, moves, wasParent>>

(* A block is altered, and its digest no longer matches.  n is the address   *)
(* that now stands for its node: another one, or the same if the change is   *)
(* in the other addresses or the digest.                                     *)
Alter(m, i, n) ==
  Damage([m EXCEPT !.chain[i] = [@ EXCEPT !.node = n, !.hmac = FALSE]])

(* The blocks i to j are lost, the last ones for instance: an RV cut short.  *)
LoseBlocks(m, i, j) ==
  /\ i <= j
  /\ j - i + 1 < Len(m.chain)
  /\ Damage([m EXCEPT !.chain = SubSeq(@, 1, i - 1) \o SubSeq(@, j + 1, Len(@)),
                      !.whole = FALSE])

(* The node the RV has reached passes it on, to p, without adding its block. *)
PassOnUnsigned(m, p) ==
  /\ m.to \in Node
  /\ p # m.to
  /\ Damage([m EXCEPT !.from = m.to, !.to = p, !.whole = FALSE])
-------------------------------------------------------------------------------
(* Mutant: digests are not compared. *)
AuthenticAlways(block) == TRUE

(* dmait_verify_hmac_in_triple_node_block *)
Authentic(block) == block.hmac

(* This block continues the one before it; the first comes from nowhere. *)
Continues(chain, i) ==
  IF i = 1 THEN chain[i].prev = None
           ELSE /\ chain[i].prev = chain[i - 1].node
                /\ chain[i].node = chain[i - 1].next

BlockVerified(chain, i) == Authentic(chain[i]) /\ Continues(chain, i)

Verified(chain) == \A i \in DOMAIN chain : BlockVerified(chain, i)

(* How many blocks the loop looks at: it puts each of them into the temporary *)
(* list, the first bad one included, and goes no further.                     *)
Examined(chain) ==
  Cardinality({k \in DOMAIN chain : \A i \in 1 .. k - 1 : BlockVerified(chain, i)})

(* Mutant: one block of the temporary list stays allocated. *)
ReleasedShort(taken, temporary) == taken - temporary + 1

(* The temporary list goes back to the pool, on every way out. *)
Released(taken, temporary) == taken - temporary

(* The pool has no block for the temporary list: what was taken is given     *)
(* back, and nothing else is done, whatever the RV says.                     *)
AbortRv(m) ==
  /\ used + Examined(m.chain) > Pool
  /\ used' = Released(Pool, Pool - used)
  /\ UNCHANGED <<valid, acked>>

(* The first node is recorded if the pool has one more block, and            *)
(* acknowledged even if it has not.                                          *)
AcceptRv(m) ==
  LET chain == m.chain
      first == chain[1].node
      taken == used + Len(chain)
      recorded == first \notin valid /\ taken < Pool
  IN /\ taken <= Pool
     /\ Verified(chain)
     /\ valid' = IF recorded THEN valid \cup {first} ELSE valid
     /\ used' = Released(IF recorded THEN taken + 1 ELSE taken, Len(chain))
     /\ acked' = acked \cup {[to |-> first, route |-> [i \in DOMAIN chain |-> chain[i].node],
                              whole |-> m.whole]}

(* The node that the first block names is no longer a valid one. *)
RefuseRv(m) ==
  LET first == m.chain[1].node
      taken == used + Examined(m.chain)
      kept == IF first \in valid THEN taken - 1 ELSE taken
  IN /\ taken <= Pool
     /\ ~Verified(m.chain)
     /\ valid' = valid \ {first}
     /\ used' = Released(kept, Examined(m.chain))
     /\ UNCHANGED acked

(* dmait_process_route_validation_message at the root. *)
ReceiveRv(m) ==
  /\ m.to = Root
  /\ AbortRv(m) \/ AcceptRv(m) \/ RefuseRv(m)
  /\ UNCHANGED <<parent, rv, moves, damage, wasParent>>

Next ==
  \/ \E n \in Node :
       \/ \E p \in Node \cup {Root, None} : RplUpdate(n, p)
       \/ StartRouteValidation(n)
  \/ \E m \in rv :
       \/ ForwardRv(m)
       \/ ReceiveRv(m)
       \/ \E i \in DOMAIN m.chain, n \in Node : Alter(m, i, n)
       \/ \E i, j \in DOMAIN m.chain : LoseBlocks(m, i, j)
       \/ \E p \in Node \cup {Root} : PassOnUnsigned(m, p)

Spec == Init /\ [][Next]_vars
-------------------------------------------------------------------------------
Block ==
  [prev : Node \cup {None}, node : Node, next : Node \cup {Root}, hmac : BOOLEAN]

Message ==
  [from : Node, to : Node \cup {Root}, chain : Seq(Block) \ {<<>>}, whole : BOOLEAN]

Ack == [to : Node, route : Seq(Node), whole : BOOLEAN]

TypeOK ==
  /\ parent \in [Node -> Node \cup {Root, None}]
  /\ rv \subseteq Message
  /\ valid \subseteq Node
  /\ used \in 0 .. Pool
  /\ acked \subseteq Ack
  /\ moves \in 0 .. MaxMoves /\ damage \in 0 .. MaxDamage
  /\ wasParent \subseteq Node \X (Node \cup {Root})

(* However parents change while an RV travels, its blocks fit together: if    *)
(* none of them was altered or lost and every node on the way added its own,  *)
(* the root has no ground to refuse it (dmait-client.c:83-162,                *)
(* dmait-server-logic.c:388-498).                                             *)
UnalteredIsVerified ==
  \A m \in rv :
    m.whole /\ (\A i \in DOMAIN m.chain : m.chain[i].hmac) => Verified(m.chain)

(* A route the root acknowledges starts at the node it is sent to and each of *)
(* its links has been one of RPL's, whatever became of the RV on its way: the *)
(* client takes its second node, if any, for a parent it has had. Whether the *)
(* route goes as far as the root is another matter. The root compares neither *)
(* the last block's next node with itself nor that block's node with the      *)
(* sender, so of an RV cut short, or passed on by a node that adds no block,  *)
(* it acknowledges the beginning. The last link leads to the root if the RV   *)
(* is whole, of which the root has no sign (dmait-server-logic.c:388-576,     *)
(* dmait-client.c:224-246).                                                   *)
AckedRouteWasWalked ==
  \A a \in acked :
    LET r == a.route
    IN /\ Len(r) > 0 /\ r[1] = a.to
       /\ \A i \in 1 .. Len(r) - 1 : <<r[i], r[i + 1]>> \in wasParent
       /\ a.whole => <<r[Len(r)], Root>> \in wasParent

(* Whichever way the root leaves the handler, the pool holds one block per    *)
(* recorded node and none of the temporary list, and every recorded node has  *)
(* been acknowledged (dmait-server-logic.c:313-354, 470-609).        *)
PoolHoldsRecorded ==
  /\ used = Cardinality(valid)
  /\ \A n \in valid : \E a \in acked : a.to = n

(* "ELIMINA CICLO NO DMAIT-RV E ABORTA O PROCESSO", eliminates cycles in the  *)
(* RV (dmait-client.c:111): no node adds two blocks to one RV.                *)
CyclesEliminated ==
  \A m \in rv : \A i, j \in DOMAIN m.chain :
    m.chain[i].node = m.chain[j].node /\ Verified(m.chain) => i = j
===============================================================================
