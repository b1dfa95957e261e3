---------------------------- MODULE AlternateRoute ----------------------------
(***************************************************************************)
(* The alternate-route message (AR) on its way to the root: the first hop   *)
(* (rpl-dmait/dmait-client-logic.c), the relays (dmait-client.c) and the    *)
(* delivery to FaultLocation at the root, which accuses the nodes of the    *)
(* avoided route that the AR did not come through.                         *)
(*                                                                         *)
(* RPL is external: the order of the neighbour table, which neighbour is the *)
(* parent and whether the node is on the network may differ at every hop,   *)
(* and so may the table itself unless it is steady.                         *)
(***************************************************************************)
EXTENDS Naturals, Sequences

CONSTANTS
  Node,         \* the client nodes
  Root,         \* the DODAG root
  None,         \* no parent
  Link,         \* node -> those that may be in its neighbour table
  Validated,    \* node -> routes it may have validated
  SuspectPool, ScoreMod, MaxAr,  \* of FaultLocation
  MaxStart,     \* bound: ARs that are started
  MaxCopies     \* bound: ARs the network delivers once more

ASSUME AlternateRouteAssumption ==
  /\ Root \notin Node /\ None \notin Node \cup {Root}
  /\ Link \in [Node -> SUBSET (Node \cup {Root})]
  /\ \A n \in Node : n \notin Link[n]
  /\ Validated \in [Node -> SUBSET Seq(Node)]
  /\ SuspectPool \in Nat \ {0} /\ ScoreMod \in Nat \ {0, 1} /\ MaxAr \in Nat
  /\ MaxStart \in Nat /\ MaxCopies \in Nat

VARIABLES
  ars,       \* ARs on their way: [avoid, route, to]
  halted,    \* nodes that crashed on a null pointer
  steady,    \* external: the neighbour tables do not change
  started, copies,                                  \* counted for the bounds
  suspects, probes, acks, arCount, accused, lost    \* of FaultLocation

(* The routes an AR may avoid. *)
AvoidRoute == UNION {Validated[node] : node \in Node}

(* Copies of probes and answers are FaultLocation's own concern. *)
FL == INSTANCE FaultLocation WITH MaxRepeat <- 0, repeated <- [n \in Node |-> 0]

ways == <<ars, halted, steady, started, copies>>
fault == <<suspects, probes, acks, arCount, accused, lost>>
vars == <<ways, fault>>

Members(seq) == {seq[i] : i \in DOMAIN seq}

Init ==
  /\ ars = {} /\ halted = {} /\ started = 0 /\ copies = 0
  /\ steady \in BOOLEAN
  /\ FL!Init
-------------------------------------------------------------------------------
(* dmait_select_neighbor_not_in_array and the fallback of its two callers:   *)
(* the first neighbour of the table outside the array, which any of them may *)
(* be, or else the parent.  None stands for the null parent.                 *)
Targets(nbrs, array, parent) ==
  IF nbrs \subseteq array THEN {parent} ELSE nbrs \ array

(* What the external RPL may hold at a node: a table and a parent in it. *)
Views(node) ==
  {view \in [nbrs : SUBSET Link[node], parent : Link[node] \cup {None}] :
     /\ view.parent \in view.nbrs \cup {None}
     /\ steady => view.nbrs = Link[node]}

(* Every target some view leads to; a node without a parent has not joined.  *)
Hops(node, array) ==
  UNION {{[to |-> to, joined |-> view.parent # None] :
            to \in Targets(view.nbrs, array, view.parent)} : view \in Views(node)}

(* The node ar.to chooses a target and sends the AR on.  Off the network, as *)
(* it is without a parent, dmait_send_text_data sends nothing.  Without a     *)
(* parent the fallback reads through a null pointer: the node crashes, or     *)
(* goes on with a meaningless address.                                       *)
Transmit(ar, array, others) ==
  \E hop \in Hops(ar.to, array) :
    \/ /\ hop.joined
       /\ ars' = others \cup {[ar EXCEPT !.to = hop.to]}
       /\ UNCHANGED halted
    \/ /\ ars' = others
       /\ UNCHANGED halted
    \/ /\ hop.to = None
       /\ ars' = others
       /\ halted' = halted \cup {ar.to}

(* dmait_ar_start_avoid_route: nothing is sent when the validated route is   *)
(* empty.                                                                    *)
StartAr(node, avoid) ==
  /\ started < MaxStart /\ node \notin halted /\ avoid # <<>>
  /\ started' = started + 1
  /\ Transmit([avoid |-> avoid, route |-> <<node>>, to |-> node], Members(avoid), ars)
  /\ UNCHANGED <<steady, copies, fault>>

(* The network delivers an AR; it may keep a copy of it to deliver again. *)
Taken(ar, others) ==
  \/ /\ others = ars \ {ar}
     /\ UNCHANGED copies
  \/ /\ copies < MaxCopies
     /\ others = ars
     /\ copies' = copies + 1

(* Mutants: a relay does not add itself to the route, or adds itself to the  *)
(* route to avoid instead.                                                   *)
ExtendedNot(ar) == ar
ExtendedAvoid(ar) == [ar EXCEPT !.avoid = Append(@, ar.to)]

(* The AR with the relay it was addressed to at the end of its route. *)
Extended(ar) == [ar EXCEPT !.route = Append(@, ar.to)]

(* Mutant: the loop that fills the array stops one node early. *)
ExcludedShort(ar) == Members(ar.avoid) \cup {ar.route[i] : i \in 1 .. Len(ar.route) - 1}

(* avoidRouteArray: "the ROUTE nodes are added so there are no cycles". *)
Excluded(ar) == Members(ar.avoid) \cup Members(ar.route)

(* Mutant: only an AR that comes straight back counts as a cycle. *)
IsCycleOfTwo(ar) == Len(ar.route) > 1 /\ ar.to = ar.route[Len(ar.route) - 1]

(* "This node is already in the current route.. it is a cycle." *)
IsCycle(ar) == ar.to \in Members(ar.route)

(* dmait_process_alternate_route_message in a client. *)
Relay(ar) ==
  /\ ar.to \in Node \ halted
  /\ \E others \in {ars, ars \ {ar}} :
       /\ Taken(ar, others)
       /\ \/ /\ IsCycle(ar)
             /\ ars' = others
             /\ UNCHANGED halted
          \/ /\ ~IsCycle(ar)
             /\ Transmit(Extended(ar), Excluded(ar), others)
  /\ UNCHANGED <<steady, started, fault>>

(* dmait_process_alternate_route_message at the root. *)
Arrive(ar) ==
  /\ ar.to = Root
  /\ \E others \in {ars, ars \ {ar}} : Taken(ar, others) /\ ars' = others
  /\ FL!ReceiveAr(ar.avoid, Members(ar.route))
  /\ UNCHANGED <<halted, steady, started>>

(* The network, or a node that crashed or drops the AR. *)
LoseAr(ar) ==
  /\ ars' = ars \ {ar}
  /\ UNCHANGED <<halted, steady, started, copies, fault>>

Travel == \E ar \in ars : Relay(ar) \/ Arrive(ar) \/ LoseAr(ar)

(* FL-PROBEs and their answers, FaultLocation's own steps.  A crashed node   *)
(* answers nothing.                                                          *)
LocateFault(node) ==
  /\ \/ node \notin halted /\ FL!ReceiveProbe(node)
     \/ FL!ReceiveAck(node)
     \/ FL!Lose(node)
  /\ UNCHANGED ways

Next ==
  \/ \E node \in Node : \E avoid \in Validated[node] : StartAr(node, avoid)
  \/ Travel
  \/ \E node \in Node : LocateFault(node)

Spec == Init /\ [][Next]_vars

(* The network delivers or loses an AR in the end, and a handler never waits. *)
FairSpec == Spec /\ WF_vars(Travel)
-------------------------------------------------------------------------------
Ar == [avoid : AvoidRoute, route : Seq(Node), to : Node \cup {Root}]

TypeOK ==
  /\ ars \subseteq Ar
  /\ halted \subseteq Node /\ steady \in BOOLEAN
  /\ started \in 0 .. MaxStart /\ copies \in 0 .. MaxCopies

(* "The ROUTE nodes are added so there are no cycles in the route": no node  *)
(* relays an AR twice, however tables and parents change while it travels,   *)
(* so an AR makes no more hops than there are nodes                          *)
(* (dmait-client.c:291-329).                                                *)
NoNodeTwice ==
  \A ar \in ars : \A i, j \in DOMAIN ar.route : ar.route[i] = ar.route[j] => i = j

(* The route an AR carries is the way it took: each node of it heard the one *)
(* before, and the last of them addressed it where it is going.  The root    *)
(* takes suspicion from a node for being on it                               *)
(* (dmait-client.c:329-377, dmait-server-logic.c:736-747).                   *)
RouteIsPath ==
  \A ar \in ars :
    /\ ar.route # <<>>
    /\ \A i \in 1 .. Len(ar.route) - 1 : ar.route[i + 1] \in Link[ar.route[i]]
    /\ ar.to \in Link[ar.route[Len(ar.route)]]

(* "If found no suitable neighbor, send it to the parent anyway", and only    *)
(* then: with steady tables an AR goes to a node of the avoided route, or to  *)
(* one it has visited, where it will be dropped, only from a node whose every *)
(* neighbour is of that kind (dmait-client.c:329-346,                        *)
(* dmait-client-logic.c:357-373).                                            *)
DetourFirst ==
  steady => \A ar \in ars : \A i \in DOMAIN ar.route :
    LET next == Append(ar.route, ar.to)[i + 1]
        array == Members(ar.avoid) \cup {ar.route[j] : j \in 1 .. i - 1}
    IN next \in array => Link[ar.route[i]] \subseteq array

(* What relays deliver to the root is what FaultLocation takes for granted:  *)
(* a validated route to avoid and client nodes it came through               *)
(* (dmait-client.c:344-377, dmait-server-logic.c:683-770).                   *)
DeliversToFaultLocation == FL!Spec

(* No AR travels for ever: relays that all fall back on their parents do not *)
(* pass it round (dmait-client.c:309-318).                                   *)
ArsDieOut == <>[](ars = {})
===============================================================================
