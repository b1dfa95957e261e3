----------------------------- MODULE FaultLocation ----------------------------
(***************************************************************************)
(* Fault location at the DAG root (rpl-dmait/dmait-server-logic.c) and its  *)
(* counterpart in the clients (dmait-client-logic.c).                      *)
(*                                                                         *)
(* Every alternate-route message (AR) that reaches the root accuses the     *)
(* nodes of the route it avoids, except those it came through itself: each  *)
(* gets a negative point and a probe (FL-PROBE).  A node that receives its  *)
(* probe answers it (FL-ACK) and gets a positive point.  What is left, the  *)
(* suspicion, should tell the nodes that do not answer.                    *)
(***************************************************************************)
EXTENDS Naturals, Sequences, SequencesExt

CONSTANTS
  Node,         \* the client nodes
  AvoidRoute,   \* routes an AR may name: sequences of nodes
  SuspectPool,  \* blocks of dmait_suspect_node_memb (50)
  ScoreMod,     \* values of the uint8_t scores (256)
  MaxAr,        \* bound: ARs that reach the root
  MaxRepeat     \* bound: copies the network makes of one node's probes and answers

ASSUME FaultLocationAssumption ==
  /\ AvoidRoute \subseteq Seq(Node)
  /\ SuspectPool \in Nat \ {0}
  /\ ScoreMod \in Nat \ {0, 1}
  /\ MaxAr \in Nat
  /\ MaxRepeat \in Nat

VARIABLES
  suspects,  \* dmaitArSuspectNodes
  probes,    \* node -> FL-PROBEs on their way to it
  acks,      \* node -> FL-ACKs on their way from it
  arCount    \* ARs received so far

(* What no code keeps. *)
VARIABLES
  accused,   \* nodes some AR accused
  lost,      \* node -> its probes and answers the network lost
  repeated   \* node -> its probes and answers the network delivered once more

root == <<suspects, arCount, accused>>
vars == <<root, probes, acks, lost, repeated>>

NoMessages == [n \in Node |-> 0]

Init ==
  /\ suspects = <<>>
  /\ probes = NoMessages
  /\ acks = NoMessages
  /\ arCount = 0
  /\ accused = {}
  /\ lost = NoMessages
  /\ repeated = NoMessages
-------------------------------------------------------------------------------
IsSuspect(list, node) == \E i \in DOMAIN list : list[i].node = node

(* The first entry of a suspect: the loops of the source stop there. *)
Position(list, node) ==
  CHOOSE i \in DOMAIN list :
    list[i].node = node /\ \A j \in 1 .. i - 1 : list[j].node # node

(* Mutant: a node that is already a suspect gets a second entry. *)
IncrementAlwaysNew(list, node) ==
  IF Len(list) < SuspectPool
    THEN Append(list, [node |-> node, negative |-> 1, positive |-> 0]) ELSE list

(* Mutant: the score is not one byte wide. *)
IncrementWide(list, node) ==
  IF IsSuspect(list, node)
    THEN [list EXCEPT ![Position(list, node)].negative = @ + 1]
    ELSE IncrementAlwaysNew(list, node)

(* dmait_ar_increment_node_suspicion: a node for which the pool has no block *)
(* is not recorded, and nobody is told.                                      *)
Increment(list, node) ==
  IF IsSuspect(list, node)
    THEN [list EXCEPT ![Position(list, node)].negative = (@ + 1) % ScoreMod]
    ELSE IF Len(list) < SuspectPool
      THEN Append(list, [node |-> node, negative |-> 1, positive |-> 0])
      ELSE list

(* Mutant: an answer sets the points instead of raising them. *)
DecrementOnce(list, node) ==
  IF IsSuspect(list, node)
    THEN [list EXCEPT ![Position(list, node)].positive = 1]
    ELSE list

(* Mutant: one answer is worth two points. *)
DecrementTwice(list, node) ==
  IF IsSuspect(list, node)
    THEN [list EXCEPT ![Position(list, node)].positive = (@ + 2) % ScoreMod]
    ELSE list

(* dmait_ar_decrement_node_suspicion: the entry stays, whatever its scores. *)
Decrement(list, node) ==
  IF IsSuspect(list, node)
    THEN [list EXCEPT ![Position(list, node)].positive = (@ + 1) % ScoreMod]
    ELSE list

(* dmait_ar_get_node_suspicion: the difference of the two scores, one byte   *)
(* wide.  (The log prints the signed difference.)                            *)
Suspicion(node) ==
  IF IsSuspect(suspects, node)
    THEN LET s == suspects[Position(suspects, node)]
         IN (s.negative + ScoreMod - s.positive) % ScoreMod
    ELSE 0

(* The nodes an AR accuses, and how often it accuses a node. *)
Accused(avoid, through) == ToSet(avoid) \ through

Times(node, avoid, through) ==
  IF node \in through THEN 0 ELSE Cardinality({i \in DOMAIN avoid : avoid[i] = node})

(* One round of the loop over the avoided route. *)
Accuse(list, node, through) == IF node \in through THEN list ELSE Increment(list, node)

(* The suspect list after all rounds of the loop. *)
AccuseAll(list, avoid, through) ==
  LET after[i \in 0 .. Len(avoid)] ==
        IF i = 0 THEN list ELSE Accuse(after[i - 1], avoid[i], through)
  IN after[Len(avoid)]

(* dmait_process_alternate_route_message at the root: each accused node gets *)
(* its point and, recorded or not, its probe (dmait_fl_send_probe_msg).      *)
ReceiveAr(avoid, through) ==
  /\ arCount < MaxAr
  /\ arCount' = arCount + 1
  /\ suspects' = AccuseAll(suspects, avoid, through)
  /\ probes' = [n \in Node |-> probes[n] + Times(n, avoid, through)]
  /\ accused' = accused \cup Accused(avoid, through)
  /\ UNCHANGED <<acks, lost, repeated>>

(* dmait_process_fl_probe_message in a client.  A node that is off the      *)
(* network when its answer is due sends nothing.                            *)
ReceiveProbe(node) ==
  /\ probes[node] > 0
  /\ probes' = [probes EXCEPT ![node] = @ - 1]
  /\ acks' = [acks EXCEPT ![node] = @ + 1]
  /\ UNCHANGED <<root, lost, repeated>>

(* dmait_process_fl_ack_message: nothing ties the answer to a probe. *)
ReceiveAck(node) ==
  /\ acks[node] > 0
  /\ acks' = [acks EXCEPT ![node] = @ - 1]
  /\ suspects' = Decrement(suspects, node)
  /\ UNCHANGED <<probes, arCount, accused, lost, repeated>>

(* The network, or a node that drops or cannot answer its probe. *)
Lose(node) ==
  /\ \/ /\ probes[node] > 0
        /\ probes' = [probes EXCEPT ![node] = @ - 1]
        /\ UNCHANGED acks
     \/ /\ acks[node] > 0
        /\ acks' = [acks EXCEPT ![node] = @ - 1]
        /\ UNCHANGED probes
  /\ lost' = [lost EXCEPT ![node] = @ + 1]
  /\ UNCHANGED <<root, repeated>>

(* The network delivers a probe or an answer once more.  The handlers keep   *)
(* nothing that would tell: a node answers every copy, the root credits every *)
(* answer.                                                                   *)
Repeat(node) ==
  /\ \A n \in Node : repeated[n] < MaxRepeat
  /\ \/ /\ probes[node] > 0
        /\ probes' = [probes EXCEPT ![node] = @ + 1]
        /\ UNCHANGED acks
     \/ /\ acks[node] > 0
        /\ acks' = [acks EXCEPT ![node] = @ + 1]
        /\ UNCHANGED probes
  /\ repeated' = [repeated EXCEPT ![node] = @ + 1]
  /\ UNCHANGED <<root, lost>>

Next ==
  \/ \E avoid \in AvoidRoute, through \in SUBSET Node : ReceiveAr(avoid, through)
  \/ \E node \in Node :
       ReceiveProbe(node) \/ ReceiveAck(node) \/ Lose(node) \/ Repeat(node)

Spec == Init /\ [][Next]_vars

(* The network delivers or loses every probe and every answer in the end. *)
FairSpec ==
  Spec /\ \A node \in Node : WF_vars(ReceiveProbe(node)) /\ WF_vars(ReceiveAck(node))
-------------------------------------------------------------------------------
Suspects == {suspects[i].node : i \in DOMAIN suspects}

TypeOK ==
  /\ suspects \in Seq([node : Node, negative : 0 .. ScoreMod - 1, positive : 0 .. ScoreMod - 1])
  /\ Len(suspects) <= SuspectPool
  /\ probes \in [Node -> Nat] /\ acks \in [Node -> Nat] /\ lost \in [Node -> Nat]
  /\ repeated \in [Node -> 0 .. MaxRepeat]
  /\ arCount \in 0 .. MaxAr
  /\ accused \subseteq Node

(* Points and probes go together: the suspicion of a node is the number of  *)
(* its probes that have not been answered, less one for every copy the       *)
(* network made of a probe or an answer, in whatever order ARs and answers    *)
(* arrive and up to the width of a byte (dmait-server-logic.c:215-301,        *)
(* 683-880).                                                                 *)
SuspicionIsUnanswered ==
  \A n \in Suspects :
    (Suspicion(n) + repeated[n]) % ScoreMod = (probes[n] + acks[n] + lost[n]) % ScoreMod

(* Nobody is in the list that no AR accused; while the pool has a free block  *)
(* nobody accused is missing from it; and no node ever has two entries to     *)
(* split its points between (dmait-server-logic.c:215-248).                  *)
AccusedAreRecorded ==
  /\ Suspects \subseteq accused
  /\ Len(suspects) < SuspectPool => Suspects = accused
  /\ \A i, j \in DOMAIN suspects : suspects[i].node = suspects[j].node => i = j

(* A node that answers is cleared in the end: if the network neither loses   *)
(* nor repeats its messages, nothing is left of its suspicion once no more    *)
(* ARs arrive, whoever else is accused with it and however often              *)
(* (dmait-server-logic.c:251-275, 736-759).                                  *)
AnsweringClears ==
  \A n \in Node :
    [](lost[n] = 0 /\ repeated[n] = 0) => <>[](n \in Suspects => Suspicion(n) = 0)

(* "(Removes the node from the list if the suspicion is less than or equal 0  *)
(* (zero)." and "a positive score if the node is in dmaitArSuspectNodes"      *)
(* (dmait-server-logic.h:121, 137): whoever is in the list is suspected.      *)
SuspectsHavePositiveScore == \A n \in Suspects : Suspicion(n) > 0
===============================================================================
