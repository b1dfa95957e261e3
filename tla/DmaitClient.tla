----------------------------- MODULE DmaitClient ------------------------------
(***************************************************************************)
(* One DMAIT client node: the periodic process, the handlers of the        *)
(* messages addressed to it and its two callback timers                    *)
(* (rpl-dmait/dmait-client.c, dmait-client-logic.c), above an external RPL  *)
(* that chooses the preferred parent and an external network that may      *)
(* lose, duplicate and delay every message.                                *)
(*                                                                         *)
(* The node validates its route (RV, answered by RVACK), sends data over   *)
(* it (DM, answered by DMACK), and after too many unanswered data messages *)
(* puts the parent on the negative list of the objective function and      *)
(* floods an alternate-route message (AR) that names the route to avoid.   *)
(*                                                                         *)
(* Contiki processes and callback timers are cooperative: every handler    *)
(* runs to completion, so each is one action.                              *)
(***************************************************************************)
EXTENDS Naturals, Sequences

CONSTANTS
  Node,             \* possible neighbours of this node, the root included
  Root,             \* the DODAG root
  None,             \* no parent; also an address variable never written
  Route,            \* upstream routes an RVACK may report, nearest node first
  RoutePool,        \* blocks of the client's dmait_route_node_memb (30)
  Slots,            \* NBR_TABLE_MAX_NEIGHBORS (16)
  LossThreshold,    \* DATA_MESSAGE_LOSS_THRESHOLD (2)
  UnreachableLimit, \* ticks off the network before the list is cleared (300)
  SeqMod,           \* values of the uint8_t data sequence number (256)
  Late              \* may an answer arrive after the tick following its request?

ASSUME ClientAssumption ==
  /\ Root \in Node
  /\ None \notin Node
  /\ Route \subseteq Seq(Node)
  /\ RoutePool \in Nat \ {0}
  /\ Slots \in Nat \ {0}
  /\ LossThreshold \in Nat \ {0}
  /\ UnreachableLimit \in Nat
  /\ SeqMod \in Nat \ {0, 1}

ASSUME LateAssumption == Late \in BOOLEAN

VARIABLES
  (* dmait-client.c *)
  hasValidRoute, validatingRoute,
  parentValidation,    \* parentValidationLlAddr
  rvTimer,             \* route_validation_timeout_timer: "idle", "set" or "due"
  unreachableCounter,
  (* dmait-client-logic.c *)
  validatedRoute,      \* dmaitValidatedRoute
  unacked,             \* unackedDataMessagesInARowCounter
  lastSeq,             \* lastDataMessageSequenceNumber
  lastParent,          \* lastDataMessageParentAddr
  dataTimer,           \* data_message_timeout_timer is set
  halted,              \* the node crashed on a null pointer
  (* rpl-mrhof.c *)
  blocked,             \* the negative list
  (* external: RPL and the network *)
  parent, reachable,
  rvSent,              \* parents whose RV, or the RVACK to it, may be on its way
  dmSent,              \* sequence numbers whose DM or DMACK may be on its way
  ar                   \* the AR message on its first hop
-------------------------------------------------------------------------------
(* Variables that no code keeps: they remember what the properties speak of. *)
VARIABLES
  rvParent,            \* the preferred parent when the last validation started
  missed,              \* parents of the data messages that timed out in a row
  answered,            \* was the last data message acknowledged?
  condemned            \* every node handed to addNodeToBlackList since a clear

validation == <<hasValidRoute, validatingRoute, parentValidation, rvTimer,
                validatedRoute, rvParent>>
data       == <<unacked, lastSeq, lastParent, dataTimer, missed, answered>>
negative   == <<blocked, condemned>>
rpl        == <<parent, reachable>>
network    == <<rvSent, dmSent, ar>>
vars == <<validation, data, negative, rpl, network, unreachableCounter, halted>>

NL == INSTANCE BlockedNodes

NoAr == [avoid |-> <<>>, to |-> None]

(* Mutant: the loop over the addresses of an RVACK starts one too late. *)
StoredFromSecond(route) == SubSeq(route, 2, Len(route))

(* dmait_valid_route_add_node_by_adddr drops what the pool cannot hold. *)
Stored(route) ==
  SubSeq(route, 1, IF Len(route) <= RoutePool THEN Len(route) ELSE RoutePool)

(* The parent through which a validated route leaves this node. The RVACK of *)
(* a child of the root names no other node.                                  *)
FirstHop(route) == IF route = <<>> THEN Root ELSE Head(route)

Init ==
  /\ hasValidRoute = FALSE
  /\ validatingRoute = FALSE
  /\ parentValidation = None
  /\ rvTimer = "idle"
  /\ unreachableCounter = 0
  /\ validatedRoute = <<>>
  /\ unacked = 0
  /\ lastSeq = 0
  /\ lastParent = None
  /\ dataTimer = FALSE
  /\ halted = FALSE
  /\ blocked = <<>>
  /\ parent = None
  /\ reachable = FALSE
  /\ rvSent = {}
  /\ dmSent = {}
  /\ ar = NoAr
  /\ rvParent = None
  /\ missed = <<>>
  /\ answered = TRUE
  /\ condemned = {}
-------------------------------------------------------------------------------
(* Mutant: the parent of the moment is condemned, whoever lost the messages. *)
BlockCurrent(node) ==
  /\ blocked' = NL!Added(blocked, parent)
  /\ condemned' = condemned \cup {parent}

(* Mutant: an objective function that ignores the call. *)
BlockNobody(node) == UNCHANGED negative

(* addNodeToBlackList of the objective function. *)
Block(node) ==
  /\ blocked' = NL!Added(blocked, node)
  /\ condemned' = condemned \cup {node}

(* The periodic process wakes every 29 to 34 s.  The 250 ms data timer it set *)
(* has fired by then; of the 40 s validation timer exactly one tick is seen.  *)
TickReady == ~halted /\ ~dataTimer /\ rvTimer # "due"

(* clearBlackList of the objective function. *)
ClearBlackList ==
  /\ blocked' = <<>>
  /\ condemned' = {}

(* Mutants: a tick stops the only timer there is, or sets it again. *)
ElapseStopped(timer) == "idle"
ElapseRestarted(timer) == timer

Elapse(timer) == IF timer = "set" THEN "due" ELSE timer

(* What is still on its way at a tick was sent at an earlier one. *)
InTransit(sent) == IF Late THEN sent ELSE {}

(* Mutant: the parent chosen by RPL is not compared with the validated one. *)
ParentKeptUnchecked == TRUE

ParentKept == parent = parentValidation

(* Mutant: the ticks off the network are not counted. *)
OneMoreTickUncounted(counter) == counter

(* The counter is only compared with the limit, so it is cut at the first   *)
(* value that clears the list.                                              *)
OneMoreTick(counter) == IF counter > UnreachableLimit THEN counter ELSE counter + 1

(* resetUnackedDataMessagesCounter *)
ResetUnacked ==
  /\ unacked' = 0
  /\ missed' = <<>>
  /\ answered' = TRUE

(* dmait_rv_start_route_validation: an RV with this node's block goes to the *)
(* parent, which passes it on.                                               *)
StartRouteValidation == rvSent' = InTransit(rvSent) \cup {parent}

(* Reachable, no valid route and none being validated: start a validation. *)
TickValidate ==
  /\ TickReady /\ reachable
  /\ ~hasValidRoute /\ ~validatingRoute
  /\ unreachableCounter' = 0
  /\ validatingRoute' = TRUE
  /\ ResetUnacked
  /\ StartRouteValidation
  /\ parentValidation' = parent
  /\ rvTimer' = "set"
  /\ rvParent' = parent
  /\ dmSent' = InTransit(dmSent)
  /\ ar' = NoAr
  /\ UNCHANGED <<hasValidRoute, validatedRoute, lastSeq, lastParent, dataTimer,
                 negative, rpl, halted>>

(* dmait_register_message_sent *)
RegisterMessageSent(seq) ==
  /\ lastSeq' = seq
  /\ lastParent' = parent
  /\ unacked' = unacked + 1
  /\ answered' = FALSE

(* dmait_send_data_message.  The number it computes is cut to a byte when it *)
(* is registered, long before the 9999 it is compared with.                  *)
SendDataMessage ==
  /\ RegisterMessageSent((lastSeq + 1) % SeqMod)
  /\ dmSent' = InTransit(dmSent) \cup {lastSeq'}
  /\ dataTimer' = TRUE

(* Reachable with a validated parent that is still the preferred one: send *)
(* data.                                                                   *)
TickSend ==
  /\ TickReady /\ reachable
  /\ hasValidRoute /\ ParentKept
  /\ unreachableCounter' = 0
  /\ rvTimer' = Elapse(rvTimer)
  /\ SendDataMessage
  /\ rvSent' = InTransit(rvSent)
  /\ ar' = NoAr
  /\ UNCHANGED <<hasValidRoute, validatingRoute, parentValidation,
                 validatedRoute, rvParent, missed, negative, rpl, halted>>

(* Reachable, but RPL switched away from the validated parent: the route is *)
(* invalidated and the node leaves the network.                             *)
TickParentChanged ==
  /\ TickReady /\ reachable
  /\ hasValidRoute /\ ~ParentKept
  /\ unreachableCounter' = 0
  /\ rvTimer' = Elapse(rvTimer)
  /\ hasValidRoute' = FALSE
  /\ validatingRoute' = FALSE
  /\ parent' = None
  /\ reachable' = FALSE
  /\ rvSent' = InTransit(rvSent)
  /\ dmSent' = InTransit(dmSent)
  /\ ar' = NoAr
  /\ UNCHANGED <<parentValidation, validatedRoute, rvParent, data, negative, halted>>

(* Reachable, and the validation started earlier is still unanswered. *)
TickValidating ==
  /\ TickReady /\ reachable
  /\ ~hasValidRoute /\ validatingRoute
  /\ unreachableCounter' = 0
  /\ rvTimer' = Elapse(rvTimer)
  /\ rvSent' = InTransit(rvSent)
  /\ dmSent' = InTransit(dmSent)
  /\ ar' = NoAr
  /\ UNCHANGED <<hasValidRoute, validatingRoute, parentValidation,
                 validatedRoute, rvParent, data, negative, rpl, halted>>

(* Off the network: no route is valid unless one is being validated, and a *)
(* long absence clears the negative list.                                  *)
TickUnreachable ==
  /\ TickReady /\ ~reachable
  /\ unreachableCounter' = OneMoreTick(unreachableCounter)
  /\ \/ /\ unreachableCounter' > UnreachableLimit
        /\ ClearBlackList
     \/ /\ unreachableCounter' <= UnreachableLimit
        /\ UNCHANGED negative
  /\ hasValidRoute' = (validatingRoute /\ hasValidRoute)
  /\ rvTimer' = Elapse(rvTimer)
  /\ rvSent' = InTransit(rvSent)
  /\ dmSent' = InTransit(dmSent)
  /\ ar' = NoAr
  /\ UNCHANGED <<validatingRoute, parentValidation, validatedRoute, rvParent,
                 data, rpl, halted>>

Tick == TickValidate \/ TickSend \/ TickParentChanged \/ TickValidating \/ TickUnreachable
-------------------------------------------------------------------------------
(* ctimer_route_validation_timeout_callback: a validation still running     *)
(* condemns the parent it went through; otherwise the timer is discarded.   *)
(* It fires at least 6 s after a tick, when a data timer has fired as well.  *)
RvTimeout ==
  /\ ~halted /\ ~dataTimer /\ rvTimer = "due"
  /\ rvTimer' = "idle"
  /\ \/ /\ ~hasValidRoute /\ validatingRoute
        /\ validatingRoute' = FALSE
        /\ Block(parentValidation)
     \/ /\ hasValidRoute \/ ~validatingRoute
        /\ UNCHANGED <<validatingRoute, negative>>
  /\ UNCHANGED <<hasValidRoute, parentValidation, validatedRoute, rvParent, data,
                 rpl, network, unreachableCounter, halted>>

(* dmait_process_route_validation_ack_message with a correct HMAC.  Nothing *)
(* in the message tells which validation it answers.  The parent it names   *)
(* replaces parentValidation only if the neighbour table knows it; nbrs is  *)
(* that table, which always holds the preferred parent.  The route begins   *)
(* where the RV went; left out is the answer to an RV that reached the root *)
(* with this node's block alone though its parent is not the root.          *)
ReceiveRvAck(via, route, nbrs) ==
  /\ ~halted /\ via \in rvSent
  /\ FirstHop(route) = via
  /\ parent \in nbrs \cup {None}
  /\ validatingRoute' = FALSE
  /\ hasValidRoute' = TRUE
  /\ validatedRoute' = Stored(route)
  /\ parentValidation' = IF route # <<>> /\ Head(route) \in nbrs
                           THEN Head(route) ELSE parentValidation
  /\ UNCHANGED <<rvTimer, rvParent, data, negative, rpl, network,
                 unreachableCounter, halted>>

(* The same handler when the HMAC does not match: the message is discarded, *)
(* but the flag has been lowered before the check.                          *)
ReceiveBadRvAck(via) ==
  /\ ~halted /\ via \in rvSent
  /\ validatingRoute' = FALSE
  /\ UNCHANGED <<hasValidRoute, parentValidation, rvTimer, validatedRoute, rvParent,
                 data, negative, rpl, network, unreachableCounter, halted>>

(* Mutant: every acknowledgement is taken for that of the last message. *)
CheckLastMessageSkipped(seq) == TRUE

(* dmait_check_last_message_data *)
CheckLastMessage(seq) == seq = lastSeq

(* dmait_process_data_message of the root: it keeps nothing, refuses nothing, *)
(* and answers every copy of a DM with a DMACK that repeats its number and    *)
(* its HMAC.                                                                 *)
AnsweredByRoot(seq) == seq \in dmSent

(* dmait_process_data_ack_message: only the acknowledgement of the last    *)
(* message resets the counter; any other is ignored.                       *)
ReceiveDataAck(seq) ==
  /\ ~halted /\ AnsweredByRoot(seq)
  /\ \/ /\ CheckLastMessage(seq)
        /\ unacked' = 0
     \/ /\ ~CheckLastMessage(seq)
        /\ UNCHANGED unacked
  /\ answered' = (answered \/ seq = lastSeq)
  /\ missed' = IF seq = lastSeq THEN <<>> ELSE missed
  /\ UNCHANGED <<validation, lastSeq, lastParent, dataTimer, negative, rpl, network,
                 unreachableCounter, halted>>
-------------------------------------------------------------------------------
(* dmait_select_neighbor_not_in_array: the neighbours it may pick.  A node   *)
(* that left the network picks nobody and trusts a stale flag instead: either *)
(* outcome is that of some nbrs.                                             *)
Suitable(nbrs) == nbrs \ NL!Members(validatedRoute)

(* dmait_ar_start_avoid_route: send an AR that avoids the validated route to *)
(* a neighbour outside it, or to the parent when there is none.  With no     *)
(* parent the fallback reads through a null pointer: the node crashes, or    *)
(* carries on with a meaningless address.  Nothing is sent off the network.  *)
StartAvoidRoute(nbrs) ==
  LET Send(to) == ar' = IF reachable THEN [avoid |-> validatedRoute, to |-> to] ELSE ar
  IN \/ /\ validatedRoute = <<>>
        /\ UNCHANGED <<ar, halted>>
     \/ /\ validatedRoute # <<>>
        /\ \E to \in Suitable(nbrs) : Send(to)
        /\ UNCHANGED halted
     \/ /\ validatedRoute # <<>> /\ Suitable(nbrs) = {} /\ parent # None
        /\ Send(parent)
        /\ UNCHANGED halted
     \/ /\ validatedRoute # <<>> /\ Suitable(nbrs) = {} /\ parent = None
        /\ halted' \in BOOLEAN
        /\ UNCHANGED ar

(* Mutant: the threshold itself is already too many. *)
OverThresholdEarly(count) == count >= LossThreshold

OverThreshold(count) == count > LossThreshold

(* ctimer_data_message_timeout_callback.  The callback sees only the counter; *)
(* missed records what really happened to the message.                        *)
Missed == IF answered THEN missed ELSE Append(missed, lastParent)

DataTimeoutAcked ==
  /\ ~halted /\ dataTimer /\ unacked = 0
  /\ dataTimer' = FALSE
  /\ missed' = Missed
  /\ UNCHANGED <<validation, unacked, lastSeq, lastParent, answered, negative,
                 rpl, network, unreachableCounter, halted>>

DataTimeoutMissed ==
  /\ ~halted /\ dataTimer /\ unacked > 0
  /\ ~OverThreshold(unacked + 1)
  /\ dataTimer' = FALSE
  /\ unacked' = unacked + 1
  /\ missed' = Missed
  /\ UNCHANGED <<validation, lastSeq, lastParent, answered, negative, rpl, network,
                 unreachableCounter, halted>>

DataTimeoutCondemn(nbrs) ==
  /\ ~halted /\ dataTimer /\ unacked > 0
  /\ OverThreshold(unacked + 1)
  /\ parent \in nbrs \cup {None}
  /\ dataTimer' = FALSE
  /\ ResetUnacked
  /\ Block(lastParent)
  /\ StartAvoidRoute(nbrs)
  /\ UNCHANGED <<validation, lastSeq, lastParent, rpl, rvSent, dmSent,
                 unreachableCounter>>

DataTimeout ==
  DataTimeoutAcked \/ DataTimeoutMissed
    \/ \E nbrs \in SUBSET Node : DataTimeoutCondemn(nbrs)
-------------------------------------------------------------------------------
(* RPL, outside src/: it keeps its parent or selects an acceptable one, and *)
(* is reachable only with a parent.                                         *)
RplUpdate(newParent, newReachable) ==
  /\ newParent \in (Node \ NL!Members(blocked)) \cup {parent, None}
  /\ newReachable => newParent # None
  /\ parent' = newParent
  /\ reachable' = newReachable
  /\ UNCHANGED <<validation, data, negative, network, unreachableCounter, halted>>

Receive ==
  \/ \E via \in Node : ReceiveBadRvAck(via)
  \/ \E via \in Node, route \in Route, nbrs \in SUBSET Node : ReceiveRvAck(via, route, nbrs)
  \/ \E seq \in 0 .. SeqMod - 1 : ReceiveDataAck(seq)

Next ==
  \/ Tick
  \/ RvTimeout
  \/ DataTimeout
  \/ Receive
  \/ \E p \in Node \cup {None}, r \in BOOLEAN : RplUpdate(p, r)

Spec == Init /\ [][Next]_vars

(* Contiki fires every timer that has expired. Nothing is assumed of RPL or *)
(* of the network.                                                          *)
FairSpec == Spec /\ WF_vars(Tick) /\ WF_vars(RvTimeout) /\ WF_vars(DataTimeout)
-------------------------------------------------------------------------------
FlagTypes ==
  /\ hasValidRoute \in BOOLEAN /\ validatingRoute \in BOOLEAN
  /\ dataTimer \in BOOLEAN /\ answered \in BOOLEAN
  /\ reachable \in BOOLEAN /\ halted \in BOOLEAN

ValidationTypes ==
  /\ rvTimer \in {"idle", "set", "due"}
  /\ parentValidation \in Node \cup {None} /\ rvParent \in Node \cup {None}
  /\ validatedRoute \in Seq(Node)

DataTypes ==
  /\ unacked \in Nat /\ lastSeq \in 0 .. SeqMod - 1
  /\ lastParent \in Node \cup {None}
  /\ missed \in Seq(Node)

NegativeTypes ==
  /\ blocked \in Seq(Node) /\ Len(blocked) <= Slots
  /\ condemned \subseteq Node

RplTypes ==
  /\ parent \in Node \cup {None}
  /\ reachable => parent # None

NetworkTypes ==
  /\ rvSent \subseteq Node /\ dmSent \subseteq 0 .. SeqMod - 1
  /\ ar \in [avoid : Seq(Node), to : Node \cup {None}]

TypeOK ==
  /\ FlagTypes
  /\ ValidationTypes /\ DataTypes /\ NegativeTypes /\ RplTypes /\ NetworkTypes
  /\ unreachableCounter \in 0 .. UnreachableLimit + 1

(* A running validation excludes a valid route, always has a timer that will *)
(* end it, and still names the parent it went through, so that no answer,    *)
(* restart or parent change makes the timeout condemn somebody else          *)
(* (dmait-client.c:68-71, 485-513).                                          *)
ValidationGuarded ==
  validatingRoute =>
    ~hasValidRoute /\ rvTimer # "idle" /\ parentValidation = rvParent

(* The counter of dmait-client-logic.c:49 is raised by the send and again by *)
(* the timeout: whatever answers come late or out of order, it counts twice  *)
(* the messages missed in a row plus the one still waiting, and the route is *)
(* kept only while those stay within the threshold.                          *)
LossAccounting ==
  /\ unacked = 2 * Len(missed) + (IF dataTimer /\ ~answered THEN 1 ELSE 0)
  /\ 2 * Len(missed) <= LossThreshold
  /\ answered => missed = <<>>

(* While the list has room, the negative list holds exactly the nodes        *)
(* condemned since it was last cleared (rpl-mrhof.c:399-474).                *)
CondemnedAreBlocked ==
  Len(blocked) < Slots => NL!Members(blocked) = condemned

(* A node is condemned only as the parent of the validation that timed out,  *)
(* or as the parent of the last data message once more than LossThreshold    *)
(* misses, counted twice, were seen in a row with no answer between them     *)
(* (dmait-client-logic.c:466-494, dmait-client.c:485-513).                   *)
CondemnedForCause ==
  [][\A n \in condemned' \ condemned :
        \/ validatingRoute /\ rvTimer = "due" /\ n = rvParent
        \/ /\ dataTimer /\ ~answered /\ n = lastParent
           /\ 2 * (Len(missed) + 1) > LossThreshold]_vars

(* With answers that never outlive a tick: the validated route leaves this   *)
(* node by the parent data is sent to (dmait-client.c:575-598).              *)
ValidatedRouteLeavesByParent ==
  hasValidRoute => FirstHop(validatedRoute) = parentValidation

(* With such answers, the misses that condemn a parent are all its own       *)
(* (dmait-client-logic.c:497-503).                                           *)
MissesShareParent ==
  \A i \in DOMAIN missed : missed[i] = lastParent

(* With such answers, the route an AR tells the network to avoid begins at   *)
(* the parent just condemned for losing data, whatever parent RPL has chosen *)
(* since (dmait-client-logic.c:260-383, 466-494).                            *)
ArAvoidsCondemnedParent ==
  ar # NoAr =>
    /\ lastParent \in condemned
    /\ Head(ar.avoid) = lastParent

(* "If found no suitable neighbor, send it to the parent anyway": there is a *)
(* parent to send to whenever the fallback is taken                          *)
(* (dmait-client-logic.c:366-373).                                           *)
NeverHalts == ~halted

(* "So the blacklisted node cannot parent this node again": RPL never moves  *)
(* to a node condemned since the list was cleared (dmait-client.c:497-505).  *)
CondemnedNeverParentsAgain ==
  [][parent' # parent => parent' \notin condemned]_vars

(* A validation comes to an end (dmait-client.c:485-513).                    *)
ValidationEnds == validatingRoute ~> (~validatingRoute \/ halted)

(* A parent that RPL keeps is in the end validated for good or blocked: no   *)
(* parent swallows every message unnoticed.  Two things stand in the way, a  *)
(* list with no slot left and RVACKs with a wrong HMAC that keep calling off *)
(* the validation timer (dmait-client.c:165-257, 485-513).                   *)
StableParentSettles ==
  \A p \in Node :
    <>[](reachable /\ parent = p /\ ~halted)
      => \/ <>[](hasValidRoute \/ p \in NL!Members(blocked) \/ Len(blocked) = Slots)
         \/ []<><<\E via \in Node : ReceiveBadRvAck(via)>>_vars

(* A parent that carries no answer is blocked in the end: while data goes to  *)
(* one validated parent and the last message is answered only finitely often, *)
(* late answers to earlier messages do not keep the parent                   *)
(* (dmait-client-logic.c:385-586).                                           *)
DeafParentBlocked ==
  \A p \in Node :
    <>[](reachable /\ hasValidRoute /\ parent = p /\ parentValidation = p /\ ~halted)
      => \/ <>[](p \in NL!Members(blocked) \/ Len(blocked) = Slots)
         \/ []<><<ReceiveDataAck(lastSeq)>>_vars

(* A node that stays off the network forgives everybody in the end, so a     *)
(* node whose every neighbour is blocked is not cut off for ever             *)
(* (dmait-client.c:616-624).                                                 *)
IsolationEnds == <>[](~reachable /\ ~halted) => <>[](blocked = <<>>)
===============================================================================
