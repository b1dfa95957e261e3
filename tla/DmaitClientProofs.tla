-------------------------- MODULE DmaitClientProofs ---------------------------
(***************************************************************************)
(* Proofs about DmaitClient for every set of nodes and routes, every pool  *)
(* and list size, every threshold and every sequence-number width.         *)
(***************************************************************************)
EXTENDS DmaitClient, TLAPS, SequenceTheorems

LEMMA Numbers ==
  /\ RoutePool \in Nat /\ 1 <= RoutePool
  /\ Slots \in Nat /\ 1 <= Slots
  /\ LossThreshold \in Nat /\ 1 <= LossThreshold
  /\ UnreachableLimit \in Nat
  /\ SeqMod \in Nat /\ 2 <= SeqMod
  BY ClientAssumption

(* Copying a route into the bounded pool keeps it a route, with the same     *)
(* first hop.                                                                *)
LEMMA StoredRoute ==
  ASSUME NEW route \in Seq(Node)
  PROVE  /\ Stored(route) \in Seq(Node)
         /\ FirstHop(Stored(route)) = FirstHop(route)
<1> DEFINE n == IF Len(route) <= RoutePool THEN Len(route) ELSE RoutePool
<1>1. n \in Nat /\ n \in 0 .. Len(route)
  BY Numbers, LenProperties
<1>2. SubSeq(route, 1, n) \in Seq(Node)
  <2>1. \A i \in 1 .. n : route[i] \in Node
    BY <1>1, ElementOfSeq
  <2>2. QED
    BY <1>1, <2>1, SubSeqProperties
<1>3. CASE route = <<>>
  <2>1. n = 0
    BY <1>3, Numbers
  <2>2. SubSeq(route, 1, n) = <<>>
    BY <2>1, SubSeqEmpty
  <2>3. QED
    BY <1>2, <1>3, <2>2 DEF Stored, FirstHop
<1>4. CASE route # <<>>
  <2>1. Len(route) \in Nat \ {0}
    BY <1>4, EmptySeq
  <2>2. n \in 1 .. Len(route)
    BY <2>1, <1>1, Numbers
  <2>3. Head(SubSeq(route, 1, n)) = route[1]
    BY <2>1, <2>2, HeadTailOfSubSeq
  <2>4. SubSeq(route, 1, n) # <<>>
    <3>1. Len(SubSeq(route, 1, n)) = n
      BY <1>1, <2>2, ElementOfSeq, SubSeqProperties
    <3>2. QED
      BY <3>1, <2>2
  <2>5. Head(route) = route[1]
    BY <1>4
  <2>6. QED
    BY <1>2, <1>4, <2>3, <2>4, <2>5 DEF Stored, FirstHop
<1>5. QED
  BY <1>3, <1>4

(* addNodeToBlackList keeps the list within its slots, and while a slot is   *)
(* left afterwards the node is in it.                                        *)
LEMMA AddedList ==
  ASSUME NEW list \in Seq(Node), Len(list) <= Slots, NEW node \in Node
  PROVE  /\ NL!Added(list, node) \in Seq(Node)
         /\ Len(NL!Added(list, node)) <= Slots
         /\ Len(NL!Added(list, node)) < Slots =>
              /\ Len(list) < Slots
              /\ NL!Members(NL!Added(list, node)) = NL!Members(list) \cup {node}
<1>1. Len(list) \in Nat /\ DOMAIN list = 1 .. Len(list)
  BY LenProperties
<1>2. CASE Len(list) < Slots
  <2>1. NL!Added(list, node) = Append(list, node)
    BY <1>2 DEF NL!Added
  <2>2. /\ Append(list, node) \in Seq(Node)
        /\ Len(Append(list, node)) = Len(list) + 1
        /\ DOMAIN Append(list, node) = 1 .. Len(list) + 1
    BY <1>1
  <2>3. /\ \A i \in 1 .. Len(list) : Append(list, node)[i] = list[i]
        /\ Append(list, node)[Len(list) + 1] = node
    BY <1>1
  <2>4. NL!Members(Append(list, node)) = NL!Members(list) \cup {node}
    BY <1>1, <2>2, <2>3 DEF NL!Members
  <2>5. QED
    BY <1>1, <1>2, <2>1, <2>2, <2>4, Numbers
<1>3. CASE Len(list) = Slots
  <2>1. NL!Added(list, node) = list
    BY <1>3, Numbers DEF NL!Added
  <2>2. QED
    BY <1>3, <2>1, Numbers
<1>4. Len(list) < Slots \/ Len(list) = Slots
  <2>1. \A m, n \in Nat : m <= n => m < n \/ m = n
    OBVIOUS
  <2>2. Len(list) \in Nat /\ Slots \in Nat
    BY <1>1, Numbers
  <2>3. QED
    BY <2>1, <2>2, Zenon
<1>5. QED
  BY <1>2, <1>3, <1>4
-------------------------------------------------------------------------------
(* The inductive invariant.  The addresses the timeouts condemn have been    *)
(* written: without that the negative list could hold the null address.      *)
AddressesWritten ==
  /\ validatingRoute => parentValidation # None
  /\ dataTimer => lastParent # None

IInv ==
  /\ TypeOK /\ AddressesWritten
  /\ ValidationGuarded /\ LossAccounting /\ CondemnedAreBlocked

LEMMA InitIInv == Init => IInv
<1> SUFFICES ASSUME Init PROVE IInv
  OBVIOUS
<1>1. ValidationTypes
  BY DEF Init, ValidationTypes
<1>2. DataTypes
  BY Numbers DEF Init, DataTypes
<1>3. NegativeTypes
  BY Numbers DEF Init, NegativeTypes
<1>4. RplTypes
  BY DEF Init, RplTypes
<1>5. NetworkTypes
  BY DEF Init, NetworkTypes, NoAr
<1>6. FlagTypes /\ unreachableCounter \in 0 .. UnreachableLimit + 1
  <2>1. FlagTypes
    BY DEF Init, FlagTypes
  <2>2. QED
    BY <2>1, Numbers DEF Init
<1>7. AddressesWritten /\ ValidationGuarded
  BY DEF Init, AddressesWritten, ValidationGuarded
<1>8. LossAccounting
  BY Numbers DEF Init, LossAccounting
<1>9. CondemnedAreBlocked
  BY DEF Init, CondemnedAreBlocked, NL!Members
<1>10. QED
  BY <1>1, <1>2, <1>3, <1>4, <1>5, <1>6, <1>7, <1>8, <1>9 DEF IInv, TypeOK

(* What a step that leaves a group of variables alone leaves true of it. *)
LEMMA Kept ==
  /\ (UNCHANGED <<validation, data, rpl, halted>>) => (FlagTypes => FlagTypes')
  /\ UNCHANGED validation =>
       /\ ValidationTypes => ValidationTypes'
       /\ ValidationGuarded => ValidationGuarded'
  /\ UNCHANGED data =>
       /\ DataTypes => DataTypes'
       /\ LossAccounting => LossAccounting'
  /\ UNCHANGED negative =>
       /\ NegativeTypes => NegativeTypes'
       /\ CondemnedAreBlocked => CondemnedAreBlocked'
  /\ UNCHANGED rpl => (RplTypes => RplTypes')
  /\ UNCHANGED network => (NetworkTypes => NetworkTypes')
<1>1. UNCHANGED validation =>
        /\ ValidationTypes => ValidationTypes'
        /\ ValidationGuarded => ValidationGuarded'
  BY DEF validation, ValidationTypes, ValidationGuarded
<1>2. UNCHANGED data =>
        /\ DataTypes => DataTypes'
        /\ LossAccounting => LossAccounting'
  BY DEF data, DataTypes, LossAccounting
<1>3. UNCHANGED negative =>
        /\ NegativeTypes => NegativeTypes'
        /\ CondemnedAreBlocked => CondemnedAreBlocked'
  BY DEF negative, NegativeTypes, CondemnedAreBlocked, NL!Members
<1>4. UNCHANGED rpl => (RplTypes => RplTypes')
  BY DEF rpl, RplTypes
<1>5. UNCHANGED network => (NetworkTypes => NetworkTypes')
  BY DEF network, NetworkTypes
<1>6. (UNCHANGED <<validation, data, rpl, halted>>) => (FlagTypes => FlagTypes')
  BY DEF validation, data, rpl, FlagTypes
<1>7. QED
  BY <1>1, <1>2, <1>3, <1>4, <1>5, <1>6

(* addNodeToBlackList keeps the list within its slots and in step with the   *)
(* condemned nodes.                                                          *)
LEMMA BlockKeeps ==
  ASSUME NegativeTypes, CondemnedAreBlocked, NEW node \in Node, Block(node)
  PROVE  NegativeTypes' /\ CondemnedAreBlocked'
<1>1. /\ blocked' \in Seq(Node)
      /\ Len(blocked') <= Slots
      /\ Len(blocked') < Slots =>
           /\ Len(blocked) < Slots
           /\ NL!Members(blocked') = NL!Members(blocked) \cup {node}
  BY AddedList DEF Block, NegativeTypes
<1>2. NegativeTypes'
  BY <1>1 DEF Block, NegativeTypes
<1>3. CondemnedAreBlocked'
  <2>1. ASSUME Len(blocked') < Slots PROVE NL!Members(blocked') = condemned'
    BY <1>1, <2>1 DEF Block, CondemnedAreBlocked
  <2>2. NL!Members(blocked)' = NL!Members(blocked')
    BY DEF NL!Members
  <2>3. QED
    BY <2>1, <2>2 DEF CondemnedAreBlocked
<1>4. QED
  BY <1>2, <1>3
-------------------------------------------------------------------------------
(* Each step of the node preserves the invariant. *)
LEMMA TickValidateStep == IInv /\ TickValidate => IInv'
<1> SUFFICES ASSUME IInv, TickValidate PROVE IInv'
  OBVIOUS
<1> USE DEF IInv, TypeOK
<1>1. parent \in Node
  BY DEF TickValidate, RplTypes, StartRouteValidation, ResetUnacked
<1>2. FlagTypes'
  BY DEF TickValidate, FlagTypes, rpl, StartRouteValidation, ResetUnacked
<1>3. ValidationTypes'
  BY <1>1 DEF TickValidate, ValidationTypes, StartRouteValidation, ResetUnacked
<1>4. DataTypes'
  BY DEF TickValidate, DataTypes, StartRouteValidation, ResetUnacked
<1>5. NegativeTypes' /\ RplTypes' /\ CondemnedAreBlocked'
  BY Kept DEF TickValidate, StartRouteValidation, ResetUnacked
<1>6. NetworkTypes'
  BY <1>1 DEF TickValidate, NetworkTypes, NoAr, InTransit, StartRouteValidation,
              ResetUnacked
<1>7. unreachableCounter' \in 0 .. UnreachableLimit + 1
  BY Numbers DEF TickValidate, StartRouteValidation, ResetUnacked
<1>8. AddressesWritten' /\ ValidationGuarded'
  BY <1>1, ClientAssumption
     DEF TickValidate, TickReady, AddressesWritten, ValidationGuarded,
         StartRouteValidation, ResetUnacked
<1>9. LossAccounting'
  BY Numbers DEF TickValidate, TickReady, LossAccounting, StartRouteValidation,
                 ResetUnacked
<1>10. QED
  BY <1>2, <1>3, <1>4, <1>5, <1>6, <1>7, <1>8, <1>9

LEMMA TickSendStep == IInv /\ TickSend => IInv'
<1> SUFFICES ASSUME IInv, TickSend PROVE IInv'
  OBVIOUS
<1> USE DEF IInv, TypeOK
<1>1. parent \in Node
  BY DEF TickSend, RplTypes, SendDataMessage, RegisterMessageSent
<1>2. FlagTypes'
  BY DEF TickSend, FlagTypes, rpl, SendDataMessage, RegisterMessageSent
<1>3. ValidationTypes'
  BY DEF TickSend, ValidationTypes, Elapse, SendDataMessage, RegisterMessageSent
<1>4. lastSeq' \in 0 .. SeqMod - 1
  BY Numbers DEF TickSend, DataTypes, SendDataMessage, RegisterMessageSent
<1>5. DataTypes'
  BY <1>1, <1>4 DEF TickSend, DataTypes, SendDataMessage, RegisterMessageSent
<1>6. NegativeTypes' /\ RplTypes' /\ CondemnedAreBlocked'
  BY Kept DEF TickSend, SendDataMessage, RegisterMessageSent
<1>7. NetworkTypes'
  <2>1. rvSent' \subseteq Node /\ dmSent' \subseteq 0 .. SeqMod - 1
    BY <1>4 DEF TickSend, NetworkTypes, InTransit, SendDataMessage, RegisterMessageSent
  <2>2. ar' \in [avoid : Seq(Node), to : Node \cup {None}]
    BY DEF TickSend, NoAr, SendDataMessage, RegisterMessageSent
  <2>3. QED
    BY <2>1, <2>2 DEF NetworkTypes
<1>8. unreachableCounter' \in 0 .. UnreachableLimit + 1
  BY Numbers DEF TickSend, SendDataMessage, RegisterMessageSent
<1>9. AddressesWritten' /\ ValidationGuarded'
  BY <1>1, ClientAssumption
     DEF TickSend, AddressesWritten, ValidationGuarded, Elapse, SendDataMessage,
         RegisterMessageSent
<1>10. LossAccounting'
  <2>1. /\ unacked = 2 * Len(missed) /\ 2 * Len(missed) <= LossThreshold
        /\ Len(missed) \in Nat
    BY LenProperties DEF TickSend, TickReady, LossAccounting, DataTypes,
                         SendDataMessage, RegisterMessageSent
  <2>2. /\ unacked' = 2 * Len(missed) + 1 /\ missed' = missed
        /\ dataTimer' /\ ~answered'
    BY <2>1 DEF TickSend, SendDataMessage, RegisterMessageSent
  <2>3. QED
    BY <2>1, <2>2 DEF LossAccounting
<1>11. QED
  BY <1>2, <1>3, <1>5, <1>6, <1>7, <1>8, <1>9, <1>10

LEMMA TickParentChangedStep == IInv /\ TickParentChanged => IInv'
<1> SUFFICES ASSUME IInv, TickParentChanged PROVE IInv'
  OBVIOUS
<1> USE DEF IInv, TypeOK
<1>1. FlagTypes'
  BY DEF TickParentChanged, FlagTypes, data
<1>2. ValidationTypes'
  BY DEF TickParentChanged, ValidationTypes, Elapse
<1>3. /\ DataTypes' /\ LossAccounting'
      /\ NegativeTypes' /\ CondemnedAreBlocked'
  BY Kept DEF TickParentChanged
<1>4. RplTypes'
  BY DEF TickParentChanged, RplTypes
<1>5. NetworkTypes'
  BY DEF TickParentChanged, NetworkTypes, NoAr, InTransit
<1>6. unreachableCounter' \in 0 .. UnreachableLimit + 1
  BY Numbers DEF TickParentChanged
<1>7. AddressesWritten' /\ ValidationGuarded'
  BY DEF TickParentChanged, AddressesWritten, ValidationGuarded, data
<1>8. QED
  BY <1>1, <1>2, <1>3, <1>4, <1>5, <1>6, <1>7

LEMMA TickValidatingStep == IInv /\ TickValidating => IInv'
<1> SUFFICES ASSUME IInv, TickValidating PROVE IInv'
  OBVIOUS
<1> USE DEF IInv, TypeOK
<1>1. FlagTypes'
  BY DEF TickValidating, FlagTypes, data, rpl
<1>2. ValidationTypes'
  BY DEF TickValidating, ValidationTypes, Elapse
<1>3. /\ DataTypes' /\ LossAccounting' /\ RplTypes'
      /\ NegativeTypes' /\ CondemnedAreBlocked'
  BY Kept DEF TickValidating
<1>4. NetworkTypes'
  BY DEF TickValidating, NetworkTypes, NoAr, InTransit
<1>5. unreachableCounter' \in 0 .. UnreachableLimit + 1
  BY Numbers DEF TickValidating
<1>6. AddressesWritten' /\ ValidationGuarded'
  BY DEF TickValidating, AddressesWritten, ValidationGuarded, data, Elapse
<1>7. QED
  BY <1>1, <1>2, <1>3, <1>4, <1>5, <1>6

LEMMA TickUnreachableStep == IInv /\ TickUnreachable => IInv'
<1> SUFFICES ASSUME IInv, TickUnreachable PROVE IInv'
  OBVIOUS
<1> USE DEF IInv, TypeOK
<1>1. FlagTypes'
  BY DEF TickUnreachable, FlagTypes, data, rpl, ClearBlackList
<1>2. ValidationTypes'
  BY DEF TickUnreachable, ValidationTypes, Elapse, ClearBlackList
<1>3. DataTypes' /\ LossAccounting' /\ RplTypes'
  BY Kept DEF TickUnreachable, ClearBlackList
<1>4. NegativeTypes' /\ CondemnedAreBlocked'
  <2>1. CASE UNCHANGED negative
    BY <2>1, Kept
  <2>2. CASE blocked' = <<>> /\ condemned' = {}
    BY <2>2, Numbers DEF NegativeTypes, CondemnedAreBlocked, NL!Members
  <2>3. QED
    BY <2>1, <2>2 DEF TickUnreachable, ClearBlackList
<1>5. NetworkTypes'
  BY DEF TickUnreachable, NetworkTypes, NoAr, InTransit, ClearBlackList
<1>6. unreachableCounter' \in 0 .. UnreachableLimit + 1
  BY Numbers DEF TickUnreachable, OneMoreTick, ClearBlackList
<1>7. AddressesWritten' /\ ValidationGuarded'
  BY DEF TickUnreachable, AddressesWritten, ValidationGuarded, data, Elapse,
         ClearBlackList
<1>8. QED
  BY <1>1, <1>2, <1>3, <1>4, <1>5, <1>6, <1>7

LEMMA RvTimeoutStep == IInv /\ RvTimeout => IInv'
<1> SUFFICES ASSUME IInv, RvTimeout PROVE IInv'
  OBVIOUS
<1> USE DEF IInv, TypeOK
<1>1. FlagTypes'
  BY DEF RvTimeout, FlagTypes, data, rpl
<1>2. ValidationTypes'
  BY DEF RvTimeout, ValidationTypes
<1>3. DataTypes' /\ LossAccounting' /\ RplTypes' /\ NetworkTypes'
  BY Kept DEF RvTimeout
<1>4. NegativeTypes' /\ CondemnedAreBlocked'
  <2>1. CASE UNCHANGED negative
    BY <2>1, Kept
  <2>2. CASE validatingRoute /\ Block(parentValidation)
    <3>1. parentValidation \in Node
      BY <2>2 DEF AddressesWritten, ValidationTypes
    <3>2. QED
      BY <2>2, <3>1, BlockKeeps
  <2>3. QED
    BY <2>1, <2>2 DEF RvTimeout
<1>5. AddressesWritten' /\ ValidationGuarded'
  BY DEF RvTimeout, AddressesWritten, ValidationGuarded, data
<1>6. unreachableCounter' \in 0 .. UnreachableLimit + 1
  BY DEF RvTimeout
<1>7. QED
  BY <1>1, <1>2, <1>3, <1>4, <1>5, <1>6

LEMMA ReceiveStep == IInv /\ Receive => IInv'
<1> SUFFICES ASSUME IInv, Receive PROVE IInv'
  OBVIOUS
<1> USE DEF IInv, TypeOK
<1>1. ASSUME NEW via \in Node, ReceiveBadRvAck(via) PROVE IInv'
  <2>1. FlagTypes' /\ ValidationTypes'
    BY <1>1 DEF ReceiveBadRvAck, FlagTypes, ValidationTypes, data, rpl
  <2>2. /\ DataTypes' /\ LossAccounting' /\ RplTypes' /\ NetworkTypes'
        /\ NegativeTypes' /\ CondemnedAreBlocked'
    BY <1>1, Kept DEF ReceiveBadRvAck
  <2>3. AddressesWritten' /\ ValidationGuarded'
    BY <1>1 DEF ReceiveBadRvAck, AddressesWritten, ValidationGuarded, data
  <2>4. QED
    BY <1>1, <2>1, <2>2, <2>3 DEF ReceiveBadRvAck
<1>2. ASSUME NEW via \in Node, NEW route \in Route, NEW nbrs \in SUBSET Node,
             ReceiveRvAck(via, route, nbrs)
      PROVE  IInv'
  <2>1. FlagTypes'
    BY <1>2 DEF ReceiveRvAck, FlagTypes, data, rpl
  <2>2. ValidationTypes'
    <3>1. route \in Seq(Node)
      BY ClientAssumption
    <3>2. validatedRoute' \in Seq(Node)
      BY <1>2, <3>1, StoredRoute DEF ReceiveRvAck
    <3>3. parentValidation' \in Node \cup {None}
      BY <1>2 DEF ReceiveRvAck, ValidationTypes
    <3>4. QED
      BY <1>2, <3>2, <3>3 DEF ReceiveRvAck, ValidationTypes
  <2>3. /\ DataTypes' /\ LossAccounting' /\ RplTypes' /\ NetworkTypes'
        /\ NegativeTypes' /\ CondemnedAreBlocked'
    BY <1>2, Kept DEF ReceiveRvAck
  <2>4. AddressesWritten' /\ ValidationGuarded'
    BY <1>2 DEF ReceiveRvAck, AddressesWritten, ValidationGuarded, data
  <2>5. QED
    BY <1>2, <2>1, <2>2, <2>3, <2>4 DEF ReceiveRvAck
<1>3. ASSUME NEW seq \in 0 .. SeqMod - 1, ReceiveDataAck(seq) PROVE IInv'
  <2>1. FlagTypes'
    BY <1>3 DEF ReceiveDataAck, FlagTypes, validation, rpl
  <2>2. DataTypes'
    BY <1>3 DEF ReceiveDataAck, DataTypes
  <2>3. /\ ValidationTypes' /\ ValidationGuarded' /\ RplTypes' /\ NetworkTypes'
        /\ NegativeTypes' /\ CondemnedAreBlocked'
    BY <1>3, Kept DEF ReceiveDataAck
  <2>4. AddressesWritten'
    BY <1>3 DEF ReceiveDataAck, AddressesWritten, validation
  <2>5. LossAccounting'
    <3>1. CASE seq = lastSeq
      <4>1. unacked' = 0 /\ missed' = <<>> /\ answered'
        BY <1>3, <3>1 DEF ReceiveDataAck, CheckLastMessage
      <4>2. QED
        BY <4>1, Numbers DEF LossAccounting
    <3>2. CASE seq # lastSeq
      <4>1. UNCHANGED <<unacked, missed, dataTimer>> /\ answered' = answered
        BY <1>3, <3>2 DEF ReceiveDataAck, FlagTypes, CheckLastMessage
      <4>2. QED
        BY <4>1 DEF LossAccounting
    <3>3. QED
      BY <3>1, <3>2
  <2>6. QED
    BY <1>3, <2>1, <2>2, <2>3, <2>4, <2>5 DEF ReceiveDataAck
<1>4. QED
  BY <1>1, <1>2, <1>3 DEF Receive

(* A timeout that finds the counter raised is that of an unanswered message, *)
(* and one more miss, counted twice, is what it adds.                        *)
LEMMA RaisedMeansMissed ==
  ASSUME DataTypes, LossAccounting, dataTimer, unacked > 0
  PROVE  ~answered /\ unacked + 1 = 2 * (Len(missed) + 1)
<1>1. Len(missed) \in Nat
  BY LenProperties DEF DataTypes
<1>2. CASE answered
  <2>1. unacked = 2 * Len(missed) /\ missed = <<>>
    BY <1>2 DEF LossAccounting
  <2>2. QED
    BY <2>1
<1>3. CASE ~answered
  <2>1. unacked = 2 * Len(missed) + 1
    BY <1>3 DEF LossAccounting
  <2>2. QED
    BY <1>1, <1>3, <2>1
<1>4. QED
  BY <1>2, <1>3

LEMMA DataTimeoutStep == IInv /\ DataTimeout => IInv'
<1> SUFFICES ASSUME IInv, DataTimeout PROVE IInv'
  OBVIOUS
<1> USE DEF IInv, TypeOK
<1>1. CASE DataTimeoutAcked
  <2>1. answered
    <3>1. Len(missed) \in Nat
      BY LenProperties DEF DataTypes
    <3>2. QED
      BY <1>1, <3>1 DEF DataTimeoutAcked, LossAccounting
  <2>2. missed' = missed
    BY <1>1, <2>1 DEF DataTimeoutAcked, Missed
  <2>3. FlagTypes'
    BY <1>1 DEF DataTimeoutAcked, FlagTypes, validation, rpl
  <2>4. DataTypes'
    BY <1>1, <2>2 DEF DataTimeoutAcked, DataTypes
  <2>5. /\ ValidationTypes' /\ ValidationGuarded' /\ RplTypes' /\ NetworkTypes'
        /\ NegativeTypes' /\ CondemnedAreBlocked'
    BY <1>1, Kept DEF DataTimeoutAcked
  <2>6. AddressesWritten'
    BY <1>1 DEF DataTimeoutAcked, AddressesWritten, validation
  <2>7. LossAccounting'
    BY <1>1, <2>1, <2>2 DEF DataTimeoutAcked, LossAccounting
  <2>8. QED
    BY <1>1, <2>3, <2>4, <2>5, <2>6, <2>7 DEF DataTimeoutAcked
<1>2. CASE DataTimeoutMissed
  <2>1. ~answered /\ unacked + 1 = 2 * (Len(missed) + 1)
    BY <1>2, RaisedMeansMissed DEF DataTimeoutMissed
  <2>2. lastParent \in Node
    BY <1>2 DEF DataTimeoutMissed, DataTypes, AddressesWritten
  <2>3. missed' = Append(missed, lastParent)
    BY <1>2, <2>1 DEF DataTimeoutMissed, Missed
  <2>4. missed' \in Seq(Node) /\ Len(missed') = Len(missed) + 1
    BY <2>2, <2>3 DEF DataTypes
  <2>5. FlagTypes'
    BY <1>2 DEF DataTimeoutMissed, FlagTypes, validation, rpl
  <2>6. DataTypes'
    BY <1>2, <2>4 DEF DataTimeoutMissed, DataTypes
  <2>7. /\ ValidationTypes' /\ ValidationGuarded' /\ RplTypes' /\ NetworkTypes'
        /\ NegativeTypes' /\ CondemnedAreBlocked'
    BY <1>2, Kept DEF DataTimeoutMissed
  <2>8. AddressesWritten'
    BY <1>2 DEF DataTimeoutMissed, AddressesWritten, validation
  <2>9. LossAccounting'
    <3>1. unacked' = 2 * Len(missed') /\ 2 * Len(missed') <= LossThreshold
      <4>1. unacked' = unacked + 1 /\ unacked + 1 <= LossThreshold
        <5>1. unacked' = unacked + 1 /\ ~OverThreshold(unacked + 1)
          BY <1>2 DEF DataTimeoutMissed
        <5>2. QED
          BY <5>1, Numbers DEF OverThreshold, DataTypes
      <4>2. QED
        BY <2>1, <2>4, <4>1
    <3>2. ~dataTimer' /\ ~answered'
      BY <1>2, <2>1 DEF DataTimeoutMissed
    <3>3. Len(missed') \in Nat
      BY <2>4, LenProperties
    <3>4. QED
      BY <3>1, <3>2, <3>3 DEF LossAccounting
  <2>10. QED
    BY <1>2, <2>5, <2>6, <2>7, <2>8, <2>9 DEF DataTimeoutMissed
<1>3. ASSUME NEW nbrs \in SUBSET Node, DataTimeoutCondemn(nbrs) PROVE IInv'
  <2>1. lastParent \in Node
    BY <1>3 DEF DataTimeoutCondemn, DataTypes, AddressesWritten, ResetUnacked
  <2>2. NegativeTypes' /\ CondemnedAreBlocked'
    BY <1>3, <2>1, BlockKeeps DEF DataTimeoutCondemn, ResetUnacked
  <2>3. ar' \in [avoid : Seq(Node), to : Node \cup {None}] /\ halted' \in BOOLEAN
    <3>1. halted' \in BOOLEAN
      BY <1>3 DEF DataTimeoutCondemn, StartAvoidRoute, FlagTypes, ResetUnacked, Suitable
    <3>2. \/ UNCHANGED ar
          \/ \E to \in nbrs \cup {parent} : ar' = [avoid |-> validatedRoute, to |-> to]
      BY <1>3 DEF DataTimeoutCondemn, StartAvoidRoute, ResetUnacked, Suitable
    <3>3. ar' \in [avoid : Seq(Node), to : Node \cup {None}]
      BY <3>2 DEF ValidationTypes, RplTypes, NetworkTypes
    <3>4. QED
      BY <3>1, <3>3
  <2>4. FlagTypes'
    BY <1>3, <2>3 DEF DataTimeoutCondemn, FlagTypes, validation, rpl, ResetUnacked
  <2>5. DataTypes'
    BY <1>3 DEF DataTimeoutCondemn, DataTypes, ResetUnacked
  <2>6. NetworkTypes'
    BY <1>3, <2>3 DEF DataTimeoutCondemn, NetworkTypes, ResetUnacked
  <2>7. ValidationTypes' /\ ValidationGuarded' /\ RplTypes'
    BY <1>3, Kept DEF DataTimeoutCondemn, ResetUnacked
  <2>8. AddressesWritten'
    BY <1>3 DEF DataTimeoutCondemn, AddressesWritten, validation, ResetUnacked
  <2>9. LossAccounting'
    <3>1. unacked' = 0 /\ missed' = <<>> /\ answered'
      BY <1>3 DEF DataTimeoutCondemn, ResetUnacked
    <3>2. QED
      BY <3>1, Numbers DEF LossAccounting
  <2>10. QED
    BY <1>3, <2>2, <2>4, <2>5, <2>6, <2>7, <2>8, <2>9 DEF DataTimeoutCondemn,
            ResetUnacked
<1>4. QED
  BY <1>1, <1>2, <1>3 DEF DataTimeout

LEMMA RplStep ==
  ASSUME NEW p \in Node \cup {None}, NEW r \in BOOLEAN
  PROVE  IInv /\ RplUpdate(p, r) => IInv'
<1> SUFFICES ASSUME IInv, RplUpdate(p, r) PROVE IInv'
  OBVIOUS
<1> USE DEF IInv, TypeOK
<1>1. FlagTypes'
  BY DEF RplUpdate, FlagTypes, validation, data
<1>2. RplTypes'
  BY DEF RplUpdate, RplTypes
<1>3. /\ ValidationTypes' /\ ValidationGuarded' /\ DataTypes' /\ LossAccounting'
      /\ NegativeTypes' /\ CondemnedAreBlocked' /\ NetworkTypes'
  BY Kept DEF RplUpdate
<1>4. AddressesWritten'
  BY DEF RplUpdate, AddressesWritten, validation, data
<1>5. QED
  BY <1>1, <1>2, <1>3, <1>4 DEF RplUpdate

LEMMA StutterStep == IInv /\ UNCHANGED vars => IInv'
<1> SUFFICES ASSUME IInv, UNCHANGED vars PROVE IInv'
  OBVIOUS
<1>1. UNCHANGED <<validation, data, negative, rpl, network, unreachableCounter, halted>>
  BY DEF vars
<1>2. AddressesWritten'
  BY <1>1 DEF IInv, AddressesWritten, validation, data
<1>3. QED
  BY <1>1, <1>2, Kept DEF IInv, TypeOK

LEMMA Inductive == IInv /\ [Next]_vars => IInv'
<1>1. IInv /\ Tick => IInv'
  BY TickValidateStep, TickSendStep, TickParentChangedStep, TickValidatingStep,
     TickUnreachableStep DEF Tick
<1>2. QED
  BY <1>1, RvTimeoutStep, DataTimeoutStep, ReceiveStep, RplStep, StutterStep DEF Next
-------------------------------------------------------------------------------
LEMMA AlwaysIInv == Spec => []IInv
  BY InitIInv, Inductive, PTL DEF Spec

(* Every variable keeps its type, the list never outgrows its slots and RPL  *)
(* is asked for a parent only while it has one.                              *)
THEOREM TypeCorrect == Spec => []TypeOK
<1>1. IInv => TypeOK
  BY DEF IInv
<1>2. QED
  BY <1>1, AlwaysIInv, PTL

(* The validation, the loss counter and the negative list stay consistent,   *)
(* whatever the network loses, repeats or delays and whatever RPL does.      *)
THEOREM ClientSafety ==
  Spec => [](ValidationGuarded /\ LossAccounting /\ CondemnedAreBlocked)
<1>1. IInv => ValidationGuarded /\ LossAccounting /\ CondemnedAreBlocked
  BY DEF IInv
<1>2. QED
  BY <1>1, AlwaysIInv, PTL

(* A node is only condemned for a cause of its own: the action property the  *)
(* runs check, from the same invariant.                                      *)
LEMMA CauseOfCondemnation ==
  ASSUME IInv, [Next]_vars, NEW n \in condemned' \ condemned
  PROVE  \/ validatingRoute /\ rvTimer = "due" /\ n = rvParent
         \/ /\ dataTimer /\ ~answered /\ n = lastParent
            /\ 2 * (Len(missed) + 1) > LossThreshold
<1>1. CASE RvTimeout
  <2>1. validatingRoute /\ n = parentValidation /\ rvTimer = "due"
    BY <1>1 DEF RvTimeout, Block, negative
  <2>2. QED
    BY <2>1 DEF IInv, ValidationGuarded
<1>2. ASSUME NEW nbrs \in SUBSET Node, DataTimeoutCondemn(nbrs)
      PROVE  /\ dataTimer /\ ~answered /\ n = lastParent
             /\ 2 * (Len(missed) + 1) > LossThreshold
  <2>1. n = lastParent /\ dataTimer /\ unacked > 0 /\ unacked + 1 > LossThreshold
    BY <1>2 DEF DataTimeoutCondemn, Block, OverThreshold, ResetUnacked
  <2>2. ~answered /\ unacked + 1 = 2 * (Len(missed) + 1)
    BY <2>1, RaisedMeansMissed DEF IInv, TypeOK
  <2>3. QED
    BY <2>1, <2>2
<1>3. CASE condemned' \subseteq condemned
  BY <1>3
<1>4. \/ RvTimeout
      \/ \E nbrs \in SUBSET Node : DataTimeoutCondemn(nbrs)
      \/ condemned' \subseteq condemned
  <2>1. CASE Tick
    BY <2>1 DEF Tick, TickValidate, TickSend, TickParentChanged, TickValidating,
                TickUnreachable, negative, SendDataMessage, RegisterMessageSent,
                StartRouteValidation, ResetUnacked, ClearBlackList
  <2>2. CASE DataTimeout
    BY <2>2 DEF DataTimeout, DataTimeoutAcked, DataTimeoutMissed, negative
  <2>3. CASE Receive
    BY <2>3 DEF Receive, ReceiveBadRvAck, ReceiveRvAck, ReceiveDataAck, negative
  <2>4. CASE \E p \in Node \cup {None}, r \in BOOLEAN : RplUpdate(p, r)
    BY <2>4 DEF RplUpdate, negative
  <2>5. CASE UNCHANGED vars
    BY <2>5 DEF vars, negative
  <2>6. QED
    BY <2>1, <2>2, <2>3, <2>4, <2>5 DEF Next
<1>5. QED
  BY <1>1, <1>2, <1>3, <1>4

THEOREM OnlyForCause == Spec => CondemnedForCause
<1> DEFINE Cause ==
      \A n \in condemned' \ condemned :
        \/ validatingRoute /\ rvTimer = "due" /\ n = rvParent
        \/ /\ dataTimer /\ ~answered /\ n = lastParent
           /\ 2 * (Len(missed) + 1) > LossThreshold
<1>1. IInv /\ [Next]_vars => [Cause]_vars
  BY CauseOfCondemnation
<1>2. QED
  BY <1>1, AlwaysIInv, PTL DEF Spec, CondemnedForCause
-------------------------------------------------------------------------------
(* RPL never moves to a node it has been asked to keep away from, unless the  *)
(* list is full: what CondemnedNeverParentsAgain leaves out is the only way   *)
(* to break it.                                                              *)
RoomKeepsAway ==
  [][Len(blocked) < Slots /\ parent' # parent => parent' \notin condemned]_vars

LEMMA NoCondemnedParent ==
  ASSUME IInv, [Next]_vars, Len(blocked) < Slots, parent' # parent
  PROVE  parent' \notin condemned
<1>1. condemned \subseteq Node /\ NL!Members(blocked) = condemned
  BY DEF IInv, TypeOK, NegativeTypes, CondemnedAreBlocked
<1>2. parent' = None \/ \E p \in Node \cup {None}, r \in BOOLEAN : RplUpdate(p, r)
  <2>1. CASE Tick
    BY <2>1 DEF Tick, TickValidate, TickSend, TickParentChanged, TickValidating,
                TickUnreachable, rpl
  <2>2. CASE RvTimeout
    BY <2>2 DEF RvTimeout, rpl
  <2>3. CASE DataTimeout
    BY <2>3 DEF DataTimeout, DataTimeoutAcked, DataTimeoutMissed, DataTimeoutCondemn, rpl
  <2>4. CASE Receive
    BY <2>4 DEF Receive, ReceiveBadRvAck, ReceiveRvAck, ReceiveDataAck, rpl
  <2>5. CASE UNCHANGED vars
    BY <2>5 DEF vars, rpl
  <2>6. QED
    BY <2>1, <2>2, <2>3, <2>4, <2>5 DEF Next
<1>3. CASE parent' = None
  BY <1>1, <1>3, ClientAssumption
<1>4. ASSUME NEW p \in Node \cup {None}, NEW r \in BOOLEAN, RplUpdate(p, r)
      PROVE  parent' \notin condemned
  BY <1>1, <1>4, ClientAssumption DEF RplUpdate
<1>5. QED
  BY <1>2, <1>3, <1>4

(* While a slot of the negative list is free, a node condemned since the last *)
(* clearing is not taken as parent again, however many copies the list holds  *)
(* of others (dmait-client.c:497-505, rpl-mrhof.c:399-474).                   *)
THEOREM KeptAway == Spec => RoomKeepsAway
<1>1. IInv /\ [Next]_vars
        => [Len(blocked) < Slots /\ parent' # parent => parent' \notin condemned]_vars
  BY NoCondemnedParent
<1>2. QED
  BY <1>1, AlwaysIInv, PTL DEF Spec, RoomKeepsAway
-------------------------------------------------------------------------------
(***************************************************************************)
(* When no answer outlives the tick after its request.                     *)
(***************************************************************************)

(* An RVACK can only be the answer to the current validation, and none can   *)
(* arrive once data has been sent; while data waits for its acknowledgement  *)
(* the route stays valid and the parent it was sent to stays the validated   *)
(* one.                                                                      *)
PromptInv ==
  /\ \A via \in rvSent : via = parentValidation
  /\ rvSent # {} => missed = <<>> /\ ~dataTimer
  /\ dataTimer => hasValidRoute /\ lastParent = parentValidation
  /\ hasValidRoute => \A i \in DOMAIN missed : missed[i] = parentValidation
  /\ ValidatedRouteLeavesByParent
  /\ MissesShareParent
  /\ ArAvoidsCondemnedParent

LEMMA InitPrompt == Init => PromptInv
<1> SUFFICES ASSUME Init PROVE PromptInv
  OBVIOUS
<1>1. missed = <<>> /\ DOMAIN missed = {}
  BY DEF Init
<1>2. QED
  BY <1>1 DEF Init, PromptInv, ValidatedRouteLeavesByParent, MissesShareParent,
              ArAvoidsCondemnedParent

LEMMA TickPrompt ==
  ASSUME ~Late, IInv, PromptInv, Tick
  PROVE  PromptInv'
<1> USE DEF PromptInv, InTransit
<1>1. ArAvoidsCondemnedParent'
  BY DEF Tick, TickValidate, TickSend, TickParentChanged, TickValidating,
         TickUnreachable, ArAvoidsCondemnedParent, NoAr, SendDataMessage,
         RegisterMessageSent, StartRouteValidation, ResetUnacked, ClearBlackList
<1>2. CASE TickValidate
  <2>1. missed' = <<>> /\ DOMAIN missed' = {}
    BY <1>2 DEF TickValidate, StartRouteValidation, ResetUnacked
  <2>2. /\ rvSent' = {parent} /\ parentValidation' = parent
        /\ ~dataTimer' /\ ~hasValidRoute'
    BY <1>2 DEF TickValidate, TickReady, StartRouteValidation, ResetUnacked
  <2>3. QED
    BY <1>1, <2>1, <2>2 DEF ValidatedRouteLeavesByParent, MissesShareParent
<1>3. CASE TickSend
  <2>1. /\ rvSent' = {} /\ lastParent' = parentValidation /\ hasValidRoute'
        /\ UNCHANGED <<parentValidation, validatedRoute, missed>> /\ hasValidRoute
    BY <1>3 DEF TickSend, ParentKept, SendDataMessage, RegisterMessageSent
  <2>2. QED
    BY <1>1, <2>1 DEF ValidatedRouteLeavesByParent, MissesShareParent
<1>4. CASE TickParentChanged \/ TickValidating \/ TickUnreachable
  <2>1. hasValidRoute' => hasValidRoute
    BY <1>4, Zenon DEF TickParentChanged, TickValidating, TickUnreachable, IInv,
                       TypeOK, FlagTypes, ClearBlackList
  <2>2. /\ rvSent' = {} /\ ~dataTimer'
        /\ UNCHANGED <<parentValidation, validatedRoute, missed, lastParent>>
    BY <1>4 DEF TickParentChanged, TickValidating, TickUnreachable, TickReady,
                data, ClearBlackList
  <2>3. QED
    BY <1>1, <2>1, <2>2 DEF ValidatedRouteLeavesByParent, MissesShareParent
<1>5. QED
  BY <1>2, <1>3, <1>4 DEF Tick

LEMMA RvAckPrompt ==
  ASSUME IInv, PromptInv, NEW via \in Node, NEW route \in Route,
         NEW nbrs \in SUBSET Node, ReceiveRvAck(via, route, nbrs)
  PROVE  PromptInv'
<1> USE DEF PromptInv
<1>1. via = parentValidation /\ FirstHop(route) = via /\ missed = <<>> /\ ~dataTimer
  BY DEF ReceiveRvAck
<1>2. parentValidation' = parentValidation
  BY <1>1 DEF ReceiveRvAck, FirstHop
<1>3. FirstHop(validatedRoute') = parentValidation
  <2>1. route \in Seq(Node)
    BY ClientAssumption
  <2>2. QED
    BY <1>1, <2>1, StoredRoute DEF ReceiveRvAck
<1>4. UNCHANGED <<missed, dataTimer, rvSent, lastParent, ar, condemned>>
  BY DEF ReceiveRvAck, data, network, negative
<1>5. DOMAIN missed' = {}
  BY <1>1, <1>4
<1>6. FirstHop(validatedRoute)' = FirstHop(validatedRoute')
  BY DEF FirstHop
<1>7. QED
  BY <1>1, <1>2, <1>3, <1>4, <1>5, <1>6
     DEF ValidatedRouteLeavesByParent, MissesShareParent, ArAvoidsCondemnedParent, NoAr

LEMMA DataTimeoutPrompt ==
  ASSUME IInv, PromptInv, DataTimeout
  PROVE  PromptInv'
<1> USE DEF PromptInv
<1>1. /\ dataTimer /\ hasValidRoute /\ lastParent = parentValidation /\ rvSent = {}
      /\ ~dataTimer'
      /\ UNCHANGED <<hasValidRoute, parentValidation, validatedRoute, lastParent, rvSent>>
  BY DEF DataTimeout, DataTimeoutAcked, DataTimeoutMissed, DataTimeoutCondemn,
         ResetUnacked, validation, network
<1>2. ValidatedRouteLeavesByParent'
  BY <1>1 DEF ValidatedRouteLeavesByParent, FirstHop
<1>3. \A i \in DOMAIN missed' : missed'[i] = parentValidation
  <2>1. missed \in Seq(Node) /\ lastParent \in Node
    BY <1>1 DEF IInv, TypeOK, DataTypes, AddressesWritten
  <2>2. missed' = missed \/ missed' = <<>> \/ missed' = Append(missed, parentValidation)
    BY <1>1 DEF DataTimeout, DataTimeoutAcked, DataTimeoutMissed, DataTimeoutCondemn,
                Missed, ResetUnacked
  <2>3. CASE missed' = missed
    BY <1>1, <2>3
  <2>4. CASE missed' = <<>>
    BY <2>4
  <2>5. CASE missed' = Append(missed, parentValidation)
    <3>1. /\ DOMAIN missed = 1 .. Len(missed) /\ Len(missed) \in Nat
          /\ DOMAIN missed' = 1 .. Len(missed) + 1
          /\ \A i \in 1 .. Len(missed) : missed'[i] = missed[i]
          /\ missed'[Len(missed) + 1] = parentValidation
      BY <1>1, <2>1, <2>5
    <3>2. QED
      BY <1>1, <3>1
  <2>6. QED
    BY <2>2, <2>3, <2>4, <2>5
<1>4. ArAvoidsCondemnedParent'
  <2>1. CASE UNCHANGED ar
    <3>1. condemned \subseteq condemned'
      BY DEF DataTimeout, DataTimeoutAcked, DataTimeoutMissed, DataTimeoutCondemn,
             Block, negative, ResetUnacked
    <3>2. QED
      BY <1>1, <2>1, <3>1 DEF ArAvoidsCondemnedParent, NoAr
  <2>2. ASSUME NEW nbrs \in SUBSET Node, DataTimeoutCondemn(nbrs), ~UNCHANGED ar
        PROVE  ArAvoidsCondemnedParent'
    <3>1. ar'.avoid = validatedRoute /\ validatedRoute # <<>>
      BY <2>2 DEF DataTimeoutCondemn, StartAvoidRoute, ResetUnacked, Suitable
    <3>2. Head(validatedRoute) = lastParent
      BY <1>1, <3>1 DEF ValidatedRouteLeavesByParent, FirstHop
    <3>3. lastParent \in condemned'
      BY <2>2 DEF DataTimeoutCondemn, Block, ResetUnacked
    <3>4. QED
      BY <1>1, <3>1, <3>2, <3>3 DEF ArAvoidsCondemnedParent
  <2>3. QED
    BY <2>1, <2>2 DEF DataTimeout, DataTimeoutAcked, DataTimeoutMissed, network
<1>5. QED
  BY <1>1, <1>2, <1>3, <1>4 DEF MissesShareParent

LEMMA OtherPrompt ==
  ASSUME IInv, PromptInv,
         \/ RvTimeout
         \/ \E via \in Node : ReceiveBadRvAck(via)
         \/ \E seq \in 0 .. SeqMod - 1 : ReceiveDataAck(seq)
         \/ \E p \in Node \cup {None}, r \in BOOLEAN : RplUpdate(p, r)
         \/ UNCHANGED vars
  PROVE  PromptInv'
<1> USE DEF PromptInv
<1>1. /\ UNCHANGED <<hasValidRoute, parentValidation, validatedRoute, lastParent,
                     dataTimer, rvSent, ar>>
      /\ missed' = missed \/ missed' = <<>>
      /\ condemned \subseteq condemned'
  BY DEF RvTimeout, Block, ReceiveBadRvAck, ReceiveDataAck, RplUpdate, vars,
         validation, data, network, negative
<1>2. ValidatedRouteLeavesByParent'
  BY <1>1 DEF ValidatedRouteLeavesByParent, FirstHop
<1>3. ArAvoidsCondemnedParent'
  BY <1>1 DEF ArAvoidsCondemnedParent, NoAr
<1>4. /\ MissesShareParent'
      /\ hasValidRoute' => \A i \in DOMAIN missed' : missed'[i] = parentValidation'
  <2>1. CASE missed' = missed
    BY <1>1, <2>1 DEF MissesShareParent
  <2>2. CASE missed' = <<>>
    BY <2>2 DEF MissesShareParent
  <2>3. QED
    BY <1>1, <2>1, <2>2
<1>5. QED
  BY <1>1, <1>2, <1>3, <1>4

(* While answers arrive before the next tick, data travels over the route    *)
(* that was validated, a parent is condemned for its own losses only, and    *)
(* an AR names the route through the parent just condemned.                  *)
THEOREM PromptSafety ==
  ASSUME ~Late
  PROVE  Spec => [](/\ ValidatedRouteLeavesByParent
                    /\ MissesShareParent
                    /\ ArAvoidsCondemnedParent)
<1>1. IInv /\ PromptInv /\ [Next]_vars => PromptInv'
  BY TickPrompt, RvAckPrompt, DataTimeoutPrompt, OtherPrompt DEF Next, Receive
<1>2. PromptInv => /\ ValidatedRouteLeavesByParent
                   /\ MissesShareParent
                   /\ ArAvoidsCondemnedParent
  BY DEF PromptInv
<1>3. QED
  BY <1>1, <1>2, InitPrompt, AlwaysIInv, PTL DEF Spec

(* A data message leaves by the parent that the validated route leaves by,    *)
(* and that parent is the one its loss will be charged to.                   *)
DataFollowsRoute ==
  [][dataTimer' /\ ~dataTimer =>
       /\ FirstHop(validatedRoute) = parent
       /\ lastParent' = parent]_vars

(* While answers arrive before the next tick, no data is sent over a route    *)
(* that was not validated, although RPL may change the parent at any moment   *)
(* between validation and sending (dmait-client.c:575-598,                   *)
(* dmait-client-logic.c:385-460).                                            *)
THEOREM DataIsValidated ==
  ASSUME ~Late
  PROVE  Spec => DataFollowsRoute
<1>1. ASSUME ValidatedRouteLeavesByParent, [Next]_vars, dataTimer', ~dataTimer
      PROVE  FirstHop(validatedRoute) = parent /\ lastParent' = parent
  <2>1. TickSend
    <3>1. CASE Tick
      BY <1>1, <3>1 DEF Tick, TickValidate, TickParentChanged, TickValidating,
                        TickUnreachable, data
    <3>2. CASE RvTimeout \/ DataTimeout \/ Receive
      BY <1>1, <3>2 DEF RvTimeout, DataTimeout, DataTimeoutAcked, DataTimeoutMissed,
         DataTimeoutCondemn, Receive, ReceiveBadRvAck, ReceiveRvAck, ReceiveDataAck, data
    <3>3. CASE (\E p \in Node \cup {None}, r \in BOOLEAN : RplUpdate(p, r)) \/ UNCHANGED vars
      BY <1>1, <3>3 DEF RplUpdate, vars, data
    <3>4. QED
      BY <1>1, <3>1, <3>2, <3>3 DEF Next
  <2>2. QED
    BY <1>1, <2>1 DEF TickSend, ParentKept, SendDataMessage, RegisterMessageSent,
                      ValidatedRouteLeavesByParent
<1>2. ValidatedRouteLeavesByParent /\ [Next]_vars
        => [dataTimer' /\ ~dataTimer =>
              FirstHop(validatedRoute) = parent /\ lastParent' = parent]_vars
  BY <1>1
<1>3. Spec => [](/\ ValidatedRouteLeavesByParent
                 /\ MissesShareParent
                 /\ ArAvoidsCondemnedParent)
  BY PromptSafety
<1>4. QED
  BY <1>2, <1>3, PTL DEF Spec, DataFollowsRoute
===============================================================================
