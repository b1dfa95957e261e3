-------------------------- MODULE NegativeListProofs --------------------------
(***************************************************************************)
(* Proofs about NegativeList for every length of the array: it implements  *)
(* BlockedNodes.  The argument is that slots and blocks are always taken   *)
(* in order and given back all at once, so the first n slots point to the  *)
(* first n blocks.                                                         *)
(***************************************************************************)
EXTENDS NegativeList, Sequences, TLAPS, FiniteSetTheorems

LEMMA SlotsNat == Slots \in Nat /\ 1 <= Slots /\ Null \notin Slot
  BY NegativeListAssumption DEF Slot

(* The least element of a set of numbers is what FirstOf chooses. *)
LEMMA FirstIs ==
  ASSUME NEW S \in SUBSET Nat, NEW m \in S, \A y \in S : m <= y
  PROVE  FirstOf(S) = m
<1>1. \E x \in S : \A y \in S : x <= y
  OBVIOUS
<1>2. FirstOf(S) \in S /\ \A y \in S : FirstOf(S) <= y
  BY <1>1 DEF FirstOf
<1>3. FirstOf(S) \in Nat /\ m \in Nat /\ FirstOf(S) <= m /\ m <= FirstOf(S)
  BY <1>2
<1>4. QED
  BY <1>3

(* The array with its first n slots taken. *)
Prefix(n) == [x \in Slot |-> IF x <= n THEN x ELSE Null]

Filled(n) ==
  /\ used = 1 .. n
  /\ negativelist = Prefix(n)
  /\ ~initialized => n = 0

IInv ==
  /\ initialized \in BOOLEAN
  /\ content \in [Block -> Node]
  /\ \E n \in 0 .. Slots : Filled(n)

(* What the operations start from, and the list it stands for. *)
LEMMA Start ==
  ASSUME NEW n \in 0 .. Slots, Filled(n)
  PROVE  /\ CheckedUsed = 1 .. n
         /\ CheckedList = Prefix(n)
         /\ FreeSlots = n + 1 .. Slots
<1>1. CheckedUsed = 1 .. n
  BY DEF CheckedUsed, Filled
<1>2. CheckedList = Prefix(n)
  <2>1. CASE initialized
    BY <2>1 DEF CheckedList, Filled
  <2>2. CASE ~initialized
    <3>1. n = 0
      BY <2>2 DEF Filled
    <3>2. Empty = Prefix(0)
      BY SlotsNat DEF Empty, Prefix, Slot
    <3>3. QED
      BY <2>2, <3>1, <3>2 DEF CheckedList
  <2>3. QED
    BY <2>1, <2>2
<1>3. \A x \in Slot : Prefix(n)[x] = Null <=> n < x
  BY SlotsNat DEF Prefix, Slot
<1>4. FreeSlots = {x \in Slot : n < x}
  BY <1>2, <1>3 DEF FreeSlots
<1>5. QED
  BY <1>1, <1>2, <1>4, SlotsNat DEF Slot

LEMMA ListIs ==
  ASSUME NEW n \in 0 .. Slots, Filled(n)
  PROVE  List = [x \in 1 .. n |-> content[x]]
<1>1. \A x \in Slot : negativelist[x] # Null <=> x <= n
  BY SlotsNat DEF Filled, Prefix, Slot
<1>2. Occupied = 1 .. n
  BY <1>1, SlotsNat DEF Occupied, Slot
<1>3. Cardinality(Occupied) = n
  BY <1>2, FS_Interval
<1>4. \A x \in 1 .. n : negativelist[x] = x
  BY SlotsNat DEF Filled, Prefix, Slot
<1>5. QED
  BY <1>3, <1>4 DEF List
(* The same of the next state. *)
LEMMA SameListIs ==
  ASSUME NEW n \in 0 .. Slots, Filled(n)'
  PROVE  List' = [x \in 1 .. n |-> content'[x]]
<1>1. \A x \in Slot : negativelist'[x] # Null <=> x <= n
  BY SlotsNat DEF Filled, Prefix, Slot
<1>2. Occupied' = 1 .. n
  BY <1>1, SlotsNat DEF Occupied, Slot
<1>3. Cardinality(Occupied') = n
  BY <1>2, FS_Interval
<1>4. \A x \in 1 .. n : negativelist'[x] = x
  BY SlotsNat DEF Filled, Prefix, Slot
<1>5. QED
  BY <1>3, <1>4 DEF List
-------------------------------------------------------------------------------
LEMMA InitIInv == Init => IInv
<1> SUFFICES ASSUME Init PROVE IInv
  OBVIOUS
<1>1. Empty = Prefix(0)
  BY SlotsNat DEF Empty, Prefix, Slot
<1>2. Filled(0)
  BY <1>1 DEF Init, Filled
<1>3. initialized \in BOOLEAN /\ content \in [Block -> Node]
  BY DEF Init
<1>4. \E n \in 0 .. Slots : Filled(n)
  BY <1>2, SlotsNat
<1>5. QED
  BY <1>3, <1>4 DEF IInv

(* What a call of addNodeToNegativeList leaves behind when there is room,    *)
(* and when there is none.                                                   *)
LEMMA AddRoom ==
  ASSUME NEW n \in 0 .. Slots, Filled(n), content \in [Block -> Node],
         NEW lladdr \in Node, AddNodeToNegativeList(lladdr), n < Slots
  PROVE  Filled(n + 1)' /\ content' = [content EXCEPT ![n + 1] = lladdr]
<1>1. n + 1 \in FreeSlots /\ FirstOf(FreeSlots) = n + 1
  <2>1. FreeSlots = n + 1 .. Slots
    BY Start
  <2>2. n + 1 \in FreeSlots /\ FreeSlots \in SUBSET Nat /\ \A y \in FreeSlots : n + 1 <= y
    BY <2>1, SlotsNat
  <2>3. QED
    BY <2>2, FirstIs
<1>2. CheckedUsed # Block /\ FirstOf(Block \ CheckedUsed) = n + 1
  <2>1. CheckedUsed = 1 .. n
    BY Start
  <2>2. /\ n + 1 \in Block \ CheckedUsed /\ Block \ CheckedUsed \in SUBSET Nat
        /\ \A y \in Block \ CheckedUsed : n + 1 <= y
    BY <2>1, SlotsNat DEF Block
  <2>3. QED
    BY <2>2, FirstIs
<1>3. ~Refused(lladdr)
  BY NegativeListAssumption DEF Refused
<1>4. /\ initialized'
      /\ negativelist' = [CheckedList EXCEPT ![n + 1] = n + 1]
      /\ used' = CheckedUsed \cup {n + 1}
      /\ content' = [content EXCEPT ![n + 1] = lladdr]
  BY <1>1, <1>2, <1>3 DEF AddNodeToNegativeList
<1>5. negativelist' = Prefix(n + 1)
  <2>1. CheckedList = Prefix(n)
    BY Start
  <2>2. [Prefix(n) EXCEPT ![n + 1] = n + 1] = Prefix(n + 1)
    <3>1. n + 1 \in Slot /\ \A x \in Slot : x <= n + 1 <=> x <= n \/ x = n + 1
      BY SlotsNat DEF Slot
    <3>2. \A x \in Slot : [Prefix(n) EXCEPT ![n + 1] = n + 1][x]
                           = IF x <= n + 1 THEN x ELSE Null
      BY <3>1 DEF Prefix
    <3>3. QED
      BY <3>2 DEF Prefix
  <2>3. QED
    BY <1>4, <2>1, <2>2
<1>6. used' = 1 .. n + 1
  BY <1>4, Start, SlotsNat
<1>7. QED
  BY <1>4, <1>5, <1>6 DEF Filled

LEMMA AddNoRoom ==
  ASSUME NEW n \in 0 .. Slots, Filled(n), NEW lladdr \in Node \cup {Null},
         AddNodeToNegativeList(lladdr), n = Slots \/ lladdr = Null
  PROVE  Filled(n)' /\ content' = content
<1>1. Refused(lladdr) \/ FreeSlots = {}
  BY Start, SlotsNat DEF Refused
<1>2. /\ initialized' /\ negativelist' = CheckedList /\ used' = CheckedUsed
      /\ content' = content
  BY <1>1 DEF AddNodeToNegativeList
<1>3. QED
  BY <1>2, Start DEF Filled

LEMMA AskKeeps ==
  ASSUME NEW n \in 0 .. Slots, Filled(n), NEW lladdr \in Node \cup {Null}, Ask(lladdr)
  PROVE  Filled(n)' /\ content' = content /\ initialized'
  BY Start DEF Ask, Filled

LEMMA ClearEmpties ==
  ASSUME NEW n \in 0 .. Slots, Filled(n), ClearNegativeList
  PROVE  Filled(0)' /\ content' = content /\ initialized'
<1>1. \A x \in 1 .. n : CheckedList[x] = x
  BY Start, SlotsNat DEF Prefix, Slot
<1>2. Slot \ FreeSlots = 1 .. n
  BY Start, SlotsNat DEF Slot
<1>3. Freed = 1 .. n
  BY <1>1, <1>2 DEF Freed
<1>4. used' = {} /\ content' = content /\ initialized' /\ negativelist' = Empty
  BY <1>3, Start DEF ClearNegativeList
<1>5. Empty = Prefix(0)
  BY SlotsNat DEF Empty, Prefix, Slot
<1>6. QED
  BY <1>4, <1>5 DEF Filled

(* Every step takes a filled prefix to a filled prefix. *)
LEMMA Inductive == IInv /\ [Next]_vars => IInv'
<1> SUFFICES ASSUME IInv, [Next]_vars PROVE IInv'
  OBVIOUS
<1>1. PICK n \in 0 .. Slots : Filled(n)
  BY DEF IInv
<1>2. content \in [Block -> Node]
  BY DEF IInv
<1>3. ASSUME NEW lladdr \in Node \cup {Null}, Ask(lladdr) PROVE IInv'
  BY <1>1, <1>2, <1>3, AskKeeps DEF IInv
<1>4. ASSUME NEW lladdr \in Node \cup {Null}, AddNodeToNegativeList(lladdr) PROVE IInv'
  <2>1. initialized'
    BY <1>4 DEF AddNodeToNegativeList
  <2>2. CASE n = Slots \/ lladdr = Null
    <3>1. Filled(n)' /\ content' = content
      BY <1>1, <1>4, <2>2, AddNoRoom
    <3>2. QED
      BY <1>1, <1>2, <2>1, <3>1 DEF IInv
  <2>3. CASE n # Slots /\ lladdr # Null
    <3>1. n < Slots /\ lladdr \in Node
      BY <1>1, <2>3, SlotsNat
    <3>2. Filled(n + 1)' /\ content' = [content EXCEPT ![n + 1] = lladdr]
      BY <1>1, <1>2, <1>4, <3>1, AddRoom
    <3>3. n + 1 \in 0 .. Slots
      BY <1>1, <3>1, SlotsNat
    <3>4. content' \in [Block -> Node]
      BY <1>2, <3>1, <3>2
    <3>5. QED
      BY <2>1, <3>2, <3>3, <3>4 DEF IInv
  <2>4. QED
    BY <2>2, <2>3
<1>5. CASE ClearNegativeList
  <2>1. Filled(0)' /\ content' = content /\ initialized'
    BY <1>1, <1>5, ClearEmpties
  <2>2. 0 \in 0 .. Slots
    BY SlotsNat
  <2>3. QED
    BY <1>2, <2>1, <2>2 DEF IInv
<1>6. CASE UNCHANGED vars
  BY <1>6 DEF vars, IInv, Filled
<1>7. QED
  BY <1>3, <1>4, <1>5, <1>6 DEF Next

LEMMA AlwaysIInv == Spec => []IInv
  BY InitIInv, Inductive, PTL DEF Spec

(* The values the runs call well typed are the only ones, and the pool and   *)
(* the array never disagree on who owns a block.                             *)
THEOREM ListSafety == Spec => [](TypeOK /\ BlocksOwned)
<1>1. IInv => TypeOK /\ BlocksOwned
  <2> SUFFICES ASSUME IInv PROVE TypeOK /\ BlocksOwned
    OBVIOUS
  <2>1. PICK n \in 0 .. Slots : Filled(n)
    BY DEF IInv
  <2>2. negativelist \in [Slot -> Block \cup {Null}] /\ used \subseteq Block
    BY <2>1, SlotsNat DEF Filled, Prefix, Slot, Block
  <2>3. used = {negativelist[x] : x \in Slot} \ {Null}
    <3>1. \A x \in Slot : negativelist[x] = IF x <= n THEN x ELSE Null
      BY <2>1 DEF Filled, Prefix
    <3>2. 1 .. n \subseteq Slot
      BY SlotsNat DEF Slot
    <3>3. \A v \in {negativelist[x] : x \in Slot} \ {Null} : v \in 1 .. n
      BY <3>1, SlotsNat DEF Slot
    <3>4. \A v \in 1 .. n : v \in {negativelist[x] : x \in Slot} \ {Null}
      BY <3>1, <3>2, SlotsNat
    <3>5. QED
      BY <2>1, <3>3, <3>4 DEF Filled
  <2>4. \A x, y \in Slot : negativelist[x] = negativelist[y] /\ negativelist[x] # Null => x = y
    BY <2>1, SlotsNat DEF Filled, Prefix, Slot
  <2>5. QED
    BY <2>2, <2>3, <2>4 DEF IInv, TypeOK, BlocksOwned
<1>2. QED
  BY <1>1, AlwaysIInv, PTL
-------------------------------------------------------------------------------
(* One step of the array is one step of the list it stands for, or none. *)
LEMMA StepImplements ==
  ASSUME IInv, IInv', [Next]_vars
  PROVE  [Abstract!BlockedNext]_List
<1>1. PICK n \in 0 .. Slots : Filled(n)
  BY DEF IInv
<1>2. List = [x \in 1 .. n |-> content[x]]
  BY <1>1, ListIs
<1>3. ASSUME Filled(n)', content' = content PROVE List' = List
  <2>1. List' = [x \in 1 .. n |-> content'[x]]
    BY <1>3, SameListIs
  <2>2. QED
    BY <1>2, <1>3, <2>1
<1>4. ASSUME NEW lladdr \in Node \cup {Null}, Ask(lladdr) PROVE List' = List
  BY <1>1, <1>3, <1>4, AskKeeps
<1>5. ASSUME NEW lladdr \in Node \cup {Null}, AddNodeToNegativeList(lladdr)
      PROVE  List' = List \/ \E node \in Node : Abstract!Add(node)
  <2>1. CASE n = Slots \/ lladdr = Null
    BY <1>1, <1>3, <1>5, <2>1, AddNoRoom
  <2>2. CASE n # Slots /\ lladdr # Null
    <3>1. n < Slots /\ lladdr \in Node /\ n + 1 \in 0 .. Slots
      BY <1>1, <2>2, SlotsNat
    <3>2. content \in [Block -> Node]
      BY DEF IInv
    <3>3. Filled(n + 1)' /\ content' = [content EXCEPT ![n + 1] = lladdr]
      BY <1>1, <1>5, <3>1, <3>2, AddRoom
    <3>4. List' = [x \in 1 .. n + 1 |-> content'[x]]
      BY <3>1, <3>3, SameListIs
    <3>5. List \in Seq(Node) /\ Len(List) = n
      <4>1. \A x \in 1 .. n : content[x] \in Node
        BY <3>2, SlotsNat DEF Block
      <4>2. QED
        BY <1>2, <4>1, SlotsNat
    <3>6. Append(List, lladdr) = [x \in 1 .. n + 1 |-> content'[x]]
      <4>1. n + 1 \in Block /\ 1 .. n \subseteq Block
        BY <3>1, SlotsNat DEF Block
      <4>2. content'[n + 1] = lladdr /\ \A x \in 1 .. n : content'[x] = content[x]
        BY <3>2, <3>3, <4>1
      <4>3. QED
        BY <1>2, <3>1, <3>5, <4>2
    <3>7. Abstract!Add(lladdr)
      BY <3>1, <3>4, <3>5, <3>6 DEF Abstract!Add, Abstract!Added
    <3>8. QED
      BY <3>1, <3>7
  <2>3. QED
    BY <2>1, <2>2
<1>6. ASSUME ClearNegativeList PROVE Abstract!Clear
  <2>1. Filled(0)' /\ 0 \in 0 .. Slots
    BY <1>1, <1>6, ClearEmpties, SlotsNat
  <2>2. List' = [x \in 1 .. 0 |-> content'[x]]
    BY <2>1, SameListIs
  <2>3. QED
    BY <2>2 DEF Abstract!Clear
<1>7. CASE UNCHANGED vars
  BY <1>7 DEF vars, List, Occupied
<1>8. QED
  BY <1>4, <1>5, <1>6, <1>7 DEF Next, Abstract!BlockedNext

(* A query finds exactly the members of the list. *)
LEMMA QueryImplements ==
  ASSUME IInv
  PROVE  \A node \in Node : IsNodeInNegativeList(node) <=> node \in Abstract!Members(List)
<1>1. PICK n \in 0 .. Slots : Filled(n)
  BY DEF IInv
<1>2. List = [x \in 1 .. n |-> content[x]] /\ DOMAIN List = 1 .. n
  BY <1>1, ListIs
<1>3. \A x \in Slot : CheckedList[x] = IF x <= n THEN x ELSE Null
  BY <1>1, Start DEF Prefix
<1>4. ASSUME NEW node \in Node
      PROVE  IsNodeInNegativeList(node) <=> \E x \in 1 .. n : content[x] = node
  BY <1>1, <1>3, SlotsNat DEF IsNodeInNegativeList, Slot
<1>5. QED
  BY <1>2, <1>4 DEF Abstract!Members

(* The array of pointers and its pool implement the bounded list that the    *)
(* client's model relies on: every call of add appends to it or finds it     *)
(* full, every clear empties it, and membership is what a query answers.     *)
THEOREM ListImplements == Spec => ImplementsList
<1>1. Init => Abstract!BlockedInit
  <2> SUFFICES ASSUME Init PROVE Abstract!BlockedInit
    OBVIOUS
  <2>1. Occupied = {}
    BY DEF Init, Occupied, Empty
  <2>2. Cardinality(Occupied) = 0
    BY <2>1, FS_EmptySet
  <2>3. QED
    BY <2>2 DEF List, Abstract!BlockedInit
<1>2. IInv /\ IInv' /\ [Next]_vars => [Abstract!BlockedNext]_List
  BY StepImplements
<1> DEFINE Found ==
      \A n \in Node : IsNodeInNegativeList(n) <=> n \in Abstract!Members(List)
<1>3. IInv => [Found]_vars
  BY QueryImplements
<1>4. QED
  BY <1>1, <1>2, <1>3, AlwaysIInv, PTL DEF Spec, ImplementsList, Abstract!BlockedSpec
===============================================================================
