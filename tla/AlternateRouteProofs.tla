------------------------- MODULE AlternateRouteProofs -------------------------
(***************************************************************************)
(* Proofs about AlternateRoute for every set of nodes, every neighbourhood, *)
(* every set of routes to avoid and every bound on ARs and copies.          *)
(***************************************************************************)
EXTENDS AlternateRoute, TLAPS, SequenceTheorems, FiniteSetTheorems

(* The target of the i-th node an AR came through. *)
Onward(ar, i) == Append(ar.route, ar.to)[i + 1]

(* What the i-th node had to keep away from. *)
Before(ar, i) == Members(ar.avoid) \cup {ar.route[j] : j \in 1 .. i - 1}

NoRepeat(seq) == \A i, j \in DOMAIN seq : seq[i] = seq[j] => i = j

Path(ar) ==
  /\ ar.route # <<>>
  /\ \A i \in 1 .. Len(ar.route) - 1 : ar.route[i + 1] \in Link[ar.route[i]]
  /\ ar.to \in Link[ar.route[Len(ar.route)]]

Detour(ar) ==
  \A i \in DOMAIN ar.route :
    Onward(ar, i) \in Before(ar, i) => Link[ar.route[i]] \subseteq Before(ar, i)

(* The safety invariants, for one AR. *)
Good(ar, fixed) ==
  /\ ar \in Ar
  /\ NoRepeat(ar.route)
  /\ Path(ar)
  /\ fixed => Detour(ar)

Counted ==
  /\ halted \subseteq Node /\ steady \in BOOLEAN
  /\ started \in 0 .. MaxStart /\ copies \in 0 .. MaxCopies

IInv == Counted /\ \A ar \in ars : Good(ar, steady)
-------------------------------------------------------------------------------
(* The invariant is what the runs check. *)
LEMMA IInvImplies ==
  IInv => TypeOK /\ NoNodeTwice /\ RouteIsPath /\ DetourFirst
<1> SUFFICES ASSUME IInv PROVE TypeOK /\ NoNodeTwice /\ RouteIsPath /\ DetourFirst
  OBVIOUS
<1>1. TypeOK
  BY DEF IInv, Good, Counted, TypeOK
<1>2. NoNodeTwice
  BY DEF IInv, Good, NoRepeat, NoNodeTwice
<1>3. RouteIsPath
  BY DEF IInv, Good, Path, RouteIsPath
<1>4. DetourFirst
  BY DEF IInv, Good, Detour, Onward, Before, DetourFirst
<1>5. QED
  BY <1>1, <1>2, <1>3, <1>4

(* A node that has joined sends to a node it may hear, and with a steady      *)
(* table to one of the array only if all its neighbours are in the array.    *)
LEMMA HopFacts ==
  ASSUME NEW node \in Node, NEW array, NEW hop \in Hops(node, array), hop.joined
  PROVE  /\ hop.to \in Link[node]
         /\ steady => (hop.to \in array => Link[node] \subseteq array)
<1>1. PICK view \in Views(node) :
        hop \in {[to |-> to, joined |-> view.parent # None] :
                   to \in Targets(view.nbrs, array, view.parent)}
  BY DEF Hops
<1>2. PICK to \in Targets(view.nbrs, array, view.parent) :
        hop = [to |-> to, joined |-> view.parent # None]
  BY <1>1
<1>3. /\ view.nbrs \subseteq Link[node]
      /\ view.parent \in view.nbrs
      /\ steady => view.nbrs = Link[node]
  BY <1>2 DEF Views
<1>4. hop.to = to
  BY <1>2
<1>5. CASE view.nbrs \subseteq array
  <2>1. to = view.parent
    BY <1>5 DEF Targets
  <2>2. QED
    BY <2>1, <1>3, <1>4, <1>5
<1>6. CASE ~(view.nbrs \subseteq array)
  <2>1. to \in view.nbrs \ array
    BY <1>6 DEF Targets
  <2>2. QED
    BY <2>1, <1>3, <1>4
<1>7. QED
  BY <1>5, <1>6

LEMMA ArFacts ==
  ASSUME NEW ar \in Ar
  PROVE  /\ ar.route \in Seq(Node) /\ Len(ar.route) \in Nat
         /\ DOMAIN ar.route = 1 .. Len(ar.route)
         /\ \A i \in 1 .. Len(ar.route) : ar.route[i] \in Node
         /\ ar.avoid \in AvoidRoute
         /\ ar.to \in Node \cup {Root}
<1>1. ar.route \in Seq(Node) /\ ar.avoid \in AvoidRoute /\ ar.to \in Node \cup {Root}
  BY DEF Ar
<1>2. QED
  BY <1>1, LenProperties, ElementOfSeq

(* The target of a node is the next node of the route, of the last the AR's. *)
LEMMA OnwardFacts ==
  ASSUME NEW ar \in Ar
  PROVE  /\ \A i \in 1 .. Len(ar.route) - 1 : Onward(ar, i) = ar.route[i + 1]
         /\ Onward(ar, Len(ar.route)) = ar.to
<1>1. ar.route \in Seq(Node \cup {Root}) /\ ar.to \in Node \cup {Root} /\ Len(ar.route) \in Nat
  BY ArFacts
<1>2. /\ \A i \in 1 .. Len(ar.route) : Append(ar.route, ar.to)[i] = ar.route[i]
      /\ Append(ar.route, ar.to)[Len(ar.route) + 1] = ar.to
  BY <1>1, AppendProperties
<1>3. QED
  BY <1>1, <1>2 DEF Onward

(* A fresh AR is good. *)
LEMMA StartGood ==
  ASSUME NEW node \in Node, NEW avoid \in AvoidRoute,
         NEW hop \in Hops(node, Members(avoid)), hop.joined
  PROVE  Good([avoid |-> avoid, route |-> <<node>>, to |-> hop.to], steady)
<1> DEFINE ar == [avoid |-> avoid, route |-> <<node>>, to |-> hop.to]
<1>1. /\ hop.to \in Link[node]
      /\ steady => (hop.to \in Members(avoid) => Link[node] \subseteq Members(avoid))
  BY HopFacts
<1>2. hop.to \in Node \cup {Root}
  BY <1>1, AlternateRouteAssumption
<1>3. ar \in Ar
  BY <1>2 DEF Ar
<1>4. ar.route = <<node>> /\ Len(ar.route) = 1 /\ DOMAIN ar.route = {1} /\ ar.route[1] = node
  OBVIOUS
<1>5. ar.to = hop.to /\ ar.avoid = avoid
  OBVIOUS
<1> HIDE DEF ar
<1>6. Onward(ar, 1) = hop.to
  BY <1>3, <1>4, <1>5, OnwardFacts
<1>7. Before(ar, 1) = Members(avoid)
  BY <1>4, <1>5 DEF Before
<1>8. NoRepeat(ar.route)
  BY <1>4 DEF NoRepeat
<1>9. Path(ar)
  BY <1>1, <1>4, <1>5 DEF Path
<1>10. steady => Detour(ar)
  BY <1>1, <1>4, <1>6, <1>7 DEF Detour
<1>11. Good(ar, steady)
  BY <1>3, <1>8, <1>9, <1>10 DEF Good
<1>12. QED
  BY <1>11 DEF ar

(* A relay sends a good AR on as a good AR. *)
LEMMA RelayGood ==
  ASSUME NEW ar, Good(ar, steady), ar.to \in Node, ~IsCycle(ar),
         NEW hop \in Hops(ar.to, Excluded(ar)), hop.joined
  PROVE  Good([Extended(ar) EXCEPT !.to = hop.to], steady)
<1> DEFINE new == [Extended(ar) EXCEPT !.to = hop.to]
           len == Len(ar.route)
<1>1. /\ hop.to \in Link[ar.to]
      /\ steady => (hop.to \in Excluded(ar) => Link[ar.to] \subseteq Excluded(ar))
  BY HopFacts
<1>2. ar \in Ar
  BY DEF Good
<1>3. /\ new.route = Append(ar.route, ar.to)
      /\ new.to = hop.to /\ new.avoid = ar.avoid
      /\ new = [avoid |-> ar.avoid, route |-> Append(ar.route, ar.to), to |-> hop.to]
  <2> DEFINE grown == Append(ar.route, ar.to)
  <2>1. Extended(ar) = [ar EXCEPT !.route = grown]
    BY DEF Extended
  <2> HIDE DEF grown
  <2>2. ar = [avoid |-> ar.avoid, route |-> ar.route, to |-> ar.to]
    BY <1>2 DEF Ar
  <2>3. Extended(ar) = [avoid |-> ar.avoid, route |-> grown, to |-> ar.to]
    BY <2>1, <2>2
  <2>4. new = [avoid |-> ar.avoid, route |-> grown, to |-> hop.to]
    BY <2>3
  <2>5. new.route = grown /\ new.to = hop.to /\ new.avoid = ar.avoid
    BY <2>4
  <2>6. QED
    BY <2>4, <2>5 DEF grown
<1>4. /\ ar.route \in Seq(Node) /\ len \in Nat /\ DOMAIN ar.route = 1 .. len
      /\ \A i \in 1 .. len : ar.route[i] \in Node
  BY <1>2, ArFacts
<1>5. /\ new.route \in Seq(Node) /\ Len(new.route) = len + 1
      /\ new.route # <<>>
      /\ \A i \in 1 .. len : new.route[i] = ar.route[i]
      /\ new.route[len + 1] = ar.to
  <2> DEFINE grown == Append(ar.route, ar.to)
  <2>1. /\ grown \in Seq(Node) /\ Len(grown) = len + 1 /\ grown # <<>>
        /\ \A i \in 1 .. len : grown[i] = ar.route[i]
        /\ grown[len + 1] = ar.to
    BY <1>4, AppendProperties
  <2>2. new.route = grown
    BY <1>3
  <2> HIDE DEF grown, new
  <2>3. QED
    BY <2>1, <2>2
<1>6. new \in Ar
  BY <1>1, <1>2, <1>3, <1>5, AlternateRouteAssumption DEF Ar
<1> HIDE DEF new
<1>7. DOMAIN new.route = 1 .. len + 1
  BY <1>5, LenProperties
<1>8. ar.to \notin Members(ar.route)
  BY DEF IsCycle
<1>9. NoRepeat(new.route)
  <2> SUFFICES ASSUME NEW i \in 1 .. len + 1, NEW j \in 1 .. len + 1,
                      new.route[i] = new.route[j]
               PROVE  i = j
    BY <1>7 DEF NoRepeat
  <2>1. CASE i \in 1 .. len /\ j \in 1 .. len
    BY <2>1, <1>4, <1>5 DEF Good, NoRepeat
  <2>2. CASE i = len + 1 /\ j \in 1 .. len
    BY <2>2, <1>4, <1>5, <1>8 DEF Members
  <2>3. CASE j = len + 1 /\ i \in 1 .. len
    BY <2>3, <1>4, <1>5, <1>8 DEF Members
  <2>4. QED
    BY <2>1, <2>2, <2>3, <1>4
<1>10. Path(ar)
  BY DEF Good
<1>11. len > 0
  BY <1>4, <1>10, EmptySeq DEF Path
<1>12. Path(new)
  <2>1. ASSUME NEW i \in 1 .. Len(new.route) - 1
        PROVE  new.route[i + 1] \in Link[new.route[i]]
    <3>1. CASE i \in 1 .. len - 1
      BY <3>1, <1>4, <1>5, <1>10 DEF Path
    <3>2. CASE i = len
      BY <3>2, <1>4, <1>5, <1>10, <1>11 DEF Path
    <3>3. QED
      BY <2>1, <3>1, <3>2, <1>4, <1>5
  <2>2. new.to \in Link[new.route[Len(new.route)]]
    BY <1>1, <1>3, <1>5
  <2>3. QED
    BY <2>1, <2>2, <1>5 DEF Path
<1>13. ASSUME steady
       PROVE  Detour(new)
  <2>1. Detour(ar)
    BY <1>13 DEF Good
  <2>2. ASSUME NEW i \in 1 .. len
        PROVE  Onward(new, i) = Onward(ar, i) /\ Before(new, i) = Before(ar, i)
    <3>1. Onward(new, i) = new.route[i + 1]
      BY <1>4, <1>5, <1>6, OnwardFacts
    <3>2. i \in 1 .. len - 1 => Onward(new, i) = Onward(ar, i)
      BY <3>1, <1>2, <1>4, <1>5, OnwardFacts
    <3>3. i = len => Onward(new, i) = Onward(ar, i)
      BY <3>1, <1>2, <1>5, OnwardFacts
    <3>4. Onward(new, i) = Onward(ar, i)
      BY <3>2, <3>3, <1>4
    <3>5. \A j \in 1 .. i - 1 : new.route[j] = ar.route[j]
      BY <1>4, <1>5
    <3>6. Before(new, i) = Before(ar, i)
      BY <3>5, <1>3 DEF Before
    <3>7. QED
      BY <3>4, <3>6
  <2>3. Onward(new, len + 1) = hop.to
    BY <1>3, <1>5, <1>6, OnwardFacts
  <2>4. Before(new, len + 1) = Excluded(ar)
    <3>1. {new.route[j] : j \in 1 .. (len + 1) - 1} = {ar.route[j] : j \in 1 .. len}
      BY <1>4, <1>5
    <3>2. QED
      BY <3>1, <1>3, <1>4 DEF Before, Excluded, Members
  <2>5. ASSUME NEW i \in DOMAIN new.route, Onward(new, i) \in Before(new, i)
        PROVE  Link[new.route[i]] \subseteq Before(new, i)
    <3>1. CASE i \in 1 .. len
      <4>1. Onward(ar, i) \in Before(ar, i)
        BY <2>2, <2>5, <3>1
      <4>2. Link[ar.route[i]] \subseteq Before(ar, i)
        BY <4>1, <2>1, <3>1, <1>4 DEF Detour
      <4>3. QED
        BY <4>2, <2>2, <3>1, <1>5
    <3>2. CASE i = len + 1
      BY <3>2, <2>3, <2>4, <2>5, <1>1, <1>5, <1>13
    <3>3. QED
      BY <3>1, <3>2, <1>4, <1>7
  <2>6. QED
    BY <2>5 DEF Detour
<1>14. Good(new, steady)
  BY <1>6, <1>9, <1>12, <1>13 DEF Good
<1>15. QED
  BY <1>14 DEF new
-------------------------------------------------------------------------------
LEMMA InitInv == Init => IInv
BY AlternateRouteAssumption DEF Init, IInv, Counted

(* Nothing is lost of the invariant with an AR that goes. *)
LEMMA FewerArs ==
  ASSUME IInv, ars' \subseteq ars, halted' = halted, steady' = steady, started' = started,
         copies' # copies => copies < MaxCopies /\ copies' = copies + 1
  PROVE  IInv'
<1>1. Counted'
  BY AlternateRouteAssumption DEF IInv, Counted
<1>2. QED
  BY <1>1 DEF IInv

LEMMA TransmitInv ==
  ASSUME NEW ar, NEW array, NEW others, ar.to \in Node,
         \A m \in others : Good(m, steady),
         \A hop \in Hops(ar.to, array) : hop.joined => Good([ar EXCEPT !.to = hop.to], steady),
         halted \subseteq Node,
         Transmit(ar, array, others)
  PROVE  (\A m \in ars' : Good(m, steady)) /\ halted' \subseteq Node
BY DEF Transmit

LEMMA StartArInv ==
  ASSUME IInv, NEW node \in Node, NEW avoid \in AvoidRoute, StartAr(node, avoid)
  PROVE  IInv'
<1> DEFINE ar == [avoid |-> avoid, route |-> <<node>>, to |-> node]
<1>1. Transmit(ar, Members(avoid), ars)
  BY DEF StartAr
<1>2. ASSUME NEW hop \in Hops(node, Members(avoid)), hop.joined
      PROVE  Good([ar EXCEPT !.to = hop.to], steady)
  <2>1. [ar EXCEPT !.to = hop.to] = [avoid |-> avoid, route |-> <<node>>, to |-> hop.to]
    OBVIOUS
  <2>2. QED
    BY <2>1, <1>2, StartGood
<1>3. ar.to = node
  OBVIOUS
<1> HIDE DEF ar
<1>4. (\A m \in ars' : Good(m, steady)) /\ halted' \subseteq Node
  BY <1>1, <1>2, <1>3, TransmitInv DEF IInv, Counted
<1>5. Counted' /\ steady' = steady
  BY <1>4, AlternateRouteAssumption DEF StartAr, IInv, Counted
<1>6. QED
  BY <1>4, <1>5 DEF IInv

LEMMA RelayInv ==
  ASSUME IInv, NEW ar \in ars, Relay(ar)
  PROVE  IInv'
<1>1. PICK others \in {ars, ars \ {ar}} :
        /\ Taken(ar, others)
        /\ \/ IsCycle(ar) /\ ars' = others /\ UNCHANGED halted
           \/ ~IsCycle(ar) /\ Transmit(Extended(ar), Excluded(ar), others)
  BY DEF Relay
<1>2. Good(ar, steady) /\ \A m \in others : Good(m, steady)
  BY <1>1 DEF IInv
<1>3. ar.to \in Node /\ steady' = steady /\ started' = started
  BY DEF Relay
<1>4. copies' \in 0 .. MaxCopies
  BY <1>1, AlternateRouteAssumption DEF Taken, IInv, Counted
<1>5. (\A m \in ars' : Good(m, steady)) /\ halted' \subseteq Node
  <2>1. CASE IsCycle(ar)
    BY <2>1, <1>1, <1>2 DEF IInv, Counted
  <2>2. CASE ~IsCycle(ar)
    <3>1. \A hop \in Hops(ar.to, Excluded(ar)) :
            hop.joined => Good([Extended(ar) EXCEPT !.to = hop.to], steady)
      BY <2>2, <1>2, <1>3, RelayGood
    <3>2. Extended(ar).to = ar.to
      BY <1>2 DEF Extended, Good, Ar
    <3>3. Transmit(Extended(ar), Excluded(ar), others)
      BY <2>2, <1>1
    <3> DEFINE ext == Extended(ar)
    <3> HIDE DEF ext
    <3>4. /\ ext.to = ar.to /\ Transmit(ext, Excluded(ar), others)
          /\ \A hop \in Hops(ext.to, Excluded(ar)) :
               hop.joined => Good([ext EXCEPT !.to = hop.to], steady)
      BY <3>1, <3>2, <3>3 DEF ext
    <3>5. QED
      BY <3>4, <1>2, <1>3, TransmitInv DEF IInv, Counted
  <2>3. QED
    BY <2>1, <2>2
<1>6. QED
  BY <1>3, <1>4, <1>5 DEF IInv, Counted

LEMMA NextInv == IInv /\ [Next]_vars => IInv'
<1> SUFFICES ASSUME IInv, [Next]_vars PROVE IInv'
  OBVIOUS
<1>1. ASSUME NEW node \in Node, NEW avoid \in Validated[node], StartAr(node, avoid)
      PROVE  IInv'
  BY <1>1, StartArInv DEF AvoidRoute
<1>2. ASSUME NEW ar \in ars, Relay(ar)
      PROVE  IInv'
  BY <1>2, RelayInv
<1>3. ASSUME NEW ar \in ars, Arrive(ar)
      PROVE  IInv'
  <2>1. /\ ars' \subseteq ars /\ halted' = halted /\ steady' = steady /\ started' = started
        /\ copies' # copies => copies < MaxCopies /\ copies' = copies + 1
    BY <1>3 DEF Arrive, Taken
  <2>2. QED
    BY <2>1, FewerArs
<1>4. ASSUME NEW ar \in ars, LoseAr(ar)
      PROVE  IInv'
  <2>1. /\ ars' \subseteq ars /\ halted' = halted /\ steady' = steady /\ started' = started
        /\ copies' = copies
    BY <1>4 DEF LoseAr
  <2>2. QED
    BY <2>1, FewerArs
<1>5. ASSUME NEW node \in Node, LocateFault(node)
      PROVE  IInv'
  <2>1. /\ ars' \subseteq ars /\ halted' = halted /\ steady' = steady /\ started' = started
        /\ copies' = copies
    BY <1>5 DEF LocateFault, ways
  <2>2. QED
    BY <2>1, FewerArs
<1>6. CASE UNCHANGED vars
  <2>1. /\ ars' \subseteq ars /\ halted' = halted /\ steady' = steady /\ started' = started
        /\ copies' = copies
    BY <1>6 DEF vars, ways
  <2>2. QED
    BY <2>1, FewerArs
<1>7. QED
  BY <1>1, <1>2, <1>3, <1>4, <1>5, <1>6 DEF Next, Travel

(* However tables, parents and the network behave, no node relays an AR       *)
(* twice, the route of every AR is the way it took, and, while the tables are *)
(* steady, it left the avoided route whenever a node on it could             *)
(* (dmait-client.c:260-377, dmait-client-logic.c:260-383).                    *)
THEOREM RelaySafety == Spec => [](TypeOK /\ NoNodeTwice /\ RouteIsPath /\ DetourFirst)
<1>1. IInv => TypeOK /\ NoNodeTwice /\ RouteIsPath /\ DetourFirst
  BY IInvImplies
<1>2. QED
  BY InitInv, NextInv, <1>1, PTL DEF Spec
-------------------------------------------------------------------------------
(* The safety half of ArsDieOut: in a finite network the route of an AR never *)
(* grows past the number of nodes, so no AR is relayed more often than that,  *)
(* however tables and parents change while it travels                        *)
(* (dmait-client.c:291-329).                                                 *)
THEOREM FewHops ==
  ASSUME IsFiniteSet(Node)
  PROVE  Spec => [](\A ar \in ars : Len(ar.route) <= Cardinality(Node))
<1>1. ASSUME TypeOK, NoNodeTwice, NEW ar \in ars
      PROVE  Len(ar.route) <= Cardinality(Node)
  <2> DEFINE len == Len(ar.route)
  <2>1. /\ ar.route \in Seq(Node) /\ len \in Nat
        /\ DOMAIN ar.route = 1 .. len
    BY <1>1, ArFacts DEF TypeOK
  <2>2. ar.route \in [1 .. len -> Node]
    BY <2>1
  <2>3. ar.route \in Injection(1 .. len, Node)
    BY <1>1, <2>1, <2>2 DEF NoNodeTwice, Injection, IsInjective
  <2>4. Cardinality(1 .. len) <= Cardinality(Node)
    BY <2>3, FS_Injection
  <2>5. Cardinality(1 .. len) = len
    BY <2>1, FS_Interval
  <2>6. QED
    BY <2>4, <2>5
<1>2. TypeOK /\ NoNodeTwice => \A ar \in ars : Len(ar.route) <= Cardinality(Node)
  BY <1>1
<1>3. QED
  BY RelaySafety, <1>2, PTL
-------------------------------------------------------------------------------
(* A step of AlternateRoute that leaves the root alone is no step of it. *)
LEMMA FaultStutters == fault' = fault => UNCHANGED FL!vars
BY DEF fault, FL!vars, FL!root

LEMMA NextRefines == IInv /\ [Next]_vars => [FL!Next]_(FL!vars)
<1> SUFFICES ASSUME IInv, [Next]_vars PROVE FL!Next \/ UNCHANGED FL!vars
  OBVIOUS
<1>1. ASSUME NEW node \in Node, NEW avoid \in Validated[node], StartAr(node, avoid)
      PROVE  UNCHANGED FL!vars
  BY <1>1, FaultStutters DEF StartAr
<1>2. ASSUME NEW ar \in ars, Relay(ar)
      PROVE  UNCHANGED FL!vars
  BY <1>2, FaultStutters DEF Relay
<1>3. ASSUME NEW ar \in ars, Arrive(ar)
      PROVE  FL!Next
  <2>1. ar \in Ar
    BY DEF IInv, Good
  <2>2. ar.avoid \in AvoidRoute /\ Members(ar.route) \in SUBSET Node
    BY <2>1, ArFacts DEF Members
  <2>3. FL!ReceiveAr(ar.avoid, Members(ar.route))
    BY <1>3 DEF Arrive
  <2>4. QED
    BY <2>2, <2>3 DEF FL!Next
<1>4. ASSUME NEW ar \in ars, LoseAr(ar)
      PROVE  UNCHANGED FL!vars
  BY <1>4, FaultStutters DEF LoseAr
<1>5. ASSUME NEW node \in Node, LocateFault(node)
      PROVE  FL!Next
  BY <1>5 DEF LocateFault, FL!Next
<1>6. ASSUME UNCHANGED vars
      PROVE  UNCHANGED FL!vars
  BY <1>6, FaultStutters DEF vars
<1>7. QED
  BY <1>1, <1>2, <1>3, <1>4, <1>5, <1>6 DEF Next, Travel

(* Whatever relays deliver, the root sees only what FaultLocation takes for   *)
(* granted: a validated route to avoid, and client nodes on the way          *)
(* (dmait-client.c:344-377, dmait-server-logic.c:683-770).                   *)
THEOREM RelayRefinesFaultLocation == Spec => DeliversToFaultLocation
<1>1. Init => FL!Init
  BY DEF Init
<1>2. QED
  BY InitInv, NextInv, NextRefines, <1>1, PTL DEF Spec, DeliversToFaultLocation, FL!Spec
-------------------------------------------------------------------------------
(* The theorems about FaultLocation, for the root of this module. *)
FLP == INSTANCE FaultLocationProofs WITH MaxRepeat <- 0, repeated <- [n \in Node |-> 0]

(* The two instances are of one module: FLP adds its proofs. *)
LEMMA SameInit == FL!Init => FLP!Init
BY DEF FL!Init, FLP!Init, FL!NoMessages, FLP!NoMessages

LEMMA SameReceiveAr ==
  ASSUME NEW avoid, NEW through, FL!ReceiveAr(avoid, through)
  PROVE  FLP!ReceiveAr(avoid, through)
<1>1. FL!AccuseAll(suspects, avoid, through) = FLP!AccuseAll(suspects, avoid, through)
  BY DEF FL!AccuseAll, FLP!AccuseAll, FL!Accuse, FLP!Accuse, FL!Increment, FLP!Increment,
         FL!IsSuspect, FLP!IsSuspect, FL!Position, FLP!Position
<1>2. FL!Accused(avoid, through) = FLP!Accused(avoid, through)
  BY DEF FL!Accused, FLP!Accused, FL!ToSet, FLP!ToSet
<1>3. ASSUME NEW n PROVE FL!Times(n, avoid, through) = FLP!Times(n, avoid, through)
  <2>1. \A S : FL!Cardinality(S) = FLP!Cardinality(S)
    BY DEF FL!Cardinality, FLP!Cardinality
  <2>2. QED
    BY <2>1 DEF FL!Times, FLP!Times
<1>4. QED
  BY <1>1, <1>2, <1>3 DEF FL!ReceiveAr, FLP!ReceiveAr

LEMMA SameNext == [FL!Next]_(FL!vars) => [FLP!Next]_(FLP!vars)
<1>1. UNCHANGED FL!vars => UNCHANGED FLP!vars
  BY DEF FL!vars, FLP!vars, FL!root, FLP!root
<1>2. ASSUME NEW node \in Node
      PROVE  /\ FL!ReceiveProbe(node) => FLP!ReceiveProbe(node)
             /\ FL!ReceiveAck(node) => FLP!ReceiveAck(node)
             /\ FL!Lose(node) => FLP!Lose(node)
             /\ FL!Repeat(node) => FLP!Repeat(node)
  BY DEF FL!ReceiveProbe, FLP!ReceiveProbe, FL!ReceiveAck, FLP!ReceiveAck, FL!Lose, FLP!Lose,
         FL!Repeat, FLP!Repeat, FL!Decrement, FLP!Decrement, FL!IsSuspect, FLP!IsSuspect,
         FL!Position, FLP!Position, FL!root, FLP!root
<1>3. QED
  BY <1>1, <1>2, SameReceiveAr DEF FL!Next, FLP!Next

LEMMA SameInvariants ==
  FLP!TypeOK /\ FLP!SuspicionIsUnanswered /\ FLP!AccusedAreRecorded
    => FL!TypeOK /\ FL!SuspicionIsUnanswered /\ FL!AccusedAreRecorded
BY DEF FLP!TypeOK, FLP!SuspicionIsUnanswered, FLP!AccusedAreRecorded, FL!TypeOK,
       FL!SuspicionIsUnanswered, FL!AccusedAreRecorded, FL!Suspects, FLP!Suspects,
       FL!Suspicion, FLP!Suspicion, FL!IsSuspect, FLP!IsSuspect, FL!Position, FLP!Position

(* Relays and root together: at a root that is fed by ARs on their way through *)
(* a network with changing tables and parents, suspicion is still what is     *)
(* unanswered and no accused node is missing while there is a free block      *)
(* (dmait-client.c:260-377, dmait-server-logic.c:215-301, 683-880).          *)
THEOREM RootSafety ==
  Spec => [](FL!TypeOK /\ FL!SuspicionIsUnanswered /\ FL!AccusedAreRecorded)
<1>1. FLP!FaultLocationAssumption
  BY AlternateRouteAssumption DEF AvoidRoute, FLP!FaultLocationAssumption
<1>2. FLP!Spec => [](FLP!TypeOK /\ FLP!SuspicionIsUnanswered /\ FLP!AccusedAreRecorded)
  BY <1>1, FLP!FaultSafety
<1>3. Spec => FL!Init /\ [][FL!Next]_(FL!vars)
  BY RelayRefinesFaultLocation DEF DeliversToFaultLocation, FL!Spec
<1>4. QED
  BY <1>2, <1>3, SameInit, SameNext, SameInvariants, PTL DEF FLP!Spec
===============================================================================
