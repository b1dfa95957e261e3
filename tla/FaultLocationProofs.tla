-------------------------- MODULE FaultLocationProofs -------------------------
(***************************************************************************)
(* Proofs about FaultLocation for every set of nodes and routes, every size  *)
(* of the pool, every width of the scores and every bound.                  *)
(***************************************************************************)
EXTENDS FaultLocation, Integers, TLAPS, FiniteSetTheorems, WellFoundedInduction

(* Induction over a prefix of the naturals, for the set of those that have a *)
(* property.                                                                *)
LEMMA PrefixInduction ==
  ASSUME NEW m \in Nat, NEW T,
         0 \in T, \A i \in 1 .. m : i - 1 \in T => i \in T
  PROVE  \A i \in 0 .. m : i \in T
<1> DEFINE Rest == {i \in 0 .. m : i \notin T}
<1> SUFFICES ASSUME Rest # {} PROVE FALSE
  OBVIOUS
<1>1. Rest \subseteq Nat
  OBVIOUS
<1>2. PICK first \in Rest : \A i \in Rest : ~(<<i, first>> \in OpToRel(<, Nat))
  BY <1>1, NatLessThanWellFounded, WFMin
<1>3. \A i \in Rest : ~(i < first)
  BY <1>1, <1>2 DEF OpToRel
<1>4. first \in 1 .. m /\ first - 1 \in 0 .. m
  <2>1. first \in 0 .. m /\ first # 0
    OBVIOUS
  <2>2. QED
    BY <2>1
<1>5. first - 1 \in T
  BY <1>3, <1>4
<1>6. QED
  BY <1>2, <1>4, <1>5

-------------------------------------------------------------------------------
(* Numbers that differ by multiples of m have the same remainder. *)
LEMMA SameRemainder ==
  ASSUME NEW m \in Nat \ {0}, NEW a \in Nat, NEW b \in Nat, NEW k \in Int, a = b + k * m
  PROVE  a % m = b % m
<1>1. a = m * (a \div m) + (a % m) /\ a % m \in 0 .. m - 1 /\ a \div m \in Int
  OBVIOUS
<1>2. b = m * (b \div m) + (b % m) /\ b % m \in 0 .. m - 1 /\ b \div m \in Int
  OBVIOUS
<1> DEFINE d == (a \div m) - (b \div m) - k
<1>3. d \in Int /\ (b % m) - (a % m) = d * m
  <2>1. d * m = m * (a \div m) - m * (b \div m) - k * m
    BY <1>1, <1>2
  <2>2. QED
    BY <1>1, <1>2, <2>1
<1>4. (b % m) - (a % m) < m /\ (b % m) - (a % m) > -m
  BY <1>1, <1>2
<1> HIDE DEF d
<1>5. ~(d >= 1)
  <2>1. ASSUME d >= 1 PROVE d * m >= m
    BY <1>3, <2>1
  <2>2. QED
    BY <1>1, <1>2, <1>3, <1>4, <2>1
<1>6. ~(d <= -1)
  <2>1. ASSUME d <= -1 PROVE d * m <= -m
    BY <1>3, <2>1
  <2>2. QED
    BY <1>1, <1>2, <1>3, <1>4, <2>1
<1>7. d = 0
  BY <1>3, <1>5, <1>6
<1>8. QED
  BY <1>1, <1>2, <1>3, <1>7

(* A score one step on. *)
LEMMA NextScore ==
  ASSUME NEW m \in Nat \ {0, 1}, NEW x \in 0 .. m - 1
  PROVE  /\ (x + 1) % m \in 0 .. m - 1
         /\ (x + 1) % m = x + 1 \/ (x + 1) % m = x + 1 - m
OBVIOUS
(* What a score loses when it wraps, any number of times. *)
Turns == {k * ScoreMod : k \in Int}

LEMMA TurnFacts ==
  /\ 0 \in Turns
  /\ \A t \in Turns : t \in Int /\ t - ScoreMod \in Turns /\ t + ScoreMod \in Turns
<1>1. ScoreMod \in Nat /\ 0 * ScoreMod = 0
  BY FaultLocationAssumption
<1>2. ASSUME NEW k \in Int
      PROVE  /\ k * ScoreMod \in Int
             /\ k * ScoreMod - ScoreMod = (k - 1) * ScoreMod
             /\ k * ScoreMod + ScoreMod = (k + 1) * ScoreMod
  BY <1>1
<1>3. 0 \in Turns
  BY <1>1 DEF Turns
<1>4. ASSUME NEW t \in Turns
      PROVE  t \in Int /\ t - ScoreMod \in Turns /\ t + ScoreMod \in Turns
  <2>1. PICK k \in Int : t = k * ScoreMod
    BY DEF Turns
  <2>2. k - 1 \in Int /\ k + 1 \in Int
    OBVIOUS
  <2>3. QED
    BY <1>2, <2>1, <2>2 DEF Turns
<1>5. QED
  BY <1>3, <1>4

(* Numbers and sums that differ by turns have the same remainders. *)
LEMMA Remainders ==
  ASSUME NEW a \in Nat, NEW b \in Nat, b < ScoreMod, NEW r \in Nat, NEW p \in Nat,
         NEW t \in Turns, a - b = p - r + t
  PROVE  (((a + ScoreMod - b) % ScoreMod) + r) % ScoreMod = p % ScoreMod
<1>1. ScoreMod \in Nat \ {0}
  BY FaultLocationAssumption
<1> DEFINE x == a + ScoreMod - b
           s == x % ScoreMod
<1>2. x \in Nat
  BY <1>1
<1> HIDE DEF x
<1>3. s \in Nat /\ x \div ScoreMod \in Int /\ x = ScoreMod * (x \div ScoreMod) + s
  BY <1>1, <1>2
<1>4. PICK k \in Int : t = k * ScoreMod
  BY DEF Turns
<1> DEFINE j == k + 1 - (x \div ScoreMod)
<1> HIDE DEF s
<1>5. j * ScoreMod = k * ScoreMod + ScoreMod - ScoreMod * (x \div ScoreMod)
  BY <1>1, <1>3
<1>6. j \in Int
  BY <1>3
<1> HIDE DEF j
<1>7. s + r = p + j * ScoreMod
  BY <1>1, <1>3, <1>4, <1>5 DEF x
<1>8. s + r \in Nat
  BY <1>3
<1>9. (s + r) % ScoreMod = p % ScoreMod
  BY <1>1, <1>6, <1>7, <1>8, SameRemainder
<1>10. QED
  BY <1>9 DEF s, x
-------------------------------------------------------------------------------
Entry == [node : Node, negative : 0 .. ScoreMod - 1, positive : 0 .. ScoreMod - 1]

Listed(list) == {list[i].node : i \in DOMAIN list}

NoTwice(list) == \A i, j \in DOMAIN list : list[i].node = list[j].node => i = j

(* The scores of an entry differ by what is due, up to the width of a score. *)
Fits(entry, due) == \E t \in Turns : entry.negative - entry.positive = due[entry.node] + t

(* A suspect list in step with the accused nodes and with what is due of each *)
(* node: the points it has been given and has not won back.                  *)
InStep(list, all, due) ==
  /\ list \in Seq(Entry) /\ Len(list) <= SuspectPool
  /\ NoTwice(list)
  /\ Listed(list) \subseteq all
  /\ Len(list) < SuspectPool => Listed(list) = all
  /\ \A i \in DOMAIN list : Fits(list[i], due)

(* In a list without repetition the first entry of a node is its only one. *)
LEMMA PositionFacts ==
  ASSUME NEW list \in Seq(Entry), NoTwice(list), NEW node, IsSuspect(list, node)
  PROVE  /\ Position(list, node) \in 1 .. Len(list)
         /\ list[Position(list, node)].node = node
         /\ \A i \in 1 .. Len(list) : list[i].node = node => i = Position(list, node)
<1>1. PICK i \in DOMAIN list : list[i].node = node
  BY DEF IsSuspect
<1>2. \A j \in 1 .. i - 1 : j \in DOMAIN list /\ j # i
  OBVIOUS
<1>3. \A j \in 1 .. i - 1 : list[j].node # node
  BY <1>1, <1>2 DEF NoTwice
<1>4. /\ Position(list, node) \in DOMAIN list
      /\ list[Position(list, node)].node = node
  BY <1>1, <1>3 DEF Position
<1>5. QED
  BY <1>4 DEF NoTwice

(* What changing one score of the only entry of a node does to the list. *)
LEMMA RescoredInStep ==
  ASSUME NEW all, NEW due \in [Node -> Int], NEW list, InStep(list, all, due),
         NEW node \in Node, NEW value \in Int,
         NEW pos \in 1 .. Len(list), list[pos].node = node,
         NEW entry \in Entry, entry.node = node,
         Fits(entry, [due EXCEPT ![node] = value])
  PROVE  InStep([list EXCEPT ![pos] = entry], all, [due EXCEPT ![node] = value])
<1> DEFINE new == [list EXCEPT ![pos] = entry]
           nowDue == [due EXCEPT ![node] = value]
<1>1. list \in Seq(Entry)
  BY DEF InStep
<1>2. /\ new \in Seq(Entry) /\ Len(new) = Len(list)
      /\ DOMAIN new = 1 .. Len(list) /\ DOMAIN list = 1 .. Len(list)
      /\ new[pos] = entry
      /\ \A i \in 1 .. Len(list) : i # pos => new[i] = list[i]
  BY <1>1
<1> HIDE DEF new
<1>3. \A i \in 1 .. Len(list) : new[i].node = list[i].node
  BY <1>2
<1>4. NoTwice(new)
  BY <1>2, <1>3 DEF NoTwice, InStep
<1>5. Listed(new) = Listed(list)
  BY <1>2, <1>3 DEF Listed
<1>6. \A i \in DOMAIN new : Fits(new[i], nowDue)
  <2> SUFFICES ASSUME NEW i \in 1 .. Len(list), i # pos PROVE Fits(new[i], nowDue)
    BY <1>2
  <2>1. new[i] = list[i] /\ list[i] \in Entry
    BY <1>1, <1>2
  <2>2. list[i].node # node /\ list[i].node \in Node
    BY <1>2, <2>1 DEF InStep, NoTwice, Entry
  <2>3. nowDue[list[i].node] = due[list[i].node]
    BY <2>2
  <2>4. Fits(list[i], due)
    BY <1>2 DEF InStep
  <2>5. QED
    BY <2>1, <2>3, <2>4 DEF Fits
<1>7. QED
  BY <1>2, <1>4, <1>5, <1>6 DEF InStep, new

(* A point more: the node is listed, listed now, or dropped by a full pool. *)
LEMMA IncrementInStep ==
  ASSUME NEW all \in SUBSET Node, NEW due \in [Node -> Int], NEW list,
         InStep(list, all, due), NEW node \in Node,
         \A n \in Node \ all : due[n] = 0
  PROVE  InStep(Increment(list, node), all \cup {node}, [due EXCEPT ![node] = @ + 1])
<1> DEFINE nowDue == [due EXCEPT ![node] = @ + 1]
<1>1. list \in Seq(Entry) /\ NoTwice(list) /\ ScoreMod \in Nat \ {0, 1}
  BY FaultLocationAssumption DEF InStep
<1>2. CASE IsSuspect(list, node)
  <2> DEFINE pos == Position(list, node)
             entry == [list[pos] EXCEPT !.negative = (@ + 1) % ScoreMod]
  <2>1. pos \in 1 .. Len(list) /\ list[pos].node = node
    BY <1>1, <1>2, PositionFacts
  <2> HIDE DEF pos
  <2>2. list[pos] \in Entry
    BY <1>1, <2>1
  <2>3. /\ (list[pos].negative + 1) % ScoreMod \in 0 .. ScoreMod - 1
        /\ \/ (list[pos].negative + 1) % ScoreMod = list[pos].negative + 1
           \/ (list[pos].negative + 1) % ScoreMod = list[pos].negative + 1 - ScoreMod
    BY <1>1, <2>2, NextScore DEF Entry
  <2>4. entry \in Entry /\ entry.node = node
    BY <2>1, <2>2, <2>3 DEF Entry
  <2>5. PICK t \in Turns : list[pos].negative - list[pos].positive = due[node] + t
    BY <2>1 DEF InStep, Fits
  <2>6. \E turn \in Turns : entry.negative - entry.positive = due[node] + 1 + turn
    <3>1. /\ list[pos].negative \in Int /\ list[pos].positive \in Int
          /\ entry.negative = (list[pos].negative + 1) % ScoreMod
          /\ entry.positive = list[pos].positive
      BY <2>2 DEF Entry
    <3>2. entry.negative \in Int /\ due[node] \in Int
      BY <2>3, <3>1
    <3> HIDE DEF entry
    <3>3. PICK a \in Int, b \in Int, c \in Int, d \in Int :
            /\ a = list[pos].negative /\ b = list[pos].positive
            /\ c = entry.negative /\ d = due[node]
      BY <3>1, <3>2
    <3>4. t \in Int /\ ScoreMod \in Int
      BY <1>1, TurnFacts
    <3>5. a - b = d + t /\ (c = a + 1 \/ c = a + 1 - ScoreMod)
      BY <2>3, <2>5, <3>1, <3>3
    <3>6. c - b = d + 1 + t \/ c - b = d + 1 + (t - ScoreMod)
      BY <3>4, <3>5
    <3>7. QED
      BY <3>1, <3>3, <3>6, TurnFacts
  <2>7. Fits(entry, nowDue)
    BY <2>4, <2>6 DEF Fits
  <2>8. InStep([list EXCEPT ![pos] = entry], all, nowDue)
    <3>1. nowDue = [due EXCEPT ![node] = due[node] + 1] /\ due[node] + 1 \in Int
      OBVIOUS
    <3> HIDE DEF entry, nowDue
    <3>2. QED
      BY <2>1, <2>4, <2>7, <3>1, RescoredInStep
  <2>9. Increment(list, node) = [list EXCEPT ![pos] = entry]
    BY <1>2 DEF Increment, pos
  <2>10. Len(list) < SuspectPool => all \cup {node} = all
    BY <2>1 DEF InStep, Listed
  <2>11. Len([list EXCEPT ![pos] = entry]) = Len(list)
    BY <1>1, <2>1
  <2>12. QED
    BY <2>8, <2>9, <2>10, <2>11 DEF InStep
<1>3. CASE ~IsSuspect(list, node) /\ Len(list) < SuspectPool
  <2> DEFINE entry == [node |-> node, negative |-> 1, positive |-> 0]
             new == Append(list, entry)
  <2>1. entry \in Entry
    BY <1>1 DEF Entry
  <2>2. /\ new \in Seq(Entry) /\ Len(new) = Len(list) + 1
        /\ DOMAIN new = 1 .. Len(list) + 1 /\ DOMAIN list = 1 .. Len(list)
        /\ new[Len(list) + 1] = entry
        /\ \A i \in 1 .. Len(list) : new[i] = list[i] /\ list[i] \in Entry
    BY <1>1, <2>1
  <2> HIDE DEF new
  <2>3. Listed(list) = all
    BY <1>3 DEF InStep
  <2>4. \A i \in 1 .. Len(list) : list[i].node # node
    BY <1>3, <2>2 DEF IsSuspect
  <2>5. NoTwice(new)
    BY <1>1, <2>2, <2>4 DEF NoTwice
  <2>6. Listed(new) = all \cup {node}
    BY <2>2, <2>3 DEF Listed
  <2>7. due[node] = 0
    BY <2>2, <2>3, <2>4 DEF Listed
  <2>8. Fits(entry, nowDue)
    <3>1. 1 - 0 = nowDue[node] + 0
      BY <2>7
    <3>2. QED
      BY <3>1, TurnFacts DEF Fits
  <2>9. ASSUME NEW i \in 1 .. Len(list) PROVE Fits(new[i], nowDue)
    <3>1. list[i].node \in Node \ {node}
      BY <2>2, <2>4 DEF Entry
    <3>2. nowDue[list[i].node] = due[list[i].node]
      BY <3>1
    <3>3. Fits(list[i], due)
      BY <2>2 DEF InStep
    <3>4. QED
      BY <2>2, <3>2, <3>3 DEF Fits
  <2>10. \A i \in DOMAIN new : Fits(new[i], nowDue)
    <3> HIDE DEF entry, nowDue
    <3>1. QED
      BY <1>1, <2>2, <2>8, <2>9
  <2>11. Increment(list, node) = new
    BY <1>3 DEF Increment, new
  <2>12. Len(new) <= SuspectPool
    BY <1>3, <2>2, FaultLocationAssumption
  <2>13. QED
    BY <2>2, <2>5, <2>6, <2>10, <2>11, <2>12 DEF InStep
<1>4. CASE ~IsSuspect(list, node) /\ ~(Len(list) < SuspectPool)
  <2>1. Increment(list, node) = list
    BY <1>4 DEF Increment
  <2>2. ASSUME NEW i \in DOMAIN list PROVE Fits(list[i], nowDue)
    <3>1. list[i].node \in Node \ {node}
      <4>1. list[i] \in Entry
        BY <1>1
      <4>2. QED
        BY <1>4, <4>1 DEF IsSuspect, Entry
    <3>2. nowDue[list[i].node] = due[list[i].node]
      BY <3>1
    <3>3. QED
      BY <3>2 DEF InStep, Fits
  <2>3. QED
    BY <1>4, <2>1, <2>2 DEF InStep
<1>5. QED
  BY <1>2, <1>3, <1>4

(* A point won back.  A node that has been given none is not listed. *)
LEMMA DecrementInStep ==
  ASSUME NEW all \in SUBSET Node, NEW due \in [Node -> Int], NEW list,
         InStep(list, all, due), NEW node \in Node
  PROVE  InStep(Decrement(list, node), all, [due EXCEPT ![node] = @ - 1])
<1> DEFINE nowDue == [due EXCEPT ![node] = @ - 1]
<1>1. list \in Seq(Entry) /\ NoTwice(list) /\ ScoreMod \in Nat \ {0, 1}
  BY FaultLocationAssumption DEF InStep
<1>2. CASE IsSuspect(list, node)
  <2> DEFINE pos == Position(list, node)
             entry == [list[pos] EXCEPT !.positive = (@ + 1) % ScoreMod]
  <2>1. pos \in 1 .. Len(list) /\ list[pos].node = node
    BY <1>1, <1>2, PositionFacts
  <2> HIDE DEF pos
  <2>2. list[pos] \in Entry
    BY <1>1, <2>1
  <2>3. /\ (list[pos].positive + 1) % ScoreMod \in 0 .. ScoreMod - 1
        /\ \/ (list[pos].positive + 1) % ScoreMod = list[pos].positive + 1
           \/ (list[pos].positive + 1) % ScoreMod = list[pos].positive + 1 - ScoreMod
    BY <1>1, <2>2, NextScore DEF Entry
  <2>4. entry \in Entry /\ entry.node = node
    BY <2>1, <2>2, <2>3 DEF Entry
  <2>5. PICK t \in Turns : list[pos].negative - list[pos].positive = due[node] + t
    BY <2>1 DEF InStep, Fits
  <2>6. \E turn \in Turns : entry.negative - entry.positive = due[node] - 1 + turn
    <3>1. /\ list[pos].negative \in Int /\ list[pos].positive \in Int
          /\ entry.positive = (list[pos].positive + 1) % ScoreMod
          /\ entry.negative = list[pos].negative
      BY <2>2 DEF Entry
    <3>2. entry.positive \in Int /\ due[node] \in Int
      BY <2>3, <3>1
    <3> HIDE DEF entry
    <3>3. PICK a \in Int, b \in Int, c \in Int, d \in Int :
            /\ a = list[pos].negative /\ b = list[pos].positive
            /\ c = entry.positive /\ d = due[node]
      BY <3>1, <3>2
    <3>4. t \in Int /\ ScoreMod \in Int
      BY <1>1, TurnFacts
    <3>5. a - b = d + t /\ (c = b + 1 \/ c = b + 1 - ScoreMod)
      BY <2>3, <2>5, <3>1, <3>3
    <3>6. a - c = d - 1 + t \/ a - c = d - 1 + (t + ScoreMod)
      BY <3>4, <3>5
    <3>7. QED
      BY <3>1, <3>3, <3>6, TurnFacts
  <2>7. Fits(entry, nowDue)
    BY <2>4, <2>6 DEF Fits
  <2>8. InStep([list EXCEPT ![pos] = entry], all, nowDue)
    <3>1. nowDue = [due EXCEPT ![node] = due[node] - 1] /\ due[node] - 1 \in Int
      OBVIOUS
    <3> HIDE DEF entry, nowDue
    <3>2. QED
      BY <2>1, <2>4, <2>7, <3>1, RescoredInStep
  <2>9. Decrement(list, node) = [list EXCEPT ![pos] = entry]
    BY <1>2 DEF Decrement, pos
  <2>10. QED
    BY <2>8, <2>9
<1>3. CASE ~IsSuspect(list, node)
  <2>1. Decrement(list, node) = list
    BY <1>3 DEF Decrement
  <2>2. ASSUME NEW i \in DOMAIN list PROVE Fits(list[i], [due EXCEPT ![node] = @ - 1])
    <3>1. list[i].node \in Node \ {node}
      <4>1. list[i] \in Entry
        BY <1>1
      <4>2. QED
        BY <1>3, <4>1 DEF IsSuspect, Entry
    <3>2. [due EXCEPT ![node] = @ - 1][list[i].node] = due[list[i].node]
      BY <3>1
    <3>3. QED
      BY <3>2 DEF InStep, Fits
  <2>3. QED
    BY <2>1, <2>2 DEF InStep
<1>4. QED
  BY <1>2, <1>3
-------------------------------------------------------------------------------
(* The rounds of the loop: the recursive definition has a value, and it is    *)
(* what the loop computes.                                                  *)
Loop(after, list, avoid, through) ==
  /\ after[0] = list
  /\ \A i \in 1 .. Len(avoid) : after[i] = Accuse(after[i - 1], avoid[i], through)

LEMMA LoopUnfolds ==
  ASSUME NEW list, NEW avoid \in Seq(Node), NEW through
  PROVE  \E after : /\ Loop(after, list, avoid, through)
                    /\ AccuseAll(list, avoid, through) = after[Len(avoid)]
<1> DEFINE Value(g, i) == IF i = 0 THEN list ELSE Accuse(g[i - 1], avoid[i], through)
           Rounds(g, n) == g = [i \in 0 .. n |-> Value(g, i)]
           T == {n \in 0 .. Len(avoid) : \E g : Rounds(g, n)}
<1>1. Len(avoid) \in Nat
  OBVIOUS
<1>2. 0 \in T
  <2> DEFINE g == [i \in 0 .. 0 |-> list]
  <2>1. g = [i \in 0 .. 0 |-> Value(g, i)]
    OBVIOUS
  <2> HIDE DEF g
  <2>2. Rounds(g, 0)
    BY <2>1
  <2>3. QED
    BY <1>1, <2>2
<1>3. ASSUME NEW n \in 1 .. Len(avoid), n - 1 \in T PROVE n \in T
  <2>1. PICK g : g = [i \in 0 .. n - 1 |-> Value(g, i)]
    BY <1>3
  <2> DEFINE h == [i \in 0 .. n |-> IF i = n THEN Value(g, n) ELSE g[i]]
  <2>2. ASSUME NEW i \in 0 .. n PROVE h[i] = Value(h, i)
    <3>1. \A j \in 0 .. n - 1 : h[j] = g[j]
      OBVIOUS
    <3>2. i # 0 => h[i - 1] = g[i - 1]
      BY <3>1
    <3>3. Value(h, i) = Value(g, i)
      BY <3>2
    <3>4. i # n => g[i] = Value(g, i)
      BY <2>1
    <3>5. QED
      BY <3>3, <3>4
  <2>3. h = [i \in 0 .. n |-> Value(h, i)]
    <3>1. \A i \in 0 .. n : h[i] = [j \in 0 .. n |-> Value(h, j)][i]
      BY <2>2
    <3> HIDE DEF Value
    <3>2. QED
      BY <3>1
  <2> HIDE DEF h
  <2>4. Rounds(h, n)
    BY <2>3
  <2>5. QED
    BY <2>4
<1> HIDE DEF T
<1>4. Len(avoid) \in T
  <2>1. \A n \in 1 .. Len(avoid) : n - 1 \in T => n \in T
    BY <1>3
  <2>2. \A n \in 0 .. Len(avoid) : n \in T
    BY <1>1, <1>2, <2>1, PrefixInduction
  <2>3. QED
    BY <1>1, <2>2
<1> USE DEF T
<1>5. \E g : g = [i \in 0 .. Len(avoid) |-> Value(g, i)]
  BY <1>4
<1> DEFINE after == CHOOSE g : g = [i \in 0 .. Len(avoid) |-> Value(g, i)]
<1>6. after = [i \in 0 .. Len(avoid) |-> Value(after, i)]
  <2> HIDE DEF Value
  <2>1. QED
    BY <1>5
<1>7. AccuseAll(list, avoid, through) = after[Len(avoid)]
  BY DEF AccuseAll
<1> HIDE DEF after
<1>8. Loop(after, list, avoid, through)
  BY <1>1, <1>6 DEF Loop
<1>9. QED
  BY <1>7, <1>8

(* The points of a node in the first rounds. *)
UpTo(k, avoid) == {avoid[i] : i \in 1 .. k}

TimesUpTo(k, node, avoid, through) ==
  IF node \in through THEN 0 ELSE Cardinality({i \in 1 .. k : avoid[i] = node})

LEMMA TimesFacts ==
  ASSUME NEW avoid, NEW through, NEW node, NEW k \in Nat
  PROVE  /\ TimesUpTo(k, node, avoid, through) \in Nat
         /\ node \notin UpTo(k, avoid) \ through => TimesUpTo(k, node, avoid, through) = 0
         /\ k > 0 => TimesUpTo(k, node, avoid, through) =
              TimesUpTo(k - 1, node, avoid, through)
                + IF avoid[k] = node /\ node \notin through THEN 1 ELSE 0
<1> DEFINE At(j) == {i \in 1 .. j : avoid[i] = node}
<1>1. ASSUME NEW j \in Nat PROVE IsFiniteSet(At(j)) /\ Cardinality(At(j)) \in Nat
  <2>1. IsFiniteSet(1 .. j)
    BY FS_Interval
  <2>2. IsFiniteSet(At(j))
    BY <2>1, FS_Subset
  <2>3. QED
    BY <2>2, FS_CardinalityType
<1>2. node \notin UpTo(k, avoid) => Cardinality(At(k)) = 0
  <2>1. node \notin UpTo(k, avoid) => At(k) = {}
    BY DEF UpTo
  <2>2. QED
    BY <2>1, FS_EmptySet
<1>3. ASSUME k > 0
      PROVE  Cardinality(At(k)) = Cardinality(At(k - 1)) + IF avoid[k] = node THEN 1 ELSE 0
  <2>1. k - 1 \in Nat /\ k \notin At(k - 1)
    BY <1>3
  <2>2. CASE avoid[k] = node
    <3>1. At(k) = At(k - 1) \cup {k}
      BY <1>3, <2>2
    <3> HIDE DEF At
    <3>2. Cardinality(At(k)) = Cardinality(At(k - 1)) + 1
      BY <1>1, <2>1, <3>1, FS_AddElement
    <3>3. QED
      BY <2>2, <3>2
  <2>3. CASE avoid[k] # node
    <3>1. At(k) = At(k - 1)
      BY <1>3, <2>3
    <3>2. Cardinality(At(k - 1)) \in Nat
      BY <1>1, <2>1
    <3> HIDE DEF At
    <3>3. QED
      BY <2>3, <3>1, <3>2
  <2>4. QED
    BY <2>2, <2>3
<1> HIDE DEF At
<1>4. TimesUpTo(k, node, avoid, through) = IF node \in through THEN 0 ELSE Cardinality(At(k))
  BY DEF TimesUpTo, At
<1>5. TimesUpTo(k - 1, node, avoid, through) = IF node \in through THEN 0 ELSE Cardinality(At(k - 1))
  BY DEF TimesUpTo, At
<1>6. QED
  BY <1>1, <1>2, <1>3, <1>4, <1>5

LEMMA TimesOfAll ==
  ASSUME NEW avoid \in Seq(Node), NEW through, NEW node
  PROVE  TimesUpTo(Len(avoid), node, avoid, through) = Times(node, avoid, through)
<1>1. {i \in DOMAIN avoid : avoid[i] = node} = {i \in 1 .. Len(avoid) : avoid[i] = node}
  OBVIOUS
<1>2. QED
  BY <1>1 DEF TimesUpTo, Times

(* The whole loop keeps the list in step, in whatever order the route names   *)
(* its nodes and however often.                                             *)
LEMMA AccuseAllInStep ==
  ASSUME NEW all \in SUBSET Node, NEW due \in [Node -> Int], NEW list,
         InStep(list, all, due), \A n \in Node \ all : due[n] = 0,
         NEW avoid \in Seq(Node), NEW through
  PROVE  InStep(AccuseAll(list, avoid, through), all \cup Accused(avoid, through),
                [n \in Node |-> due[n] + Times(n, avoid, through)])
<1> DEFINE allAt(k) == all \cup (UpTo(k, avoid) \ through)
           dueAt(k) == [n \in Node |-> due[n] + TimesUpTo(k, n, avoid, through)]
<1>1. PICK after : /\ Loop(after, list, avoid, through)
                   /\ AccuseAll(list, avoid, through) = after[Len(avoid)]
  BY LoopUnfolds
<1> DEFINE T == {k \in 0 .. Len(avoid) : InStep(after[k], allAt(k), dueAt(k))}
<1>2. Len(avoid) \in Nat /\ \A k \in 1 .. Len(avoid) : avoid[k] \in Node
  OBVIOUS
<1>3. 0 \in T
  <2>1. UpTo(0, avoid) = {}
    BY DEF UpTo
  <2>2. \A n \in Node : due[n] + TimesUpTo(0, n, avoid, through) = due[n]
    BY <2>1, TimesFacts
  <2>3. dueAt(0) = due
    BY <2>2
  <2>4. allAt(0) = all
    BY <2>1
  <2> HIDE DEF allAt, dueAt
  <2>5. QED
    BY <1>1, <1>2, <2>3, <2>4 DEF Loop
<1>4. ASSUME NEW k \in 1 .. Len(avoid), k - 1 \in T PROVE k \in T
  <2> DEFINE node == avoid[k]
  <2>1. k - 1 \in Nat /\ k \in Nat /\ k > 0 /\ node \in Node
    BY <1>2
  <2>2. InStep(after[k - 1], allAt(k - 1), dueAt(k - 1))
    BY <1>4
  <2>3. after[k] = Accuse(after[k - 1], node, through)
    BY <1>1 DEF Loop
  <2>4. UpTo(k, avoid) = UpTo(k - 1, avoid) \cup {node}
    BY <2>1 DEF UpTo
  <2>5. /\ allAt(k - 1) \in SUBSET Node
        /\ dueAt(k - 1) \in [Node -> Int]
        /\ \A n \in Node \ allAt(k - 1) : dueAt(k - 1)[n] = 0
    <3>1. UpTo(k - 1, avoid) \subseteq Node
      BY <1>2, <2>1 DEF UpTo
    <3>2. \A n \in Node : TimesUpTo(k - 1, n, avoid, through) \in Nat
      BY <2>1, TimesFacts
    <3>3. \A n \in Node \ allAt(k - 1) : TimesUpTo(k - 1, n, avoid, through) = 0
      BY <2>1, TimesFacts
    <3>4. QED
      BY <3>1, <3>2, <3>3
  <2>6. CASE node \in through
    <3>1. allAt(k) = allAt(k - 1)
      BY <2>4, <2>6
    <3>2. \A n \in Node : TimesUpTo(k, n, avoid, through) = TimesUpTo(k - 1, n, avoid, through)
      <4> TAKE n \in Node
      <4>1. TimesUpTo(k - 1, n, avoid, through) \in Nat
        BY <2>1, TimesFacts
      <4>2. QED
        BY <2>1, <2>6, <4>1, TimesFacts
    <3>3. dueAt(k) = dueAt(k - 1)
      BY <3>2
    <3>4. after[k] = after[k - 1]
      BY <2>3, <2>6 DEF Accuse
    <3> HIDE DEF allAt, dueAt
    <3>5. QED
      BY <2>2, <3>1, <3>3, <3>4
  <2>7. CASE node \notin through
    <3>1. allAt(k) = allAt(k - 1) \cup {node}
      BY <2>4, <2>7
    <3>2. \A n \in Node : dueAt(k)[n] = IF n = node THEN dueAt(k - 1)[n] + 1 ELSE dueAt(k - 1)[n]
      <4> TAKE n \in Node
      <4>1. TimesUpTo(k - 1, n, avoid, through) \in Nat
        BY <2>1, TimesFacts
      <4>2. TimesUpTo(k, n, avoid, through) =
              TimesUpTo(k - 1, n, avoid, through) + IF n = node THEN 1 ELSE 0
        BY <2>1, <2>7, TimesFacts
      <4>3. QED
        BY <4>1, <4>2
    <3>3. dueAt(k) = [dueAt(k - 1) EXCEPT ![node] = @ + 1]
      BY <2>1, <3>2
    <3>4. after[k] = Increment(after[k - 1], node)
      BY <2>3, <2>7 DEF Accuse
    <3> HIDE DEF allAt, dueAt
    <3>5. InStep(Increment(after[k - 1], node), allAt(k - 1) \cup {node},
                 [dueAt(k - 1) EXCEPT ![node] = @ + 1])
      BY <2>1, <2>2, <2>5, IncrementInStep
    <3>6. InStep(after[k], allAt(k), dueAt(k))
      BY <3>1, <3>3, <3>4, <3>5
    <3>7. QED
      BY <2>1, <3>6
  <2>8. QED
    BY <2>6, <2>7
<1>5. Len(avoid) \in T
  <2> HIDE DEF T
  <2>1. \A k \in 1 .. Len(avoid) : k - 1 \in T => k \in T
    BY <1>4
  <2>2. \A k \in 0 .. Len(avoid) : k \in T
    BY <1>2, <1>3, <2>1, PrefixInduction
  <2>3. QED
    BY <1>2, <2>2
<1>6. allAt(Len(avoid)) = all \cup Accused(avoid, through)
  BY DEF UpTo, Accused, ToSet
<1>7. \A n \in Node : TimesUpTo(Len(avoid), n, avoid, through) = Times(n, avoid, through)
  BY TimesOfAll
<1>8. dueAt(Len(avoid)) = [n \in Node |-> due[n] + Times(n, avoid, through)]
  BY <1>7
<1> HIDE DEF allAt, dueAt
<1>9. QED
  BY <1>1, <1>5, <1>6, <1>8
-------------------------------------------------------------------------------
(* What a node has been given and not won back: its probes and answers that   *)
(* are under way or lost, less those that the network made.                  *)
Due == [n \in Node |-> (probes[n] + acks[n] + lost[n]) - repeated[n]]

IInv ==
  /\ TypeOK
  /\ InStep(suspects, accused, Due)
  /\ \A n \in Node \ accused : probes[n] = 0 /\ acks[n] = 0 /\ lost[n] = 0 /\ repeated[n] = 0

LEMMA InitInv == Init => IInv
<1> SUFFICES ASSUME Init PROVE IInv
  OBVIOUS
<1>1. suspects = <<>> /\ DOMAIN suspects = {} /\ Len(suspects) = 0
  BY DEF Init
<1>2. TypeOK
  BY <1>1, FaultLocationAssumption DEF Init, TypeOK, NoMessages
<1>3. InStep(suspects, accused, Due)
  BY <1>1, FaultLocationAssumption DEF InStep, NoTwice, Listed, Init
<1>4. QED
  BY <1>2, <1>3 DEF IInv, Init, NoMessages

LEMMA ReceiveArInv ==
  ASSUME IInv, NEW avoid \in AvoidRoute, NEW through \in SUBSET Node, ReceiveAr(avoid, through)
  PROVE  IInv'
<1>1. avoid \in Seq(Node) /\ accused \in SUBSET Node /\ Due \in [Node -> Int]
  BY FaultLocationAssumption DEF IInv, TypeOK, Due
<1>2. \A n \in Node \ accused : Due[n] = 0
  BY DEF IInv, Due
<1>3. InStep(suspects', accused', [n \in Node |-> Due[n] + Times(n, avoid, through)])
  BY <1>1, <1>2, AccuseAllInStep DEF IInv, ReceiveAr
<1>4. \A n \in Node : /\ Times(n, avoid, through) \in Nat
                      /\ n \notin Accused(avoid, through) => Times(n, avoid, through) = 0
  <2> TAKE n \in Node
  <2>1. Times(n, avoid, through) = TimesUpTo(Len(avoid), n, avoid, through)
    BY <1>1, TimesOfAll
  <2>2. UpTo(Len(avoid), avoid) \ through = Accused(avoid, through) /\ Len(avoid) \in Nat
    BY <1>1 DEF UpTo, Accused, ToSet
  <2>3. QED
    BY <2>1, <2>2, TimesFacts
<1>5. probes' \in [Node -> Nat] /\ \A n \in Node : probes'[n] = probes[n] + Times(n, avoid, through)
  BY <1>4 DEF ReceiveAr, IInv, TypeOK
<1>6. Due' = [n \in Node |-> Due[n] + Times(n, avoid, through)]
  <2>1. \A n \in Node : (probes'[n] + acks'[n] + lost'[n]) - repeated'[n] = Due[n] + Times(n, avoid, through)
    BY <1>4, <1>5 DEF ReceiveAr, IInv, TypeOK, Due
  <2>2. QED
    BY <2>1 DEF Due
<1>7. InStep(suspects', accused', Due')
  BY <1>3, <1>6
<1>8. accused' \subseteq Node
  BY <1>1 DEF ReceiveAr, Accused, ToSet
<1>9. arCount' \in 0 .. MaxAr
  BY FaultLocationAssumption DEF ReceiveAr, IInv, TypeOK
<1>10. TypeOK'
  BY <1>5, <1>7, <1>8, <1>9 DEF ReceiveAr, IInv, TypeOK, InStep, Entry
<1>11. \A n \in Node \ accused' :
         probes'[n] = 0 /\ acks'[n] = 0 /\ lost'[n] = 0 /\ repeated'[n] = 0
  BY <1>4, <1>5 DEF ReceiveAr, IInv
<1>12. QED
  BY <1>7, <1>10, <1>11 DEF IInv

(* Steps that leave the root alone and what is due as it is. *)
LEMMA RootUnchangedInv ==
  ASSUME IInv, TypeOK', UNCHANGED root,
         \A n \in Node : Due'[n] = Due[n],
         \A n \in Node \ accused :
           probes'[n] = 0 /\ acks'[n] = 0 /\ lost'[n] = 0 /\ repeated'[n] = 0
  PROVE  IInv'
<1>1. suspects' = suspects /\ accused' = accused
  BY DEF root
<1>2. Due' = Due
  BY DEF Due
<1>3. InStep(suspects', accused', Due')
  BY <1>1, <1>2 DEF IInv
<1>4. QED
  BY <1>1, <1>3 DEF IInv

LEMMA ReceiveProbeInv ==
  ASSUME IInv, NEW node \in Node, ReceiveProbe(node)
  PROVE  IInv'
<1>0. /\ probes \in [Node -> Nat] /\ acks \in [Node -> Nat]
      /\ lost \in [Node -> Nat] /\ repeated \in [Node -> Nat]
  BY FaultLocationAssumption DEF IInv, TypeOK
<1>1. TypeOK'
  BY DEF IInv, TypeOK, ReceiveProbe, root
<1>2. \A n \in Node : Due'[n] = Due[n]
  <2> TAKE n \in Node
  <2>1. (probes'[n] + acks'[n] + lost'[n]) - repeated'[n] = (probes[n] + acks[n] + lost[n]) - repeated[n]
    BY <1>0 DEF ReceiveProbe
  <2>2. QED
    BY <2>1 DEF Due
<1>3. \A n \in Node \ accused :
        probes'[n] = 0 /\ acks'[n] = 0 /\ lost'[n] = 0 /\ repeated'[n] = 0
  BY DEF IInv, TypeOK, ReceiveProbe
<1>4. QED
  BY <1>1, <1>2, <1>3, RootUnchangedInv DEF ReceiveProbe

LEMMA LoseInv ==
  ASSUME IInv, NEW node \in Node, Lose(node)
  PROVE  IInv'
<1>0. /\ probes \in [Node -> Nat] /\ acks \in [Node -> Nat]
      /\ lost \in [Node -> Nat] /\ repeated \in [Node -> Nat]
  BY FaultLocationAssumption DEF IInv, TypeOK
<1>1. TypeOK'
  <2>1. probes' \in [Node -> Nat] /\ acks' \in [Node -> Nat] /\ lost' \in [Node -> Nat]
    BY <1>0 DEF Lose
  <2>2. QED
    BY <2>1 DEF IInv, TypeOK, Lose, root
<1>2. \A n \in Node : Due'[n] = Due[n]
  <2> TAKE n \in Node
  <2>1. (probes'[n] + acks'[n] + lost'[n]) - repeated'[n] = (probes[n] + acks[n] + lost[n]) - repeated[n]
    BY <1>0 DEF Lose
  <2>2. QED
    BY <2>1 DEF Due
<1>3. \A n \in Node \ accused :
        probes'[n] = 0 /\ acks'[n] = 0 /\ lost'[n] = 0 /\ repeated'[n] = 0
  BY DEF IInv, TypeOK, Lose
<1>4. QED
  BY <1>1, <1>2, <1>3, RootUnchangedInv DEF Lose

LEMMA RepeatInv ==
  ASSUME IInv, NEW node \in Node, Repeat(node)
  PROVE  IInv'
<1>0. /\ probes \in [Node -> Nat] /\ acks \in [Node -> Nat]
      /\ lost \in [Node -> Nat] /\ repeated \in [Node -> Nat]
  BY FaultLocationAssumption DEF IInv, TypeOK
<1>1. TypeOK'
  <2>1. probes' \in [Node -> Nat] /\ acks' \in [Node -> Nat]
    BY <1>0 DEF Repeat
  <2>2. repeated[node] + 1 \in 0 .. MaxRepeat
    BY <1>0, FaultLocationAssumption DEF Repeat
  <2>3. repeated' \in [Node -> 0 .. MaxRepeat]
    BY <2>2 DEF Repeat, IInv, TypeOK
  <2>4. QED
    BY <2>1, <2>3 DEF IInv, TypeOK, Repeat, root
<1>2. \A n \in Node : Due'[n] = Due[n]
  <2> TAKE n \in Node
  <2>1. (probes'[n] + acks'[n] + lost'[n]) - repeated'[n] = (probes[n] + acks[n] + lost[n]) - repeated[n]
    BY <1>0 DEF Repeat
  <2>2. QED
    BY <2>1 DEF Due
<1>3. \A n \in Node \ accused :
        probes'[n] = 0 /\ acks'[n] = 0 /\ lost'[n] = 0 /\ repeated'[n] = 0
  BY DEF IInv, TypeOK, Repeat
<1>4. QED
  BY <1>1, <1>2, <1>3, RootUnchangedInv DEF Repeat

LEMMA ReceiveAckInv ==
  ASSUME IInv, NEW node \in Node, ReceiveAck(node)
  PROVE  IInv'
<1>1. accused \in SUBSET Node /\ Due \in [Node -> Int]
  BY DEF IInv, TypeOK, Due
<1>2. InStep(suspects', accused', [Due EXCEPT ![node] = @ - 1])
  BY <1>1, DecrementInStep DEF IInv, ReceiveAck
<1>3. Due' = [Due EXCEPT ![node] = @ - 1]
  <2>1. \A n \in Node : (probes'[n] + acks'[n] + lost'[n]) - repeated'[n]
                          = IF n = node THEN Due[n] - 1 ELSE Due[n]
    BY DEF IInv, TypeOK, ReceiveAck, Due
  <2>2. QED
    BY <1>1, <2>1 DEF Due
<1>4. InStep(suspects', accused', Due')
  BY <1>2, <1>3
<1>5. TypeOK'
  BY <1>4 DEF IInv, TypeOK, ReceiveAck, InStep, Entry
<1>6. \A n \in Node \ accused' :
        probes'[n] = 0 /\ acks'[n] = 0 /\ lost'[n] = 0 /\ repeated'[n] = 0
  BY DEF IInv, TypeOK, ReceiveAck
<1>7. QED
  BY <1>4, <1>5, <1>6 DEF IInv

LEMMA NextInv == IInv /\ [Next]_vars => IInv'
<1> SUFFICES ASSUME IInv, [Next]_vars PROVE IInv'
  OBVIOUS
<1>1. CASE UNCHANGED vars
  <2>1. UNCHANGED <<suspects, arCount, accused, probes, acks, lost, repeated>>
    BY <1>1 DEF vars, root
  <2>2. TypeOK' /\ Due' = Due
    BY <2>1 DEF IInv, TypeOK, Due
  <2>3. QED
    BY <2>1, <2>2 DEF IInv
<1>2. QED
  BY <1>1, ReceiveArInv, ReceiveProbeInv, ReceiveAckInv, LoseInv, RepeatInv DEF Next

LEMMA IInvImplies == IInv => SuspicionIsUnanswered /\ AccusedAreRecorded
<1> SUFFICES ASSUME IInv PROVE SuspicionIsUnanswered /\ AccusedAreRecorded
  OBVIOUS
<1>1. AccusedAreRecorded
  BY DEF IInv, InStep, Listed, NoTwice, AccusedAreRecorded, Suspects
<1>2. ASSUME NEW n \in Suspects
      PROVE  (Suspicion(n) + repeated[n]) % ScoreMod = (probes[n] + acks[n] + lost[n]) % ScoreMod
  <2> DEFINE pos == Position(suspects, n)
  <2>1. /\ suspects \in Seq(Entry) /\ NoTwice(suspects) /\ IsSuspect(suspects, n)
        /\ ScoreMod \in Nat \ {0, 1}
    BY FaultLocationAssumption DEF IInv, InStep, Suspects, IsSuspect
  <2>2. pos \in 1 .. Len(suspects) /\ suspects[pos].node = n
    BY <2>1, PositionFacts
  <2> HIDE DEF pos
  <2>3. suspects[pos] \in Entry
    BY <2>1, <2>2
  <2>4. PICK t \in Turns : suspects[pos].negative - suspects[pos].positive = Due[n] + t
    BY <2>2 DEF IInv, InStep, Fits
  <2>5. n \in Node /\ suspects[pos].negative \in Nat /\ suspects[pos].positive \in Nat
        /\ suspects[pos].positive < ScoreMod
    BY <2>1, <2>2, <2>3 DEF Entry
  <2>6. /\ probes[n] + acks[n] + lost[n] \in Nat /\ repeated[n] \in Nat
        /\ Due[n] = (probes[n] + acks[n] + lost[n]) - repeated[n]
    <3>1. /\ probes[n] \in Nat /\ acks[n] \in Nat
          /\ lost[n] \in Nat /\ repeated[n] \in Nat
      BY <2>5, FaultLocationAssumption DEF IInv, TypeOK
    <3>2. QED
      BY <2>5, <3>1 DEF Due
  <2>7. Suspicion(n) = (suspects[pos].negative + ScoreMod - suspects[pos].positive) % ScoreMod
    BY <2>1 DEF Suspicion, pos
  <2>8. PICK a \in Nat, b \in Nat, p \in Nat, r \in Nat :
          /\ a = suspects[pos].negative /\ b = suspects[pos].positive
          /\ p = probes[n] + acks[n] + lost[n] /\ r = repeated[n] /\ Due[n] = p - r
    BY <2>5, <2>6
  <2>9. b < ScoreMod /\ a - b = p - r + t
    <3>1. t \in Int
      BY TurnFacts
    <3>2. QED
      BY <2>4, <2>5, <2>8, <3>1
  <2>10. (((a + ScoreMod - b) % ScoreMod) + r) % ScoreMod = p % ScoreMod
    BY <2>9, Remainders
  <2>11. QED
    BY <2>7, <2>8, <2>10
<1>3. QED
  BY <1>1, <1>2 DEF SuspicionIsUnanswered

(* The suspect list keeps its types and the pool its bound; suspicion is what *)
(* is unanswered, less the copies the network made; and nobody accused is     *)
(* missing while there is a free block, in whatever order ARs and answers     *)
(* come and however many are lost or repeated                                *)
(* (dmait-server-logic.c:215-301, 683-880).                                  *)
THEOREM FaultSafety == Spec => [](TypeOK /\ SuspicionIsUnanswered /\ AccusedAreRecorded)
<1>1. IInv => TypeOK /\ SuspicionIsUnanswered /\ AccusedAreRecorded
  BY IInvImplies DEF IInv
<1>2. QED
  BY InitInv, NextInv, <1>1, PTL DEF Spec
-------------------------------------------------------------------------------
(* A node whose probes and answers have all been answered and credited, with  *)
(* none lost and none repeated.                                              *)
Answered(n) == probes[n] = 0 /\ acks[n] = 0 /\ lost[n] = 0 /\ repeated[n] = 0

(* The safety half of AnsweringClears: a node that has answered every probe,  *)
(* with nothing lost or repeated, has no suspicion at that moment, however    *)
(* often its scores have wrapped, whether or not it found a block in the pool, *)
(* and whatever the other nodes of its routes did                            *)
(* (dmait-server-logic.c:251-301, 736-759).                                  *)
THEOREM AnsweredAreCleared == Spec => [](\A n \in Node : Answered(n) => Suspicion(n) = 0)
<1>1. ASSUME TypeOK, SuspicionIsUnanswered, AccusedAreRecorded, NEW n \in Node, Answered(n)
      PROVE  Suspicion(n) = 0
  <2>1. CASE IsSuspect(suspects, n)
    <3> DEFINE pos == Position(suspects, n)
    <3>1. /\ ScoreMod \in Nat \ {0, 1} /\ n \in Suspects
          /\ suspects \in Seq(Entry) /\ NoTwice(suspects)
      BY <1>1, <2>1, FaultLocationAssumption
      DEF IsSuspect, Suspects, TypeOK, Entry, AccusedAreRecorded, NoTwice
    <3>2. pos \in 1 .. Len(suspects)
      BY <2>1, <3>1, PositionFacts
    <3> HIDE DEF pos
    <3>3. suspects[pos] \in Entry
      BY <3>1, <3>2
    <3>4. PICK a \in Nat, b \in Nat :
            b < ScoreMod /\ Suspicion(n) = (a + ScoreMod - b) % ScoreMod
      <4>1. Suspicion(n) = (suspects[pos].negative + ScoreMod - suspects[pos].positive) % ScoreMod
        BY <2>1 DEF Suspicion, pos
      <4>2. /\ suspects[pos].negative \in Nat /\ suspects[pos].positive \in Nat
            /\ suspects[pos].positive < ScoreMod
        BY <3>1, <3>3 DEF Entry
      <4>3. QED
        BY <4>1, <4>2
    <3>5. a + ScoreMod - b \in Nat
      BY <3>1, <3>4
    <3>6. PICK x \in 0 .. ScoreMod - 1 : Suspicion(n) = x
      BY <3>1, <3>4, <3>5
    <3>7. (x + 0) % ScoreMod = (0 + 0 + 0) % ScoreMod
      BY <1>1, <3>1, <3>6 DEF SuspicionIsUnanswered, Answered
    <3>8. x % ScoreMod = x /\ 0 % ScoreMod = 0
      BY <3>1, <3>6
    <3>9. QED
      BY <3>6, <3>7, <3>8
  <2>2. CASE ~IsSuspect(suspects, n)
    BY <2>2 DEF Suspicion
  <2>3. QED
    BY <2>1, <2>2
<1>2. TypeOK /\ SuspicionIsUnanswered /\ AccusedAreRecorded
        => \A n \in Node : Answered(n) => Suspicion(n) = 0
  BY <1>1
<1>3. QED
  BY FaultSafety, <1>2, PTL
===============================================================================
