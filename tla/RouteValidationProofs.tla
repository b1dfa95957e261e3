------------------------- MODULE RouteValidationProofs ------------------------
(***************************************************************************)
(* Proofs about RouteValidation for every set of nodes, every pool, and     *)
(* every bound on the length of messages, on changes and on damage.         *)
(***************************************************************************)
EXTENDS RouteValidation, TLAPS, SequenceTheorems, FiniteSetTheorems

(* What is true of one RV when the links of w have existed: its authentic    *)
(* blocks name such links, the last one of a whole RV, if authentic, says    *)
(* where the RV comes from and goes to, and only altered blocks spoil the    *)
(* chain of a whole RV.                                                      *)
Sound(m, w) ==
  /\ \A i \in DOMAIN m.chain :
       m.chain[i].hmac => <<m.chain[i].node, m.chain[i].next>> \in w
  /\ LET last == m.chain[Len(m.chain)]
     IN m.whole /\ last.hmac => m.from = last.node /\ m.to = last.next
  /\ m.whole /\ (\A i \in DOMAIN m.chain : m.chain[i].hmac) => Verified(m.chain)

ParentsRecorded == \A n \in Node : Reachable(n) => <<n, parent[n]>> \in wasParent

IInv ==
  /\ TypeOK
  /\ IsFiniteSet(valid)
  /\ ParentsRecorded
  /\ \A m \in rv : Sound(m, wasParent)
  /\ AckedRouteWasWalked
  /\ PoolHoldsRecorded
-------------------------------------------------------------------------------
LEMMA ChainFacts ==
  ASSUME NEW m \in Message
  PROVE  /\ m.chain \in Seq(Block) /\ Len(m.chain) \in Nat \ {0}
         /\ DOMAIN m.chain = 1 .. Len(m.chain)
         /\ \A i \in DOMAIN m.chain : m.chain[i] \in Block
         /\ m.from \in Node /\ m.to \in Node \cup {Root} /\ m.whole \in BOOLEAN
<1>1. /\ m.chain \in Seq(Block) /\ m.chain # <<>>
      /\ m.from \in Node /\ m.to \in Node \cup {Root} /\ m.whole \in BOOLEAN
  BY DEF Message
<1>2. Len(m.chain) \in Nat \ {0}
  BY <1>1, EmptySeq, LenProperties
<1>3. DOMAIN m.chain = 1 .. Len(m.chain) /\ \A i \in 1 .. Len(m.chain) : m.chain[i] \in Block
  BY <1>1, LenProperties, ElementOfSeq
<1>4. QED
  BY <1>1, <1>2, <1>3

(* The block a node with a parent adds. *)
LEMMA SignedBlockFacts ==
  ASSUME TypeOK, NEW n \in Node, Reachable(n), NEW prev \in Node \cup {None}
  PROVE  LET b == SignedBlock(prev, n)
         IN /\ b \in Block /\ b.hmac
            /\ b.prev = prev /\ b.node = n /\ b.next = parent[n]
            /\ parent[n] \in Node \cup {Root}
<1>1. parent[n] \in Node \cup {Root}
  BY DEF TypeOK, Reachable
<1>2. QED
  BY <1>1 DEF SignedBlock, Block

(* A fresh RV is sound. *)
LEMMA StartSound ==
  ASSUME IInv, NEW n \in Node, Reachable(n)
  PROVE  LET m == [from |-> n, to |-> parent[n], chain |-> <<SignedBlock(None, n)>>,
                   whole |-> TRUE]
         IN m \in Message /\ Sound(m, wasParent)
<1> DEFINE b == SignedBlock(None, n)
           m == [from |-> n, to |-> parent[n], chain |-> <<b>>, whole |-> TRUE]
<1>1. /\ b \in Block /\ b.hmac
      /\ b.prev = None /\ b.node = n /\ b.next = parent[n]
      /\ parent[n] \in Node \cup {Root}
  BY SignedBlockFacts DEF IInv
<1>2. <<n, parent[n]>> \in wasParent
  BY DEF IInv, ParentsRecorded
<1> HIDE DEF b
<1>3. m.chain = <<b>> /\ m.from = n /\ m.to = parent[n]
  OBVIOUS
<1>4. Len(m.chain) = 1 /\ DOMAIN m.chain = {1} /\ m.chain[1] = b
  BY <1>3
<1>5. m \in Message
  BY <1>1 DEF Message
<1>6. Verified(m.chain)
  BY <1>1, <1>4 DEF Verified, BlockVerified, Authentic, Continues
<1>7. Sound(m, wasParent)
  BY <1>1, <1>2, <1>3, <1>4, <1>6 DEF Sound
<1>8. QED
  BY <1>5, <1>7 DEF b

(* A sound RV stays sound when the node it reached signs its block. *)
LEMMA ForwardSound ==
  ASSUME IInv, NEW old \in rv, old.to \in Node, Reachable(old.to)
  PROVE  LET m == [from |-> old.to, to |-> parent[old.to],
                   chain |-> Append(old.chain, SignedBlock(old.from, old.to)),
                   whole |-> old.whole]
         IN m \in Message /\ Sound(m, wasParent)
<1> DEFINE b == SignedBlock(old.from, old.to)
           c == old.chain
           k == Len(c)
           m == [from |-> old.to, to |-> parent[old.to], chain |-> Append(c, b), whole |-> old.whole]
<1>1. old \in Message /\ Sound(old, wasParent)
  BY DEF IInv, TypeOK
<1>2. /\ c \in Seq(Block) /\ k \in Nat \ {0} /\ DOMAIN c = 1 .. k
      /\ \A i \in DOMAIN c : c[i] \in Block
      /\ old.from \in Node /\ old.whole \in BOOLEAN
  BY <1>1, ChainFacts
<1>3. /\ b \in Block /\ b.hmac
      /\ b.prev = old.from /\ b.node = old.to /\ b.next = parent[old.to]
      /\ parent[old.to] \in Node \cup {Root}
  BY <1>2, SignedBlockFacts DEF IInv
<1>4. <<old.to, parent[old.to]>> \in wasParent
  BY DEF IInv, ParentsRecorded
<1> HIDE DEF b
<1>5. /\ Append(c, b) \in Seq(Block) /\ Append(c, b) # <<>> /\ Len(Append(c, b)) = k + 1
      /\ \A i \in 1 .. k : Append(c, b)[i] = c[i]
      /\ Append(c, b)[k + 1] = b
  BY <1>2, <1>3, AppendProperties
<1>6. /\ m.chain = Append(c, b) /\ m.from = old.to /\ m.to = parent[old.to]
      /\ m.whole = old.whole
  OBVIOUS
<1>7. m \in Message
  BY <1>2, <1>3, <1>5 DEF Message
<1>8. DOMAIN m.chain = 1 .. k + 1
  BY <1>5, <1>6, LenProperties
<1> HIDE DEF m
<1>9. \A i \in DOMAIN m.chain :
        m.chain[i].hmac => <<m.chain[i].node, m.chain[i].next>> \in wasParent
  <2> SUFFICES ASSUME NEW i \in 1 .. k + 1, m.chain[i].hmac
               PROVE  <<m.chain[i].node, m.chain[i].next>> \in wasParent
    BY <1>8
  <2>1. CASE i \in 1 .. k
    <3>1. m.chain[i] = c[i] /\ i \in DOMAIN c
      BY <1>2, <1>5, <1>6, <2>1
    <3>2. c[i].hmac => <<c[i].node, c[i].next>> \in wasParent
      BY <1>1, <3>1 DEF Sound
    <3>3. QED
      BY <3>1, <3>2
  <2>2. CASE i = k + 1
    BY <1>3, <1>4, <1>5, <1>6, <2>2
  <2>3. QED
    BY <1>2, <2>1, <2>2
<1>10. m.from = m.chain[k + 1].node /\ m.to = m.chain[k + 1].next
  BY <1>3, <1>5, <1>6
<1>11. ASSUME m.whole, \A i \in DOMAIN m.chain : m.chain[i].hmac
       PROVE  Verified(m.chain)
  <2>1. \A i \in 1 .. k : c[i].hmac
    BY <1>2, <1>5, <1>6, <1>8, <1>11
  <2>2. Verified(c) /\ old.from = c[k].node /\ old.to = c[k].next
    BY <1>1, <1>2, <1>6, <1>11, <2>1 DEF Sound
  <2>3. ASSUME NEW i \in 1 .. k
        PROVE  BlockVerified(m.chain, i)
    <3>1. m.chain[i] = c[i] /\ BlockVerified(c, i)
      BY <1>2, <1>5, <1>6, <2>2 DEF Verified
    <3>2. i # 1 => m.chain[i - 1] = c[i - 1]
      BY <1>2, <1>5, <1>6
    <3>3. QED
      BY <3>1, <3>2 DEF BlockVerified, Authentic, Continues
  <2>4. BlockVerified(m.chain, k + 1)
    <3>1. m.chain[k + 1] = b /\ m.chain[k] = c[k]
      BY <1>2, <1>5, <1>6
    <3>2. k + 1 # 1 /\ (k + 1) - 1 = k
      BY <1>2
    <3>3. QED
      BY <1>3, <2>2, <3>1, <3>2 DEF BlockVerified, Authentic, Continues
  <2>5. QED
    BY <1>2, <1>8, <2>3, <2>4 DEF Verified
<1>12. Sound(m, wasParent)
  BY <1>5, <1>6, <1>9, <1>10, <1>11 DEF Sound
<1>13. QED
  BY <1>7, <1>12 DEF m, b

(* An altered RV is sound: the altered block claims nothing. *)
LEMMA AlterSound ==
  ASSUME IInv, NEW old \in rv, NEW i \in DOMAIN old.chain, NEW n \in Node
  PROVE  LET m == [old EXCEPT !.chain[i] = [@ EXCEPT !.node = n, !.hmac = FALSE]]
         IN m \in Message /\ Sound(m, wasParent)
<1> DEFINE c == old.chain
           k == Len(c)
           b == [c[i] EXCEPT !.node = n, !.hmac = FALSE]
           m == [old EXCEPT !.chain[i] = [@ EXCEPT !.node = n, !.hmac = FALSE]]
<1>1. old \in Message /\ Sound(old, wasParent)
  BY DEF IInv, TypeOK
<1>2. /\ c \in Seq(Block) /\ k \in Nat \ {0} /\ DOMAIN c = 1 .. k
      /\ \A j \in DOMAIN c : c[j] \in Block
      /\ old.from \in Node /\ old.to \in Node \cup {Root} /\ old.whole \in BOOLEAN
  BY <1>1, ChainFacts
<1>3. b \in Block /\ b.hmac = FALSE
  BY <1>2 DEF Block
<1>4. /\ m.chain = [c EXCEPT ![i] = b] /\ m.from = old.from /\ m.to = old.to
      /\ m.whole = old.whole
      /\ m = [from |-> m.from, to |-> m.to, chain |-> m.chain, whole |-> m.whole]
  BY <1>1 DEF Message
<1> HIDE DEF b
<1>5. /\ [c EXCEPT ![i] = b] \in Seq(Block)
      /\ Len([c EXCEPT ![i] = b]) = k
      /\ \A j \in 1 .. k : [c EXCEPT ![i] = b][j] = IF j = i THEN b ELSE c[j]
  BY <1>2, <1>3, ExceptSeq
<1> HIDE DEF m
<1>6. DOMAIN m.chain = 1 .. k /\ Len(m.chain) = k /\ i \in 1 .. k
  BY <1>2, <1>4, <1>5, LenProperties
<1>7. \A j \in 1 .. k : m.chain[j] = IF j = i THEN b ELSE c[j]
  BY <1>4, <1>5
<1>8. m \in Message
  <2>1. m.chain # <<>>
    BY <1>2, <1>6
  <2>2. QED
    BY <1>2, <1>4, <1>5, <2>1 DEF Message
<1>9. Sound(m, wasParent)
  <2>1. \A j \in DOMAIN m.chain :
          m.chain[j].hmac => <<m.chain[j].node, m.chain[j].next>> \in wasParent
    BY <1>1, <1>2, <1>3, <1>6, <1>7 DEF Sound
  <2>2. m.whole /\ m.chain[k].hmac => m.from = m.chain[k].node /\ m.to = m.chain[k].next
    BY <1>1, <1>2, <1>3, <1>4, <1>7 DEF Sound
  <2>3. ~ \A j \in DOMAIN m.chain : m.chain[j].hmac
    BY <1>3, <1>6, <1>7
  <2>4. QED
    BY <1>6, <2>1, <2>2, <2>3 DEF Sound
<1>10. QED
  BY <1>8, <1>9 DEF m

(* A message is its four fields. *)
LEMMA MessageFields ==
  ASSUME NEW m \in Message, NEW x, DOMAIN x = DOMAIN m,
         x = [f \in DOMAIN m |-> x[f]]
  PROVE  x = [from |-> x.from, to |-> x.to, chain |-> x.chain, whole |-> x.whole]
<1>1. DOMAIN x = {"from", "to", "chain", "whole"}
  BY DEF Message
<1>2. QED
  BY <1>1

(* An RV that is not whole is sound if its blocks come from a sound one. *)
LEMMA PartSound ==
  ASSUME IInv, NEW old \in rv,
         NEW m \in Message, m.whole = FALSE,
         \A x \in DOMAIN m.chain : \E y \in DOMAIN old.chain : m.chain[x] = old.chain[y]
  PROVE  Sound(m, wasParent)
<1>1. \A y \in DOMAIN old.chain :
        old.chain[y].hmac => <<old.chain[y].node, old.chain[y].next>> \in wasParent
  BY DEF IInv, Sound
<1>2. \A x \in DOMAIN m.chain :
        m.chain[x].hmac => <<m.chain[x].node, m.chain[x].next>> \in wasParent
  BY <1>1
<1>3. QED
  BY <1>2 DEF Sound

(* So is an RV that has lost blocks. *)
LEMMA LoseSound ==
  ASSUME IInv, NEW old \in rv, NEW i \in DOMAIN old.chain, NEW j \in DOMAIN old.chain,
         i <= j, j - i + 1 < Len(old.chain)
  PROVE  LET m == [old EXCEPT !.chain = SubSeq(@, 1, i - 1) \o SubSeq(@, j + 1, Len(@)),
                              !.whole = FALSE]
         IN m \in Message /\ Sound(m, wasParent)
<1> DEFINE c == old.chain
           k == Len(c)
           front == SubSeq(c, 1, i - 1)
           back == SubSeq(c, j + 1, k)
           m == [old EXCEPT !.chain = SubSeq(@, 1, i - 1) \o SubSeq(@, j + 1, Len(@)),
                            !.whole = FALSE]
<1>1. old \in Message
  BY DEF IInv, TypeOK
<1>2. /\ c \in Seq(Block) /\ k \in Nat \ {0} /\ DOMAIN c = 1 .. k
      /\ old.from \in Node /\ old.to \in Node \cup {Root}
  BY <1>1, ChainFacts
<1>3. i \in 1 .. k /\ j \in 1 .. k /\ i <= j /\ j - i + 1 < k
  BY <1>2
<1>4. /\ front \in Seq(Block) /\ Len(front) = i - 1
      /\ \A x \in 1 .. i - 1 : front[x] = c[x]
  <2>1. \A x \in 1 .. i - 1 : c[x] \in Block
    BY <1>2, <1>3, ElementOfSeq
  <2>2. QED
    BY <1>2, <1>3, <2>1, SubSeqProperties
<1>5. /\ back \in Seq(Block) /\ Len(back) = k - j
      /\ \A x \in 1 .. k - j : back[x] = c[j + x]
  <2>1. \A x \in j + 1 .. k : c[x] \in Block
    BY <1>2, <1>3, ElementOfSeq
  <2>2. QED
    BY <1>2, <1>3, <2>1, SubSeqProperties
<1> HIDE DEF front, back
<1>6. /\ front \o back \in Seq(Block) /\ Len(front \o back) = (i - 1) + (k - j)
      /\ \A x \in 1 .. (i - 1) + (k - j) :
           (front \o back)[x] = IF x <= i - 1 THEN front[x] ELSE back[x - (i - 1)]
  <2>1. /\ front \o back \in Seq(Block) /\ Len(front \o back) = Len(front) + Len(back)
        /\ \A x \in 1 .. Len(front) + Len(back) :
             (front \o back)[x] = IF x <= Len(front) THEN front[x] ELSE back[x - Len(front)]
    BY <1>4, <1>5, ConcatProperties
  <2>2. QED
    BY <1>4, <1>5, <2>1
<1>7. /\ m.chain = front \o back /\ m.from = old.from /\ m.to = old.to /\ m.whole = FALSE
      /\ m = [from |-> m.from, to |-> m.to, chain |-> m.chain, whole |-> m.whole]
  <2>1. m.chain = front \o back
    BY <1>1 DEF Message, front, back
  <2>2. m.from = old.from /\ m.to = old.to /\ m.whole = FALSE
    BY <1>1 DEF Message
  <2>3. m = [from |-> m.from, to |-> m.to, chain |-> m.chain, whole |-> m.whole]
    <3>1. DOMAIN m = DOMAIN old /\ m = [f \in DOMAIN old |-> m[f]]
      OBVIOUS
    <3>2. QED
      BY <1>1, <3>1, MessageFields
  <2>4. QED
    BY <2>1, <2>2, <2>3
<1> HIDE DEF m
<1>8. DOMAIN m.chain = 1 .. (i - 1) + (k - j) /\ m.chain # <<>>
  <2>1. Len(m.chain) > 0
    BY <1>2, <1>3, <1>6, <1>7
  <2>2. QED
    BY <1>6, <1>7, <2>1, LenProperties, EmptySeq
<1>9. m \in Message
  BY <1>2, <1>6, <1>7, <1>8 DEF Message
<1>10. ASSUME NEW x \in DOMAIN m.chain
       PROVE  \E y \in DOMAIN c : m.chain[x] = c[y]
  <2>1. CASE x <= i - 1
    <3>1. x \in 1 .. i - 1 /\ x \in DOMAIN c
      BY <1>2, <1>3, <1>8, <2>1
    <3>2. m.chain[x] = c[x]
      BY <1>4, <1>6, <1>7, <1>8, <2>1, <3>1
    <3>3. QED
      BY <3>1, <3>2
  <2>2. CASE ~(x <= i - 1)
    <3>1. x - (i - 1) \in 1 .. k - j /\ j + (x - (i - 1)) \in DOMAIN c
      BY <1>2, <1>3, <1>8, <2>2
    <3>2. m.chain[x] = back[x - (i - 1)]
      BY <1>6, <1>7, <1>8, <2>2
    <3>3. m.chain[x] = c[j + (x - (i - 1))]
      BY <1>5, <3>1, <3>2
    <3>4. QED
      BY <3>1, <3>3
  <2>3. QED
    BY <2>1, <2>2
<1>11. Sound(m, wasParent)
  BY <1>7, <1>9, <1>10, PartSound
<1>12. QED
  BY <1>9, <1>11 DEF m

(* So is an RV passed on without a block. *)
LEMMA PassOnSound ==
  ASSUME IInv, NEW old \in rv, NEW p \in Node \cup {Root}, old.to \in Node
  PROVE  LET m == [old EXCEPT !.from = old.to, !.to = p, !.whole = FALSE]
         IN m \in Message /\ Sound(m, wasParent)
<1> DEFINE m == [old EXCEPT !.from = old.to, !.to = p, !.whole = FALSE]
<1>1. old \in Message
  BY DEF IInv, TypeOK
<1>2. m = [from |-> old.to, to |-> p, chain |-> old.chain, whole |-> FALSE]
  <2>1. DOMAIN m = DOMAIN old /\ m = [f \in DOMAIN old |-> m[f]]
    OBVIOUS
  <2>2. m = [from |-> m.from, to |-> m.to, chain |-> m.chain, whole |-> m.whole]
    BY <1>1, <2>1, MessageFields
  <2>3. m.from = old.to /\ m.to = p /\ m.chain = old.chain /\ m.whole = FALSE
    BY <1>1 DEF Message
  <2>4. QED
    BY <2>2, <2>3
<1>3. m \in Message
  BY <1>1, <1>2 DEF Message
<1>4. m.whole = FALSE /\ m.chain = old.chain
  BY <1>2
<1> HIDE DEF m
<1>5. Sound(m, wasParent)
  BY <1>3, <1>4, PartSound
<1>6. QED
  BY <1>3, <1>5 DEF m

(* What the root acknowledges of a sound RV has been walked, as far as the   *)
(* root if the RV is whole.                                                  *)
LEMMA VerifiedWasWalked ==
  ASSUME IInv, NEW m \in rv, m.to = Root, Verified(m.chain)
  PROVE  LET r == [i \in DOMAIN m.chain |-> m.chain[i].node]
         IN /\ r \in Seq(Node)
            /\ Len(r) > 0
            /\ m.whole => <<r[Len(r)], Root>> \in wasParent
            /\ \A i \in 1 .. Len(r) - 1 : <<r[i], r[i + 1]>> \in wasParent
<1> DEFINE c == m.chain
           k == Len(c)
           r == [i \in DOMAIN m.chain |-> m.chain[i].node]
<1>1. m \in Message /\ Sound(m, wasParent)
  BY DEF IInv, TypeOK
<1>2. /\ c \in Seq(Block) /\ k \in Nat \ {0} /\ DOMAIN c = 1 .. k
      /\ \A i \in DOMAIN c : c[i] \in Block
  BY <1>1, ChainFacts
<1>3. r \in Seq(Node) /\ Len(r) = k
  <2>1. \A i \in 1 .. k : c[i].node \in Node
    BY <1>2 DEF Block
  <2>2. r = [i \in 1 .. k |-> c[i].node]
    BY <1>2
  <2>3. QED
    BY <1>2, <2>1, <2>2
<1>4. \A i \in 1 .. k : r[i] = c[i].node
  BY <1>2
<1>5. \A i \in 1 .. k : c[i].hmac /\ Continues(c, i)
  BY <1>2 DEF Verified, BlockVerified, Authentic
<1>6. \A i \in 1 .. k : <<c[i].node, c[i].next>> \in wasParent
  BY <1>1, <1>2, <1>5 DEF Sound
<1>7. m.whole => c[k].next = Root
  BY <1>1, <1>2, <1>5 DEF Sound
<1> HIDE DEF r
<1>8. m.whole => <<r[k], Root>> \in wasParent
  BY <1>2, <1>4, <1>6, <1>7
<1>9. ASSUME NEW i \in 1 .. k - 1
      PROVE  <<r[i], r[i + 1]>> \in wasParent
  <2>1. i \in 1 .. k /\ i + 1 \in 1 .. k /\ i + 1 # 1 /\ (i + 1) - 1 = i
    BY <1>2
  <2>2. c[i + 1].node = c[i].next
    BY <1>5, <2>1 DEF Continues
  <2>3. QED
    BY <1>4, <1>6, <2>1, <2>2
<1>10. /\ r \in Seq(Node) /\ Len(r) > 0
       /\ m.whole => <<r[Len(r)], Root>> \in wasParent
       /\ \A i \in 1 .. Len(r) - 1 : <<r[i], r[i + 1]>> \in wasParent
  BY <1>2, <1>3, <1>8, <1>9
<1>11. QED
  BY <1>10 DEF r

(* The temporary list is never longer than a number. *)
LEMMA ExaminedNat ==
  ASSUME NEW m \in Message
  PROVE  Examined(m.chain) \in Nat
<1> DEFINE S == {k \in DOMAIN m.chain : \A i \in 1 .. k - 1 : BlockVerified(m.chain, i)}
<1>1. DOMAIN m.chain = 1 .. Len(m.chain) /\ Len(m.chain) \in Nat
  BY ChainFacts
<1>2. IsFiniteSet(1 .. Len(m.chain))
  BY <1>1, FS_Interval
<1>3. S \in SUBSET (1 .. Len(m.chain))
  BY <1>1
<1>4. IsFiniteSet(S)
  BY <1>2, <1>3, FS_Subset
<1>5. Cardinality(S) \in Nat
  BY <1>4, FS_CardinalityType
<1>6. QED
  BY <1>5 DEF Examined
-------------------------------------------------------------------------------
LEMMA InitInv == Init => IInv
<1> SUFFICES ASSUME Init
             PROVE  IInv
  OBVIOUS
<1>1. IsFiniteSet({}) /\ Cardinality({}) = 0
  BY FS_EmptySet
<1>2. TypeOK
  BY RouteValidationAssumption DEF Init, TypeOK
<1>3. PoolHoldsRecorded
  BY <1>1 DEF Init, PoolHoldsRecorded
<1>4. ParentsRecorded /\ AckedRouteWasWalked
  BY DEF Init, ParentsRecorded, Reachable, AckedRouteWasWalked
<1>5. QED
  BY <1>1, <1>2, <1>3, <1>4 DEF Init, IInv

(* A send adds a sound message at most. *)
LEMMA SendInv ==
  ASSUME IInv, NEW m \in Message, Sound(m, wasParent),
         rv' \subseteq rv \cup {m},
         UNCHANGED <<parent, valid, used, acked, moves, wasParent>>,
         damage' \in 0 .. MaxDamage
  PROVE  IInv'
<1>1. TypeOK'
  BY DEF IInv, TypeOK
<1>2. \A x \in rv' : Sound(x, wasParent)
  BY DEF IInv
<1>3. (\A x \in rv : Sound(x, wasParent))'
  <2> SUFFICES ASSUME NEW x \in rv'
               PROVE  Sound(x, wasParent')
    BY DEF Sound, Verified, BlockVerified, Authentic, Continues
  <2>1. QED
    BY <1>2
<1>4. ParentsRecorded' /\ AckedRouteWasWalked' /\ PoolHoldsRecorded' /\ IsFiniteSet(valid)'
  BY DEF IInv, ParentsRecorded, Reachable, AckedRouteWasWalked, PoolHoldsRecorded
<1>5. QED
  BY <1>1, <1>3, <1>4 DEF IInv

LEMMA RplUpdateInv ==
  ASSUME IInv, NEW n \in Node, NEW p \in Node \cup {Root, None}, RplUpdate(n, p)
  PROVE  IInv'
<1>1. wasParent \subseteq wasParent' /\ wasParent' \subseteq Node \X (Node \cup {Root})
  BY DEF IInv, TypeOK, RplUpdate
<1>2. TypeOK'
  <2>1. parent' \in [Node -> Node \cup {Root, None}]
    BY DEF IInv, TypeOK, RplUpdate
  <2>2. moves' \in 0 .. MaxMoves
    BY RouteValidationAssumption DEF IInv, TypeOK, RplUpdate
  <2>3. QED
    BY <1>1, <2>1, <2>2 DEF IInv, TypeOK, RplUpdate
<1>3. ParentsRecorded'
  <2> SUFFICES ASSUME NEW x \in Node, parent'[x] # None
               PROVE  <<x, parent'[x]>> \in wasParent'
    BY DEF ParentsRecorded, Reachable
  <2>1. CASE x = n
    BY <2>1 DEF IInv, TypeOK, RplUpdate
  <2>2. CASE x # n
    <3>1. parent'[x] = parent[x]
      BY <2>2 DEF IInv, TypeOK, RplUpdate
    <3>2. QED
      BY <1>1, <3>1 DEF IInv, ParentsRecorded, Reachable
  <2>3. QED
    BY <2>1, <2>2
<1>4. (\A m \in rv : Sound(m, wasParent))'
  <2> SUFFICES ASSUME NEW m \in rv
               PROVE  Sound(m, wasParent')
    BY DEF RplUpdate, Sound, Verified, BlockVerified, Authentic, Continues
  <2>1. Sound(m, wasParent)
    BY DEF IInv
  <2>2. QED
    BY <1>1, <2>1 DEF Sound
<1>5. AckedRouteWasWalked'
  BY <1>1 DEF IInv, AckedRouteWasWalked, RplUpdate
<1>6. PoolHoldsRecorded' /\ IsFiniteSet(valid)'
  BY DEF IInv, PoolHoldsRecorded, RplUpdate
<1>7. QED
  BY <1>2, <1>3, <1>4, <1>5, <1>6 DEF IInv

(* What a received RV leaves to be shown: the messages and links are the same. *)
LEMMA RootStep ==
  ASSUME IInv, UNCHANGED <<parent, rv, moves, damage, wasParent>>,
         valid' \subseteq Node, IsFiniteSet(valid'), used' \in 0 .. Pool,
         acked' \subseteq Ack,
         AckedRouteWasWalked', PoolHoldsRecorded'
  PROVE  IInv'
<1>1. TypeOK'
  BY DEF IInv, TypeOK
<1>2. ParentsRecorded'
  BY DEF IInv, ParentsRecorded, Reachable
<1>3. (\A m \in rv : Sound(m, wasParent))'
  BY DEF IInv, Sound, Verified, BlockVerified, Authentic, Continues
<1>4. QED
  BY <1>1, <1>2, <1>3 DEF IInv

LEMMA ReceiveRvInv ==
  ASSUME IInv, NEW m \in rv, ReceiveRv(m)
  PROVE  IInv'
<1> DEFINE first == m.chain[1].node
           k == Len(m.chain)
<1>1. /\ m \in Message /\ m.to = Root
      /\ UNCHANGED <<parent, rv, moves, damage, wasParent>>
  BY DEF IInv, TypeOK, ReceiveRv
<1>2. k \in Nat \ {0} /\ first \in Node
  <2>1. k \in Nat \ {0} /\ 1 \in DOMAIN m.chain /\ m.chain[1] \in Block
    BY <1>1, ChainFacts
  <2>2. QED
    BY <2>1 DEF Block
<1>3. /\ used \in 0 .. Pool /\ Pool \in Nat /\ valid \subseteq Node /\ IsFiniteSet(valid)
      /\ used = Cardinality(valid) /\ acked \subseteq Ack
      /\ \A n \in valid : \E a \in acked : a.to = n
  BY RouteValidationAssumption DEF IInv, TypeOK, PoolHoldsRecorded
<1>4. CASE AbortRv(m)
  <2>1. valid' = valid /\ acked' = acked /\ used' = used
    BY <1>3, <1>4 DEF AbortRv, Released
  <2>2. AckedRouteWasWalked' /\ PoolHoldsRecorded'
    BY <1>1, <2>1 DEF IInv, AckedRouteWasWalked, PoolHoldsRecorded
  <2>3. QED
    BY <1>1, <1>3, <2>1, <2>2, RootStep
<1>5. CASE AcceptRv(m)
  <2> DEFINE r == [i \in DOMAIN m.chain |-> m.chain[i].node]
             ack == [to |-> first, route |-> r, whole |-> m.whole]
             recorded == first \notin valid /\ used + k < Pool
  <2>1. Verified(m.chain) /\ used + k <= Pool
    BY <1>5 DEF AcceptRv
  <2>2. acked' = acked \cup {ack}
    BY <1>5 DEF AcceptRv
  <2>3. /\ r \in Seq(Node) /\ Len(r) > 0
        /\ m.whole => <<r[Len(r)], Root>> \in wasParent
        /\ \A i \in 1 .. Len(r) - 1 : <<r[i], r[i + 1]>> \in wasParent
    BY <1>1, <2>1, VerifiedWasWalked
  <2>4. r[1] = first
    <3>1. 1 \in DOMAIN m.chain
      BY <1>1, ChainFacts
    <3>2. QED
      BY <3>1
  <2> HIDE DEF r
  <2>5. AckedRouteWasWalked'
    <3> SUFFICES ASSUME NEW a \in acked'
                 PROVE  /\ Len(a.route) > 0 /\ a.route[1] = a.to
                        /\ a.whole => <<a.route[Len(a.route)], Root>> \in wasParent
                        /\ \A i \in 1 .. Len(a.route) - 1 :
                             <<a.route[i], a.route[i + 1]>> \in wasParent
      BY <1>1 DEF AckedRouteWasWalked
    <3>1. CASE a \in acked
      BY <3>1 DEF IInv, AckedRouteWasWalked
    <3>2. CASE a = ack
      <4>1. a.to = first /\ a.route = r /\ a.whole = m.whole
        BY <3>2
      <4>2. QED
        BY <2>3, <2>4, <4>1
    <3>3. QED
      BY <2>2, <3>1, <3>2
  <2>6. acked' \subseteq Ack
    <3>1. m.whole \in BOOLEAN
      BY <1>1, ChainFacts
    <3>2. QED
      BY <1>2, <1>3, <2>2, <2>3, <3>1 DEF Ack
  <2>7. /\ valid' = IF recorded THEN valid \cup {first} ELSE valid
        /\ used' = IF recorded THEN used + 1 ELSE used
    BY <1>2, <1>3, <1>5 DEF AcceptRv, Released
  <2>8. IsFiniteSet(valid') /\ used' = Cardinality(valid') /\ used' \in 0 .. Pool
    <3>1. CASE recorded
      <4>1. IsFiniteSet(valid \cup {first}) /\ Cardinality(valid \cup {first}) = used + 1
        BY <1>3, <3>1, FS_AddElement
      <4>2. QED
        BY <1>2, <1>3, <2>7, <3>1, <4>1
    <3>2. CASE ~recorded
      BY <1>3, <2>7, <3>2
    <3>3. QED
      BY <3>1, <3>2
  <2>9. \A n \in valid' : \E a \in acked' : a.to = n
    <3> SUFFICES ASSUME NEW n \in valid'
                 PROVE  \E a \in acked' : a.to = n
      OBVIOUS
    <3>1. CASE n = first
      <4>1. ack \in acked' /\ ack.to = n
        BY <2>2, <3>1
      <4>2. QED
        BY <4>1
    <3>2. CASE n \in valid
      BY <1>3, <2>2, <3>2
    <3>3. QED
      BY <2>7, <3>1, <3>2
  <2>10. PoolHoldsRecorded'
    BY <2>8, <2>9 DEF PoolHoldsRecorded
  <2>11. valid' \subseteq Node
    BY <1>2, <1>3, <2>7
  <2>12. QED
    BY <1>1, <2>5, <2>6, <2>8, <2>10, <2>11, RootStep
<1>6. CASE RefuseRv(m)
  <2> DEFINE e == Examined(m.chain)
  <2>1. e \in Nat
    BY <1>1, ExaminedNat
  <2>2. /\ valid' = valid \ {first} /\ acked' = acked
        /\ used' = IF first \in valid THEN used - 1 ELSE used
    <3>1. valid' = valid \ {first} /\ acked' = acked
      BY <1>6 DEF RefuseRv
    <3>2. CASE first \in valid
      <4>1. used' = ((used + e) - 1) - e
        BY <1>6, <3>2 DEF RefuseRv, Released
      <4>2. QED
        BY <1>3, <2>1, <3>1, <3>2, <4>1
    <3>3. CASE first \notin valid
      <4>1. used' = (used + e) - e
        BY <1>6, <3>3 DEF RefuseRv, Released
      <4>2. QED
        BY <1>3, <2>1, <3>1, <3>3, <4>1
    <3>4. QED
      BY <3>2, <3>3
  <2> HIDE DEF e
  <2>3. /\ IsFiniteSet(valid \ {first})
        /\ Cardinality(valid \ {first}) = IF first \in valid THEN used - 1 ELSE used
    BY <1>3, FS_RemoveElement
  <2>4. Cardinality(valid \ {first}) \in Nat
    BY <2>3, FS_CardinalityType
  <2>5. used' = Cardinality(valid') /\ used' \in 0 .. Pool
    BY <1>3, <2>1, <2>2, <2>3, <2>4
  <2>6. PoolHoldsRecorded' /\ AckedRouteWasWalked'
    BY <1>1, <1>3, <2>2, <2>5 DEF IInv, AckedRouteWasWalked, PoolHoldsRecorded
  <2>7. QED
    BY <1>1, <1>3, <2>2, <2>3, <2>5, <2>6, RootStep
<1>7. QED
  BY <1>4, <1>5, <1>6 DEF ReceiveRv

LEMMA NextInv == IInv /\ [Next]_vars => IInv'
<1> SUFFICES ASSUME IInv, [Next]_vars
             PROVE  IInv'
  OBVIOUS
<1>1. damage \in 0 .. MaxDamage /\ MaxDamage \in Nat
  BY RouteValidationAssumption DEF IInv, TypeOK
<1>2. ASSUME NEW n \in Node, NEW p \in Node \cup {Root, None}, RplUpdate(n, p)
      PROVE  IInv'
  BY <1>2, RplUpdateInv
<1>3. ASSUME NEW n \in Node, StartRouteValidation(n)
      PROVE  IInv'
  <2> DEFINE m == [from |-> n, to |-> parent[n], chain |-> <<SignedBlock(None, n)>>,
                   whole |-> TRUE]
  <2>1. m \in Message /\ Sound(m, wasParent)
    BY <1>3, StartSound DEF StartRouteValidation
  <2>2. rv' \subseteq rv \cup {m}
    BY <1>3 DEF StartRouteValidation, SendToParent
  <2>3. UNCHANGED <<parent, valid, used, acked, moves, damage, wasParent>>
    BY <1>3 DEF StartRouteValidation
  <2> HIDE DEF m
  <2>4. QED
    BY <1>1, <2>1, <2>2, <2>3, SendInv
<1>4. ASSUME NEW old \in rv, ForwardRv(old)
      PROVE  IInv'
  <2> DEFINE m == [from |-> old.to, to |-> parent[old.to],
                   chain |-> Append(old.chain, SignedBlock(old.from, old.to)),
                   whole |-> old.whole]
  <2>1. m \in Message /\ Sound(m, wasParent)
    BY <1>4, ForwardSound DEF ForwardRv
  <2>2. rv' \subseteq rv \cup {m}
    BY <1>4 DEF ForwardRv, SendToParent
  <2>3. UNCHANGED <<parent, valid, used, acked, moves, damage, wasParent>>
    BY <1>4 DEF ForwardRv
  <2> HIDE DEF m
  <2>4. QED
    BY <1>1, <2>1, <2>2, <2>3, SendInv
<1>5. ASSUME NEW old \in rv, NEW i \in DOMAIN old.chain, NEW n \in Node, Alter(old, i, n)
      PROVE  IInv'
  <2> DEFINE m == [old EXCEPT !.chain[i] = [@ EXCEPT !.node = n, !.hmac = FALSE]]
  <2>1. m \in Message /\ Sound(m, wasParent)
    BY AlterSound
  <2>2. rv' \subseteq rv \cup {m}
    BY <1>5 DEF Alter, Damage
  <2>3. UNCHANGED <<parent, valid, used, acked, moves, wasParent>> /\ damage' \in 0 .. MaxDamage
    BY <1>1, <1>5 DEF Alter, Damage
  <2> HIDE DEF m
  <2>4. QED
    BY <2>1, <2>2, <2>3, SendInv
<1>6. ASSUME NEW old \in rv, NEW i \in DOMAIN old.chain, NEW j \in DOMAIN old.chain,
             LoseBlocks(old, i, j)
      PROVE  IInv'
  <2> DEFINE m == [old EXCEPT !.chain = SubSeq(@, 1, i - 1) \o SubSeq(@, j + 1, Len(@)),
                              !.whole = FALSE]
  <2>1. m \in Message /\ Sound(m, wasParent)
    BY <1>6, LoseSound DEF LoseBlocks
  <2>2. rv' \subseteq rv \cup {m}
    BY <1>6 DEF LoseBlocks, Damage
  <2>3. UNCHANGED <<parent, valid, used, acked, moves, wasParent>> /\ damage' \in 0 .. MaxDamage
    BY <1>1, <1>6 DEF LoseBlocks, Damage
  <2> HIDE DEF m
  <2>4. QED
    BY <2>1, <2>2, <2>3, SendInv
<1>7. ASSUME NEW old \in rv, NEW p \in Node \cup {Root}, PassOnUnsigned(old, p)
      PROVE  IInv'
  <2> DEFINE m == [old EXCEPT !.from = old.to, !.to = p, !.whole = FALSE]
  <2>1. m \in Message /\ Sound(m, wasParent)
    BY <1>7, PassOnSound DEF PassOnUnsigned
  <2>2. rv' \subseteq rv \cup {m}
    BY <1>7 DEF PassOnUnsigned, Damage
  <2>3. UNCHANGED <<parent, valid, used, acked, moves, wasParent>> /\ damage' \in 0 .. MaxDamage
    BY <1>1, <1>7 DEF PassOnUnsigned, Damage
  <2> HIDE DEF m
  <2>4. QED
    BY <2>1, <2>2, <2>3, SendInv
<1>8. ASSUME NEW m \in rv, ReceiveRv(m)
      PROVE  IInv'
  BY <1>8, ReceiveRvInv
<1>9. CASE UNCHANGED vars
  <2>1. TypeOK' /\ ParentsRecorded' /\ AckedRouteWasWalked' /\ PoolHoldsRecorded'
    BY <1>9 DEF vars, IInv, TypeOK, ParentsRecorded, Reachable, AckedRouteWasWalked, PoolHoldsRecorded
  <2>2. (\A m \in rv : Sound(m, wasParent))'
    BY <1>9 DEF vars, IInv, Sound, Verified, BlockVerified, Authentic, Continues
  <2>3. QED
    BY <1>9, <2>1, <2>2 DEF vars, IInv
<1>10. QED
  BY <1>2, <1>3, <1>4, <1>5, <1>6, <1>7, <1>8, <1>9 DEF Next

(* Type correctness. *)
THEOREM TypeCorrect == Spec => []TypeOK
<1>1. IInv => TypeOK
  BY DEF IInv
<1>2. QED
  BY InitInv, NextInv, <1>1, PTL DEF Spec

(* However RPL moves the nodes, and whatever RVs are lost, repeated, late,    *)
(* altered, cut, or passed on unsigned: an RV that is whole and unaltered is  *)
(* never refused for its blocks; every link of an acknowledged route has been *)
(* one of RPL's, and if the RV was whole so has the link from its last node   *)
(* to the root, which the root never checks; and the root's pool holds its    *)
(* recorded nodes and nothing else (dmait-server-logic.c:355-609).            *)
THEOREM ValidationSafety ==
  Spec => [](UnalteredIsVerified /\ AckedRouteWasWalked /\ PoolHoldsRecorded)
<1>1. IInv => UnalteredIsVerified /\ AckedRouteWasWalked /\ PoolHoldsRecorded
  BY DEF IInv, Sound, UnalteredIsVerified
<1>2. QED
  BY InitInv, NextInv, <1>1, PTL DEF Spec
===============================================================================
