------------------------ MODULE DriverOperatorProofs --------------------------
(***************************************************************************)
(* Lemmas about the operators the driver is built from, for all blocks and *)
(* all values of the constants: blocks and their ancestors, the runs of L1 *)
(* blocks in a window, what FindL2Heads finds, and what a window derives.  *)
(***************************************************************************)
EXTENDS Derivation, SyncHeads, SequenceTheorems, WellFoundedInduction, TLAPS

(* A nonempty set of naturals with an upper bound has a maximum, and Max is it. *)
LEMMA MaxOfBounded ==
  ASSUME NEW bound \in Nat, NEW S \in SUBSET (0 .. bound), S # {}
  PROVE  Max(S) \in S /\ \A y \in S : Max(S) >= y
<1> DEFINE T == {bound - x : x \in S}
<1>1. T \subseteq Nat /\ T # {}
  <2>1. \A x \in S : bound - x \in Nat
    <3> TAKE x \in S
    <3>1. x \in 0 .. bound
      OBVIOUS
    <3> QED  BY <3>1
  <2>2. PICK x \in S : TRUE
    BY Zenon
  <2>3. bound - x \in T
    BY <2>2
  <2> QED  BY <2>1, <2>3
<1>2. PICK m \in T : \A y \in T : ~ (<<y, m>> \in OpToRel(<, Nat))
  BY <1>1, NatLessThanWellFounded, WFMin, Zenon
<1>3. PICK x \in S : m = bound - x
  OBVIOUS
<1>4. \A y \in S : x >= y
  <2> SUFFICES ASSUME NEW y \in S, ~ (x >= y) PROVE FALSE
    OBVIOUS
  <2>1. bound - y \in T /\ bound - y \in Nat /\ m \in Nat /\ bound - y < m
    BY <1>1, <1>3
  <2>2. <<bound - y, m>> \in OpToRel(<, Nat)
    BY <2>1 DEF OpToRel
  <2> QED  BY <1>2, <2>1, <2>2, Zenon
<1> QED  BY <1>4, Zenon DEF Max

(* An ancestor by number is a block of the same chain, of that number. *)
LEMMA AncestorType ==
  ASSUME NEW S, NEW b \in Seq(S), NEW n \in 0 .. Len(b)
  PROVE  /\ Ancestor(b, n) \in Seq(S)
         /\ Len(Ancestor(b, n)) = n
         /\ \A i \in 1 .. n : Ancestor(b, n)[i] = b[i]
BY SubSeqProperties DEF Ancestor

(* A block is its own ancestor at its own height. *)
LEMMA AncestorSelf ==
  ASSUME NEW S, NEW b \in Seq(S)
  PROVE  Ancestor(b, Len(b)) = b
BY SubSeqFull DEF Ancestor

(* Ancestors of ancestors are ancestors. *)
LEMMA AncestorOfAncestor ==
  ASSUME NEW S, NEW b \in Seq(S), NEW n \in 0 .. Len(b), NEW m \in 0 .. n
  PROVE  Ancestor(Ancestor(b, n), m) = Ancestor(b, m)
<1>1. Ancestor(b, n) \in Seq(S) /\ Len(Ancestor(b, n)) = n
  BY AncestorType
<1>2. /\ Ancestor(Ancestor(b, n), m) \in Seq(S)
      /\ Len(Ancestor(Ancestor(b, n), m)) = m
      /\ \A i \in 1 .. m : Ancestor(Ancestor(b, n), m)[i] = Ancestor(b, n)[i]
  BY <1>1, AncestorType
<1>3. m \in 0 .. Len(b)
  OBVIOUS
<1>4. /\ Ancestor(b, m) \in Seq(S) /\ Len(Ancestor(b, m)) = m
      /\ \A i \in 1 .. m : Ancestor(b, m)[i] = b[i]
  BY <1>3, AncestorType, Zenon
<1>5. \A i \in 1 .. m : Ancestor(b, n)[i] = b[i]
  <2>1. \A i \in 1 .. n : Ancestor(b, n)[i] = b[i]
    BY AncestorType, Zenon
  <2>2. \A i \in 1 .. m : i \in 1 .. n
    OBVIOUS
  <2> QED  BY <2>1, <2>2, Zenon
<1> QED  BY <1>2, <1>4, <1>5, SeqEqual

(* The parent of a block of a chain is the block before it on that chain. *)
LEMMA ParentOfAncestor ==
  ASSUME NEW S, NEW b \in Seq(S), NEW n \in 1 .. Len(b)
  PROVE  Ancestor(b, n) # Genesis /\ Parent(Ancestor(b, n)) = Ancestor(b, n - 1)
<1>1. n \in 0 .. Len(b) /\ n - 1 \in 0 .. n
  OBVIOUS
<1>2. Ancestor(b, n) \in Seq(S) /\ Len(Ancestor(b, n)) = n
  BY <1>1, AncestorType
<1>3. Ancestor(Ancestor(b, n), n - 1) = Ancestor(b, n - 1)
  BY <1>1, AncestorOfAncestor
<1> QED  BY <1>2, <1>3 DEF Parent, Genesis

(* The origin of a new L2 block is the one it was given. *)
LEMMA OriginOfAppend ==
  ASSUME NEW S, NEW b \in Seq(S), NEW e \in S
  PROVE  L1Origin(Append(b, e)) = e.origin
BY AppendProperties DEF L1Origin, Genesis, Last

(* The origin of an L2 block is an L1 block. *)
LEMMA OriginType ==
  ASSUME NEW P, NEW T, NEW b \in Seq([origin : Seq(P), txs : T])
  PROVE  L1Origin(b) \in Seq(P)
<1>1. CASE b = Genesis
  BY <1>1, EmptySeq DEF L1Origin, Genesis
<1>2. CASE b # Genesis
  <2>1. Len(b) \in 1 .. Len(b)
    BY <1>2, EmptySeq, LenProperties DEF Genesis
  <2>2. b[Len(b)] \in [origin : Seq(P), txs : T]
    BY <2>1, ElementOfSeq, Zenon
  <2> QED  BY <1>2, <2>2 DEF L1Origin, Last
<1> QED  BY <1>1, <1>2

(* What L1Range returns is a run of consecutive blocks after begin. *)
LEMMA L1RangeChained ==
  ASSUME NEW P, NEW l1 \in Seq(P), NEW begin \in Seq(P), NEW max \in Nat,
         ~ L1RangeFails(l1, begin)
  PROVE  /\ L1Range(l1, begin, max) \in Seq(Seq(P))
         /\ Chained(begin, L1Range(l1, begin, max))
<1> DEFINE k == IF Len(l1) <= Len(begin) THEN 0
                ELSE IF Len(l1) - Len(begin) < max THEN Len(l1) - Len(begin)
                ELSE max
           run == [i \in 1 .. k |-> Ancestor(l1, Len(begin) + i)]
<1>1. L1Range(l1, begin, max) = run
  BY DEF L1Range, Number, L1BlockRefByNumber
<1>2. k \in Nat /\ \A i \in 1 .. k : Len(begin) + i \in 1 .. Len(l1)
                                    /\ Len(begin) + i \in 0 .. Len(l1)
  BY LenProperties
<1> HIDE DEF k
<1>3. ASSUME NEW i \in 1 .. k PROVE run[i] \in Seq(P)
  <2>1. Len(begin) + i \in 0 .. Len(l1)
    BY <1>2
  <2>2. Ancestor(l1, Len(begin) + i) \in Seq(P)
    BY <2>1, AncestorType
  <2> QED  BY <2>2
<1>4. run \in Seq(Seq(P))
  BY <1>2, <1>3, IsASeq
<1>5. ASSUME NEW i \in 1 .. k
      PROVE  /\ run[i] # Genesis
             /\ Parent(run[i]) = IF i = 1 THEN begin ELSE run[i - 1]
  <2>1. run[i] # Genesis /\ Parent(run[i]) = Ancestor(l1, Len(begin) + i - 1)
    <3>1. Len(begin) + i \in 1 .. Len(l1)
      BY <1>2
    <3>2. /\ Ancestor(l1, Len(begin) + i) # Genesis
          /\ Parent(Ancestor(l1, Len(begin) + i)) = Ancestor(l1, (Len(begin) + i) - 1)
      BY <3>1, ParentOfAncestor
    <3> QED  BY <3>2
  <2>2. CASE i = 1
    <3>1. Len(begin) + 1 <= Len(l1)
      BY <1>2, <2>2
    <3>2. begin = Ancestor(l1, Len(begin))
      BY <3>1 DEF L1RangeFails, HasL1Block, IsCanonical, IsAncestor, Number
    <3>3. Len(begin) + i - 1 = Len(begin)
      BY <2>2, LenProperties
    <3> QED  BY <2>1, <2>2, <3>2, <3>3
  <2>3. CASE i # 1
    <3>1. i - 1 \in 1 .. k /\ Len(begin) + (i - 1) = Len(begin) + i - 1
      BY <1>2, <2>3, LenProperties
    <3>2. run[i - 1] = Ancestor(l1, Len(begin) + i - 1)
      BY <3>1
    <3> QED  BY <2>1, <2>3, <3>2
  <2> QED  BY <2>2, <2>3
<1>6. Chained(begin, run)
  <2>1. DOMAIN run = 1 .. k
    OBVIOUS
  <2> QED  BY <1>5, <2>1 DEF Chained
<1> QED  BY <1>1, <1>4, <1>6

(* Runs of consecutive blocks can be put one after the other. *)
LEMMA ChainedConcat ==
  ASSUME NEW S, NEW base, NEW a \in Seq(S), NEW b \in Seq(S),
         Chained(base, a), Chained(IF a = <<>> THEN base ELSE Last(a), b)
  PROVE  Chained(base, a \o b)
<1>1. Len(a) \in Nat /\ Len(b) \in Nat /\ DOMAIN a = 1 .. Len(a) /\ DOMAIN b = 1 .. Len(b)
  BY LenProperties
<1>2. /\ DOMAIN (a \o b) = 1 .. Len(a) + Len(b)
      /\ \A i \in 1 .. Len(a) + Len(b) :
           (a \o b)[i] = IF i <= Len(a) THEN a[i] ELSE b[i - Len(a)]
  BY ConcatProperties, LenProperties
<1> SUFFICES ASSUME NEW i \in 1 .. Len(a) + Len(b)
             PROVE  /\ (a \o b)[i] # Genesis
                    /\ Parent((a \o b)[i]) = IF i = 1 THEN base ELSE (a \o b)[i - 1]
  BY <1>2, Zenon DEF Chained
<1>3. CASE i <= Len(a)
  <2>1. i \in DOMAIN a /\ (a \o b)[i] = a[i]
    BY <1>1, <1>2, <1>3
  <2>2. i # 1 => (a \o b)[i - 1] = a[i - 1]
    BY <1>1, <1>2, <1>3
  <2> QED  BY <2>1, <2>2 DEF Chained
<1>4. CASE i > Len(a)
  <2> DEFINE j == i - Len(a)
  <2>1. j \in DOMAIN b /\ (a \o b)[i] = b[j]
    BY <1>1, <1>2, <1>4
  <2>2. b[j] # Genesis /\ Parent(b[j]) = IF j = 1 THEN (IF a = <<>> THEN base ELSE Last(a))
                                         ELSE b[j - 1]
    BY <2>1 DEF Chained
  <2>3. CASE j # 1
    <3>1. i # 1 /\ (a \o b)[i - 1] = b[j - 1]
      BY <1>1, <1>2, <1>4, <2>1, <2>3
    <3> QED  BY <2>1, <2>2, <2>3, <3>1
  <2>4. CASE j = 1 /\ a = <<>>
    <3>1. i = 1
      BY <1>1, <2>4, EmptySeq
    <3> QED  BY <2>1, <2>2, <2>4, <3>1
  <2>5. CASE j = 1 /\ a # <<>>
    <3>1. Len(a) # 0
      BY <2>5, EmptySeq
    <3>2. i # 1 /\ i - 1 = Len(a) /\ (a \o b)[i - 1] = a[Len(a)]
      BY <1>1, <1>2, <2>5, <3>1
    <3> QED  BY <2>1, <2>2, <2>5, <3>2 DEF Last
  <2> QED  BY <2>3, <2>4, <2>5
<1> QED  BY <1>1, <1>3, <1>4

(* A run of consecutive blocks grows by a child of its last block. *)
LEMMA ChainedAppend ==
  ASSUME NEW S, NEW base, NEW a \in Seq(S), NEW e \in S,
         Chained(base, a), e # Genesis,
         Parent(e) = IF a = <<>> THEN base ELSE Last(a)
  PROVE  Chained(base, Append(a, e))
<1>1. <<e>> \in Seq(S) /\ Append(a, e) = a \o <<e>>
  BY AppendIsConcat
<1>2. Chained(IF a = <<>> THEN base ELSE Last(a), <<e>>)
  BY DEF Chained
<1> QED  BY <1>1, <1>2, ChainedConcat, Zenon

(* What is left of a run after its first block is a run on that block. *)
LEMMA ChainedTail ==
  ASSUME NEW S, NEW base, NEW a \in Seq(S), a # <<>>, Chained(base, a)
  PROVE  Chained(a[1], Tail(a))
<1>1. /\ Tail(a) \in Seq(S) /\ Len(Tail(a)) = Len(a) - 1
      /\ \A i \in 1 .. Len(Tail(a)) : Tail(a)[i] = a[i + 1]
  BY HeadTailProperties
<1>2. DOMAIN Tail(a) = 1 .. Len(Tail(a)) /\ DOMAIN a = 1 .. Len(a) /\ Len(a) \in Nat
  BY <1>1, LenProperties
<1> SUFFICES ASSUME NEW i \in 1 .. Len(Tail(a))
             PROVE  /\ Tail(a)[i] # Genesis
                    /\ Parent(Tail(a)[i]) = IF i = 1 THEN a[1] ELSE Tail(a)[i - 1]
  BY <1>2 DEF Chained
<1>3. i + 1 \in DOMAIN a /\ i + 1 # 1 /\ (i + 1) - 1 = i /\ Tail(a)[i] = a[i + 1]
  BY <1>1, <1>2
<1>4. a[i + 1] # Genesis /\ Parent(a[i + 1]) = a[i]
  BY <1>3 DEF Chained
<1>5. i # 1 => Tail(a)[i - 1] = a[i]
  BY <1>1, <1>2
<1> QED  BY <1>3, <1>4, <1>5

(* Every block is an ancestor of itself. *)
LEMMA AncestorReflexive ==
  ASSUME NEW S, NEW b \in Seq(S)
  PROVE  IsAncestor(b, b)
BY AncestorSelf, LenProperties DEF IsAncestor

(* Of two ancestors of one block, the lower is an ancestor of the higher. *)
LEMMA AncestorsOfOne ==
  ASSUME NEW S, NEW a \in Seq(S), NEW b \in Seq(S), NEW c \in Seq(S),
         IsAncestor(a, c), IsAncestor(b, c), Len(a) <= Len(b)
  PROVE  IsAncestor(a, b)
<1>1. Len(b) \in 0 .. Len(c) /\ Len(a) \in 0 .. Len(b)
  BY LenProperties DEF IsAncestor
<1>2. Ancestor(Ancestor(c, Len(b)), Len(a)) = Ancestor(c, Len(a))
  BY <1>1, AncestorOfAncestor
<1> QED  BY <1>2 DEF IsAncestor

(* The ancestors of a block are ancestors of its children. *)
LEMMA AncestorOfAppend ==
  ASSUME NEW S, NEW a \in Seq(S), NEW b \in Seq(S), NEW e \in S, IsAncestor(a, b)
  PROVE  IsAncestor(a, Append(b, e))
<1> DEFINE c == Append(b, e)
<1>1. /\ c \in Seq(S) /\ Len(c) = Len(b) + 1
      /\ \A i \in 1 .. Len(b) : c[i] = b[i]
  BY AppendProperties
<1> HIDE DEF c
<1>2. Len(a) \in 0 .. Len(b) /\ Len(a) \in 0 .. Len(c) /\ a = Ancestor(b, Len(a))
  BY <1>1, LenProperties DEF IsAncestor
<1>3. \A i \in 1 .. Len(a) : a[i] = b[i]
  BY <1>2, AncestorType
<1>4. /\ Ancestor(c, Len(a)) \in Seq(S) /\ Len(Ancestor(c, Len(a))) = Len(a)
      /\ \A i \in 1 .. Len(a) : Ancestor(c, Len(a))[i] = c[i]
  BY <1>1, <1>2, AncestorType
<1>5. \A i \in 1 .. Len(a) : a[i] = Ancestor(c, Len(a))[i]
  BY <1>1, <1>2, <1>3, <1>4
<1>6. a = Ancestor(c, Len(a))
  BY <1>4, <1>5, SeqEqual
<1> QED  BY <1>2, <1>6 DEF IsAncestor, c

(* A block moves from what is to be inserted to what has been. *)
LEMMA MovedOver ==
  ASSUME NEW S, NEW a \in Seq(S), NEW b \in Seq(S), b # <<>>
  PROVE  Append(a, Head(b)) \o Tail(b) = a \o b
<1>1. Head(b) \in S /\ Tail(b) \in Seq(S) /\ <<Head(b)>> \in Seq(S)
  BY HeadTailProperties
<1>2. b = <<Head(b)>> \o Tail(b)
  BY ConcatSimplifications, HeadTailProperties
<1>3. Append(a, Head(b)) = a \o <<Head(b)>>
  BY <1>1, AppendIsConcat
<1>4. a \o (<<Head(b)>> \o Tail(b)) = (a \o <<Head(b)>>) \o Tail(b)
  BY <1>1, ConcatAssociative
<1> QED  BY <1>2, <1>3, <1>4

-----------------------------------------------------------------------------
(* The L1 genesis is canonical on every L1 chain. *)
LEMMA GenesisCanonical ==
  ASSUME NEW P, NEW l1 \in Seq(P)
  PROVE  IsCanonical(Genesis, l1)
<1>1. 0 \in 0 .. Len(l1) /\ Len(Genesis) = 0
  BY LenProperties, EmptySeq DEF Genesis
<1>2. Ancestor(l1, 0) \in Seq(P) /\ Len(Ancestor(l1, 0)) = 0
  BY <1>1, AncestorType
<1>3. Ancestor(l1, 0) = Genesis
  BY <1>2, EmptySeq DEF Genesis
<1> QED  BY <1>1, <1>3, LenProperties DEF IsCanonical, IsAncestor

(* Of two blocks of one chain, the lower is an ancestor of the higher. *)
LEMMA AncestorsOrdered ==
  ASSUME NEW S, NEW b \in Seq(S), NEW n \in 0 .. Len(b), NEW m \in 0 .. n
  PROVE  IsAncestor(Ancestor(b, m), Ancestor(b, n))
<1>1. m \in 0 .. Len(b)
  OBVIOUS
<1>2. Len(Ancestor(b, m)) = m /\ Len(Ancestor(b, n)) = n
  BY <1>1, AncestorType
<1>3. Ancestor(Ancestor(b, n), m) = Ancestor(b, m)
  BY AncestorOfAncestor
<1> QED  BY <1>2, <1>3 DEF IsAncestor

(***************************************************************************)
(* Loop 1 stops: the last block whose origin is the L1 genesis ends an     *)
(* epoch, and its origin is canonical.                                     *)
(***************************************************************************)
LEMMA HighestCanonicalType ==
  ASSUME NEW P, NEW E, NEW start \in Seq(E), NEW l1 \in Seq(P)
  PROVE  /\ HighestCanonical(start, l1) \in EpochEnds(start)
         /\ HighestCanonical(start, l1) \in 0 .. Len(start)
         /\ IsCanonical(OriginAt(start, HighestCanonical(start, l1)), l1)
<1> DEFINE G == {n \in 0 .. Len(start) : OriginAt(start, n) = Genesis}
           C == {n \in EpochEnds(start) : IsCanonical(OriginAt(start, n), l1)}
<1>1. Len(start) \in Nat
  BY LenProperties
<1>2. 0 \in G
  <2>1. 0 \in 0 .. Len(start)
    BY <1>1
  <2>2. Len(Ancestor(start, 0)) = 0 /\ Ancestor(start, 0) \in Seq(E)
    BY <2>1, AncestorType
  <2>3. Ancestor(start, 0) = Genesis
    BY <2>2, EmptySeq DEF Genesis
  <2> QED  BY <2>1, <2>3 DEF OriginAt, L1Origin
<1>3. G \in SUBSET (0 .. Len(start)) /\ G # {}
  BY <1>2
<1>4. Max(G) \in G /\ \A y \in G : Max(G) >= y
  BY <1>1, <1>3, MaxOfBounded, Zenon
<1>5. Max(G) \in EpochEnds(start)
  <2>1. Max(G) \in 0 .. Len(start) /\ OriginAt(start, Max(G)) = Genesis
    BY <1>4
  <2>2. ASSUME Max(G) < Len(start) PROVE OriginAt(start, Max(G) + 1) # Genesis
    <3>1. Max(G) + 1 \in 0 .. Len(start) /\ ~ (Max(G) >= Max(G) + 1)
      BY <1>1, <2>1, <2>2
    <3> QED  BY <1>4, <3>1
  <2> HIDE DEF G
  <2> QED  BY <2>1, <2>2 DEF EpochEnds, Number
<1>6. Max(G) \in C
  BY <1>4, <1>5, GenesisCanonical
<1>7. C \in SUBSET (0 .. Len(start)) /\ C # {}
  BY <1>6 DEF EpochEnds, Number
<1>8. Max(C) \in C
  BY <1>1, <1>7, MaxOfBounded, Zenon
<1> QED  BY <1>7, <1>8 DEF HighestCanonical

(* The unsafe head is a block of the chain, not below where loop 1 stops. *)
LEMMA UnsafeHeadPlace ==
  ASSUME NEW P, NEW E, NEW start \in Seq(E), NEW l1 \in Seq(P)
  PROVE  \E n \in HighestCanonical(start, l1) .. Len(start) :
           UnsafeHead(start, l1) = Ancestor(start, n)
<1> DEFINE top == HighestCanonical(start, l1)
           ends == {n \in EpochEnds(start) : n >= top}
           S == {n \in ends : \A m \in ends : m <= n => Plausible(OriginAt(start, m), l1)}
<1>1. Len(start) \in Nat
  BY LenProperties
<1>2. top \in EpochEnds(start) /\ top \in 0 .. Len(start) /\ IsCanonical(OriginAt(start, top), l1)
  BY HighestCanonicalType
<1>3. EpochEnds(start) \subseteq 0 .. Len(start)
  BY DEF EpochEnds, Number
<1>4. UnsafeHead(start, l1) = Ancestor(start, Max(S))
  BY DEF UnsafeHead
<1> HIDE DEF top
<1>5. top \in ends
  BY <1>2
<1>6. ASSUME NEW m \in ends, m <= top PROVE Plausible(OriginAt(start, m), l1)
  <2>1. m = top
    BY <1>2, <1>3, <1>6
  <2> QED  BY <1>2, <2>1 DEF Plausible
<1>7. top \in S
  BY <1>5, <1>6
<1>8. S \in SUBSET (0 .. Len(start)) /\ S # {}
  BY <1>3, <1>7
<1>9. Max(S) \in S
  BY <1>1, <1>8, MaxOfBounded, Zenon
<1>10. Max(S) \in top .. Len(start)
  <2>1. Max(S) \in 0 .. Len(start) /\ Max(S) >= top
    BY <1>8, <1>9
  <2> HIDE DEF S
  <2> QED  BY <1>1, <1>2, <2>1
<1> QED  BY <1>4, <1>10, Zenon DEF top

(* The safe head is a block of the chain, not above where loop 1 stops. *)
LEMMA SafeHeadPlace ==
  ASSUME NEW P, NEW E, NEW start \in Seq(E), NEW l1 \in Seq(P)
  PROVE  \E n \in 0 .. HighestCanonical(start, l1) :
           SafeHead(start, l1) = Ancestor(start, n)
<1> DEFINE top == HighestCanonical(start, l1)
           Depth(n) == Cardinality({m \in EpochEnds(start) : n <= m /\ m <= top})
           reached == {n \in EpochEnds(start) : n <= top /\ Depth(n) = SeqWindowSize}
<1>1. Len(start) \in Nat /\ top \in 0 .. Len(start)
  BY LenProperties, HighestCanonicalType
<1>2. SafeHead(start, l1) = IF reached = {} THEN Genesis ELSE Ancestor(start, Max(reached))
  BY DEF SafeHead
<1> HIDE DEF top
<1>3. CASE reached = {}
  <2>1. 0 \in 0 .. Len(start) /\ 0 \in 0 .. top
    BY <1>1
  <2>2. Len(Ancestor(start, 0)) = 0 /\ Ancestor(start, 0) \in Seq(E)
    BY <2>1, AncestorType
  <2>3. Ancestor(start, 0) = Genesis
    BY <2>2, EmptySeq DEF Genesis
  <2> QED  BY <1>2, <1>3, <2>1, <2>3 DEF top
<1>4. CASE reached # {}
  <2>1. \A n \in EpochEnds(start) : n <= top => n \in 0 .. top
    BY <1>1 DEF EpochEnds, Number
  <2>2. reached \in SUBSET (0 .. top) /\ top \in Nat
    BY <1>1, <2>1
  <2> HIDE DEF reached
  <2>3. Max(reached) \in reached
    BY <1>4, <2>2, MaxOfBounded, Zenon
  <2> QED  BY <1>2, <1>4, <2>2, <2>3, Zenon DEF top
<1> QED  BY <1>3, <1>4, Zenon

(***************************************************************************)
(* FindL2Heads, when it succeeds on an L1 chain that stands still, returns *)
(* a safe head that is an ancestor of the unsafe head, which is an         *)
(* ancestor of the block the search started from.                          *)
(***************************************************************************)
THEOREM FindL2HeadsOrdered ==
  ASSUME NEW P, NEW T, NEW start \in Seq([origin : Seq(P), txs : T]), NEW l1 \in Seq(P)
  PROVE  /\ UnsafeHead(start, l1) \in Seq([origin : Seq(P), txs : T])
         /\ SafeHead(start, l1) \in Seq([origin : Seq(P), txs : T])
         /\ IsAncestor(SafeHead(start, l1), UnsafeHead(start, l1))
         /\ IsAncestor(UnsafeHead(start, l1), start)
<1>1. PICK u \in HighestCanonical(start, l1) .. Len(start) :
        UnsafeHead(start, l1) = Ancestor(start, u)
  BY UnsafeHeadPlace
<1>2. PICK s \in 0 .. HighestCanonical(start, l1) : SafeHead(start, l1) = Ancestor(start, s)
  BY SafeHeadPlace
<1>3. Len(start) \in Nat /\ HighestCanonical(start, l1) \in 0 .. Len(start)
  BY LenProperties, HighestCanonicalType
<1>4. u \in 0 .. Len(start) /\ s \in 0 .. u /\ s \in 0 .. Len(start)
  BY <1>1, <1>2, <1>3
<1>5. Len(start) \in 0 .. Len(start)
  BY <1>3
<1>6. Ancestor(start, Len(start)) = start
  BY AncestorSelf
<1>7. IsAncestor(Ancestor(start, s), Ancestor(start, u))
  BY <1>4, AncestorsOrdered
<1>8. IsAncestor(Ancestor(start, u), Ancestor(start, Len(start)))
  BY <1>4, <1>5, AncestorsOrdered, Zenon
<1>9. /\ Ancestor(start, u) \in Seq([origin : Seq(P), txs : T])
      /\ Ancestor(start, s) \in Seq([origin : Seq(P), txs : T])
  BY <1>4, AncestorType
<1> QED  BY <1>1, <1>2, <1>6, <1>7, <1>8, <1>9

-----------------------------------------------------------------------------
(* The upper bound on batch timestamps leaves room for one block. *)
LEMMA MaxL2TimeBounds ==
  ASSUME NEW minL2Time \in Nat, NEW l1Time \in Nat
  PROVE  MaxL2Time(minL2Time, l1Time) \in Nat
<1> DEFINE S == {l1Time + MaxSequencerDrift, minL2Time + BlockTime}
           bound == l1Time + MaxSequencerDrift + minL2Time + BlockTime
<1>1. S \in SUBSET (0 .. bound) /\ S # {} /\ bound \in Nat
  BY BlockTimeAssumption, MaxSequencerDriftAssumption
<1> HIDE DEF S, bound
<1>2. Max(S) \in S
  BY <1>1, MaxOfBounded
<1> QED  BY <1>2, BlockTimeAssumption, MaxSequencerDriftAssumption DEF MaxL2Time, S

(* FilterBatches returns batches, all of them within the epoch's time bounds. *)
LEMMA FilterBatchesType ==
  ASSUME NEW lists \in Seq(Seq(Batch)), NEW epoch \in Nat,
         NEW minL2Time \in Nat, NEW maxL2Time \in Nat
  PROVE  \A b \in FilterBatches(lists, epoch, minL2Time, maxL2Time) :
           b \in Batch /\ minL2Time <= b.time /\ b.time < maxL2Time
<1> DEFINE places == UNION {{<<i, j>> : j \in DOMAIN lists[i]} : i \in DOMAIN lists}
           At(p) == lists[p[1]][p[2]]
<1> SUFFICES ASSUME NEW b \in FilterBatches(lists, epoch, minL2Time, maxL2Time)
             PROVE  b \in Batch /\ minL2Time <= b.time /\ b.time < maxL2Time
  OBVIOUS
<1>1. PICK p \in places : b = At(p) /\ ValidBatch(At(p), epoch, minL2Time, maxL2Time)
  BY DEF FilterBatches
<1>2. PICK i \in DOMAIN lists : p \in {<<i, j>> : j \in DOMAIN lists[i]}
  OBVIOUS
<1>3. PICK j \in DOMAIN lists[i] : p = <<i, j>>
  BY <1>2
<1>4. lists[i] \in Seq(Batch)
  BY ElementOfSeq, LenProperties
<1>5. lists[i][j] \in Batch
  BY <1>4, ElementOfSeq, LenProperties
<1> QED  BY <1>1, <1>3, <1>5 DEF ValidBatch

(* The last timestamp of an epoch is never before its first. *)
LEMMA NewHeadBounds ==
  ASSUME NEW batches, NEW minL2Time \in Nat, NEW maxL2Time \in Nat, NEW nextL1Time \in Nat,
         \A b \in batches : b \in Batch /\ minL2Time <= b.time /\ b.time < maxL2Time
  PROVE  /\ NewHeadL2Timestamp(batches, minL2Time, nextL1Time) \in Nat
         /\ NewHeadL2Timestamp(batches, minL2Time, nextL1Time) >= minL2Time
<1> DEFINE keepUp == IF nextL1Time > minL2Time + BlockTime
                     THEN {nextL1Time - BlockTime} ELSE {}
           S == {minL2Time} \cup keepUp \cup {b.time : b \in batches}
           bound == minL2Time + maxL2Time + nextL1Time
<1>1. keepUp \subseteq 0 .. bound
  BY BlockTimeAssumption
<1>2. \A b \in batches : b.time \in 0 .. bound
  BY DEF Batch
<1>3. S \in SUBSET (0 .. bound) /\ minL2Time \in S /\ bound \in Nat
  BY <1>1, <1>2
<1>4. Max(S) \in S /\ \A y \in S : Max(S) >= y
  BY <1>3, MaxOfBounded, Zenon
<1>5. NewHeadL2Timestamp(batches, minL2Time, nextL1Time) = Max(S)
  BY DEF NewHeadL2Timestamp
<1> HIDE DEF S
<1>6. Max(S) \in 0 .. bound /\ Max(S) >= minL2Time
  BY <1>3, <1>4, Zenon
<1> QED  BY <1>3, <1>5, <1>6

(***************************************************************************)
(* An epoch derives a nonempty sequence of transaction lists, whatever the *)
(* window holds: the safe head advances with every epoch.                  *)
(***************************************************************************)
THEOREM EpochTxsType ==
  ASSUME NEW lists \in Seq(Seq(Batch)), NEW epoch \in Nat, NEW safeTime \in Nat,
         NEW l1Time \in Nat, NEW nextL1Time \in Nat
  PROVE  /\ EpochTxs(epoch, safeTime, l1Time, nextL1Time, lists) \in Seq(Txs)
         /\ EpochTxs(epoch, safeTime, l1Time, nextL1Time, lists) # <<>>
<1> DEFINE minL2Time == safeTime + BlockTime
           maxL2Time == MaxL2Time(minL2Time, l1Time)
           batches == FilterBatches(lists, epoch, minL2Time, maxL2Time)
           newHead == NewHeadL2Timestamp(batches, minL2Time, nextL1Time)
           count == (newHead - minL2Time) \div BlockTime + 1
           InSlot(i) == {b \in batches : b.time = minL2Time + (i - 1) * BlockTime}
           Slot(i) == IF InSlot(i) = {} THEN NoTxs
                      ELSE (CHOOSE b \in InSlot(i) : TRUE).txs
<1>0. minL2Time \in Nat
  BY BlockTimeAssumption
<1> HIDE DEF minL2Time
<1>1. minL2Time \in Nat /\ maxL2Time \in Nat
  BY <1>0, MaxL2TimeBounds, Zenon
<1> HIDE DEF maxL2Time
<1>2. \A b \in batches : b \in Batch /\ minL2Time <= b.time /\ b.time < maxL2Time
  BY <1>1, FilterBatchesType
<1> HIDE DEF batches
<1>3. newHead \in Nat /\ newHead >= minL2Time
  BY <1>1, <1>2, NewHeadBounds
<1> HIDE DEF newHead
<1>4. count \in Nat \ {0}
  BY <1>1, <1>3, BlockTimeAssumption
<1> HIDE DEF count
<1>5. \A i \in 1 .. count : Slot(i) \in Txs
  <2> TAKE i \in 1 .. count
  <2>1. CASE InSlot(i) = {}
    BY <2>1, TxsAssumption
  <2>2. CASE InSlot(i) # {}
    <3>1. (CHOOSE b \in InSlot(i) : TRUE) \in InSlot(i)
      BY <2>2
    <3>2. (CHOOSE b \in InSlot(i) : TRUE) \in Batch
      BY <1>2, <3>1
    <3> QED  BY <2>2, <3>2 DEF Batch
  <2> QED  BY <2>1, <2>2
<1>6. EpochTxs(epoch, safeTime, l1Time, nextL1Time, lists) = [i \in 1 .. count |-> Slot(i)]
  BY DEF EpochTxs, FillMissingBatches, minL2Time, maxL2Time, batches, newHead, count
<1> HIDE DEF Slot
<1>7. [i \in 1 .. count |-> Slot(i)] \in Seq(Txs)
  BY <1>4, <1>5, IsASeq
<1>8. 1 \in DOMAIN [i \in 1 .. count |-> Slot(i)]
  BY <1>4
<1> QED  BY <1>6, <1>7, <1>8

(* A nonempty set of naturals has a least element. *)
LEMMA LeastNumber ==
  ASSUME NEW T \in SUBSET Nat, T # {}
  PROVE  \E m \in T : \A k \in T : m <= k
<1>1. PICK m \in T : \A y \in T : ~ (<<y, m>> \in OpToRel(<, Nat))
  BY NatLessThanWellFounded, WFMin, Zenon
<1>2. \A k \in T : m <= k
  <2> SUFFICES ASSUME NEW k \in T, ~ (m <= k)  PROVE FALSE
    OBVIOUS
  <2>1. k \in Nat /\ m \in Nat /\ k < m
    OBVIOUS
  <2>2. <<k, m>> \in OpToRel(<, Nat)
    BY <2>1 DEF OpToRel
  <2> QED  BY <1>1, <2>2, Zenon
<1> QED  BY <1>2

(* What is appended is appended at the end. *)
LEMMA ConcatAppend ==
  ASSUME NEW S, NEW a \in Seq(S), NEW b \in Seq(S), NEW e \in S
  PROVE  a \o Append(b, e) = Append(a \o b, e)
OBVIOUS

(* A block is its parent and what it adds. *)
LEMMA ParentAndLast ==
  ASSUME NEW S, NEW b \in Seq(S), b # <<>>
  PROVE  /\ Parent(b) \in Seq(S) /\ Last(b) \in S /\ b = Append(Parent(b), Last(b))
<1>1. Len(b) \in Nat /\ Len(b) # 0 /\ Len(b) \in 1 .. Len(b) /\ Len(b) - 1 \in 0 .. Len(b)
  BY LenProperties, EmptySeq
<1>2. /\ Parent(b) \in Seq(S) /\ Len(Parent(b)) = Len(b) - 1
      /\ \A i \in 1 .. Len(b) - 1 : Parent(b)[i] = b[i]
  BY <1>1, AncestorType DEF Parent
<1>3. Last(b) \in S /\ Last(b) = b[Len(b)]
  BY <1>1, ElementOfSeq DEF Last
<1>4. PICK p : p = Parent(b)
  OBVIOUS
<1>5. PICK e : e = Last(b)
  OBVIOUS
<1>6. /\ Append(p, e) \in Seq(S) /\ Len(Append(p, e)) = Len(p) + 1
      /\ Append(p, e)[Len(p) + 1] = e /\ \A i \in 1 .. Len(p) : Append(p, e)[i] = p[i]
  BY <1>2, <1>3, <1>4, <1>5, AppendProperties
<1>7. Len(Append(p, e)) = Len(b)
  BY <1>1, <1>2, <1>4, <1>6
<1>8. ASSUME NEW i \in 1 .. Len(b)  PROVE b[i] = Append(p, e)[i]
  <2>1. CASE i = Len(b)
    <3>1. i = Len(p) + 1
      BY <1>1, <1>2, <1>4, <2>1
    <3> QED  BY <1>3, <1>5, <1>6, <2>1, <3>1
  <2>2. CASE i # Len(b)
    <3>1. i \in 1 .. Len(b) - 1 /\ i \in 1 .. Len(p)
      BY <1>1, <1>2, <1>4, <2>2
    <3> QED  BY <1>2, <1>4, <1>6, <3>1
  <2> QED  BY <2>1, <2>2, Zenon
<1>9. b = Append(p, e)
  BY <1>6, <1>7, <1>8, SeqEqual
<1> QED  BY <1>2, <1>3, <1>4, <1>5, <1>9
=============================================================================
