--------------------------- MODULE SyncStartProofs ----------------------------
(***************************************************************************)
(* FindL2Heads query by query, for every L2 chain, every L1 chain and all  *)
(* values of the constants: while L1 stands still its two loops compute    *)
(* what SyncHeads defines, and whatever L1 does the heads are in order.    *)
(***************************************************************************)
EXTENDS SyncStart, DriverOperatorProofs, FiniteSetTheorems

(* The ends of epochs on the way back from start, and the origin of each block. *)
Ends == EpochEnds(start)
OriginOf(m) == OriginAt(start, m)
Top == HighestCanonical(start, l1)

(* The plausible ends with no implausible one between them and block k. *)
Candidates(k) ==
  {m \in Ends : m >= k /\ \A j \in Ends : k <= j /\ j <= m => Plausible(OriginOf(j), l1)}

CandidateIs(k) ==
  \/ candidate = {} /\ Candidates(k) = {}
  \/ \E c \in Candidates(k) : candidate = {c} /\ \A y \in Candidates(k) : y <= c

NoneCanonical(k) == \A m \in Ends : m >= k => ~ IsCanonical(OriginOf(m), l1)

(* The epochs that loop 2 counts down to block k. *)
EpochsFrom(k) == {m \in Ends : k <= m /\ m <= Top}

(* The types of the variables; the candidate is not below the current block. *)
Types ==
  /\ start \in L2Block /\ l1 \in L1Block /\ foreign \in BOOLEAN /\ moves \in Nat
  /\ pc \in {"epoch", "number", "parent", "depth", "done"}
  /\ n \in 0 .. Len(start) /\ depth \in Nat
  /\ candidate = {} \/ \E c \in n .. Len(start) : candidate = {c}

(* Whatever L1 does: loop 2 has a candidate, and the heads are blocks of start's chain. *)
Result(u, s) == result.unsafe = Ancestor(start, u) /\ result.safe = Ancestor(start, s)
Ordered ==
  /\ pc = "depth" => candidate # {} /\ ~ foreign
  /\ pc = "done" /\ result.err = "nil" =>
       ~ foreign /\ \E u \in 0 .. Len(start) : \E s \in 0 .. u : Result(u, s)

(***************************************************************************)
(* While L1 stands still.  Loop 1, before it looks at block n, while it    *)
(* does, and after it: no end of an epoch it has passed is canonical, and  *)
(* the candidate is the highest plausible one since the last implausible   *)
(* one.  Loop 2 starts at Top, and has counted the epochs above n.         *)
(***************************************************************************)
AtEpoch ==
  /\ prevOrigin = IF n = Len(start) THEN {} ELSE {OriginOf(n + 1)}
  /\ NoneCanonical(n + 1) /\ CandidateIs(n + 1)
AtNumber ==
  /\ n \in Ends /\ Number(OriginOf(n)) <= Len(l1) /\ prevOrigin = {OriginOf(n)}
  /\ NoneCanonical(n + 1) /\ CandidateIs(n + 1)
AtParent == prevOrigin = {OriginOf(n)} /\ NoneCanonical(n) /\ CandidateIs(n)
AtDepth ==
  /\ ~ ReorgTooDeep(start, l1) /\ CandidateIs(Top) /\ n <= Top
  /\ \/ n = Top /\ prevOrigin = {OriginOf(n)} /\ depth = 1
     \/ /\ n < Top /\ prevOrigin = {OriginOf(n + 1)}
        /\ depth = Cardinality(EpochsFrom(n + 1))
  /\ \A m \in n + 1 .. Top : Cardinality(EpochsFrom(m)) # SeqWindowSize

Still ==
  moves = 0 /\ ~ foreign =>
    /\ pc \in {"epoch", "number", "parent"} => depth = 1 /\ Number(start) - n < MaxReorgDepth
    /\ pc = "epoch" => AtEpoch
    /\ pc = "number" => AtNumber
    /\ pc = "parent" => AtParent
    /\ pc = "depth" => AtDepth
    /\ AgreesWithSyncHeads

IInv == Types /\ Ordered /\ Still

-----------------------------------------------------------------------------
(* The ends of epochs are numbers of blocks, and the origins are L1 blocks. *)
LEMMA EndsFacts ==
  ASSUME Types
  PROVE  /\ Len(start) \in Nat /\ Len(l1) \in Nat /\ n \in Nat /\ Ends \subseteq 0 .. Len(start)
         /\ \A m \in 0 .. Len(start) :
              m \in Ends <=> (m < Len(start) => OriginOf(m) # OriginOf(m + 1))
         /\ \A m \in 0 .. Len(start) : OriginOf(m) \in L1Block /\ Len(OriginOf(m)) \in Nat
<1>1. Len(start) \in Nat /\ Len(l1) \in Nat
  BY LenProperties DEF Types, L2Block, L1Block
<1>2. ASSUME NEW m \in 0 .. Len(start)
      PROVE  OriginOf(m) \in L1Block /\ Len(OriginOf(m)) \in Nat
  <2>1. PICK b : b = Ancestor(start, m)
    OBVIOUS
  <2>2. b \in Seq([origin : Seq(Payload)])
    BY <2>1, AncestorType DEF Types, L2Block, L1Block
  <2>3. L1Origin(b) \in Seq(Payload)
    <3>1. CASE b = Genesis
      BY <3>1, EmptySeq DEF L1Origin, Genesis
    <3>2. CASE b # Genesis
      <4>1. Len(b) \in 1 .. Len(b)
        BY <2>2, <3>2, EmptySeq, LenProperties DEF Genesis
      <4>2. b[Len(b)] \in [origin : Seq(Payload)]
        BY <2>2, <4>1, ElementOfSeq, Zenon
      <4> QED  BY <3>2, <4>2 DEF L1Origin, Last
    <3> QED  BY <3>1, <3>2
  <2> QED  BY <2>1, <2>3, LenProperties DEF OriginOf, OriginAt, L1Block
<1> QED  BY <1>1, <1>2 DEF Ends, OriginOf, EpochEnds, Number, Types

(* Top is the highest end of an epoch whose origin is canonical. *)
LEMMA TopFacts ==
  ASSUME Types
  PROVE  /\ Top \in Ends /\ Top \in 0 .. Len(start) /\ IsCanonical(OriginOf(Top), l1)
         /\ \A m \in Ends : IsCanonical(OriginOf(m), l1) => m <= Top
<1>1. Top \in Ends /\ Top \in 0 .. Len(start) /\ IsCanonical(OriginOf(Top), l1)
  BY HighestCanonicalType DEF Types, L2Block, L1Block, Top, Ends, OriginOf
<1> DEFINE C == {m \in Ends : IsCanonical(OriginOf(m), l1)}
<1>2. C \in SUBSET (0 .. Len(start)) /\ C # {} /\ Len(start) \in Nat
  BY <1>1, EndsFacts, Zenon
<1>3. \A y \in C : Max(C) >= y
  BY <1>2, MaxOfBounded, Zenon
<1>4. Top = Max(C)
  BY DEF Top, HighestCanonical, Ends, OriginOf
<1>5. ASSUME NEW m \in Ends, IsCanonical(OriginOf(m), l1)  PROVE m <= Top
  <2>1. m \in C
    BY <1>5
  <2>2. Max(C) >= m
    BY <1>3, <2>1
  <2> HIDE DEF C
  <2> QED  BY <1>1, <1>4, <2>2, EndsFacts
<1> QED  BY <1>1, <1>5

(* An origin that is ahead of L1 is not canonical. *)
LEMMA AheadNotCanonical ==
  ASSUME Types, NEW m \in 0 .. Len(start)
  PROVE  /\ Number(OriginOf(m)) > Len(l1) => ~ IsCanonical(OriginOf(m), l1)
         /\ Plausible(OriginOf(m), l1)
              <=> Number(OriginOf(m)) > Len(l1) \/ IsCanonical(OriginOf(m), l1)
BY EndsFacts DEF Number, IsCanonical, IsAncestor, Plausible

(* How the candidates change with one more block. *)
LEMMA CandidatesStep ==
  ASSUME Types, NEW k \in 0 .. Len(start)
  PROVE  /\ k \notin Ends => Candidates(k) = Candidates(k + 1)
         /\ k \in Ends /\ Plausible(OriginOf(k), l1) => Candidates(k) = {k} \cup Candidates(k + 1)
         /\ k \in Ends /\ ~ Plausible(OriginOf(k), l1) => Candidates(k) = {}
<1> DEFINE P(j) == Plausible(OriginOf(j), l1)
<1>1. /\ \A i : Candidates(i) = {m \in Ends : m >= i /\ \A j \in Ends : i <= j /\ j <= m => P(j)}
      /\ Ends \subseteq Nat /\ k \in Nat
  BY EndsFacts DEF Candidates
<1> HIDE DEF P
<1>2. CASE k \notin Ends
  <2>1. \A m \in Ends : (m >= k <=> m >= k + 1) /\ (k <= m <=> k + 1 <= m)
    BY <1>1, <1>2
  <2> QED  BY <1>1, <1>2, <2>1, Zenon
<1>3. CASE k \in Ends /\ P(k)
  <2>1. \A m \in Ends : m >= k <=> (m = k \/ m >= k + 1)
    BY <1>1
  <2>2. \A m \in Ends : k <= m <=> (m = k \/ k + 1 <= m)
    BY <1>1
  <2>3. \A m \in Candidates(k) : m = k \/ m \in Candidates(k + 1)
    BY <1>1, <2>1, <2>2, Zenon
  <2>4. k \in Candidates(k)
    <3>1. ASSUME NEW j \in Ends, k <= j, j <= k  PROVE P(j)
      BY <1>1, <1>3, <3>1
    <3> QED  BY <1>1, <1>3, <3>1
  <2>5. ASSUME NEW m \in Candidates(k + 1)  PROVE m \in Candidates(k)
    <3>1. m \in Ends /\ m >= k + 1 /\ \A j \in Ends : k + 1 <= j /\ j <= m => P(j)
      BY <1>1
    <3>2. m >= k
      BY <1>1, <3>1
    <3>3. ASSUME NEW j \in Ends, k <= j, j <= m  PROVE P(j)
      <4>1. j = k \/ k + 1 <= j
        BY <2>2, <3>3
      <4> QED  BY <1>3, <3>1, <3>3, <4>1
    <3> QED  BY <1>1, <3>1, <3>2, <3>3
  <2> QED  BY <1>3, <2>3, <2>4, <2>5 DEF P
<1>4. CASE k \in Ends /\ ~ P(k)
  <2>1. ASSUME NEW m \in Candidates(k)  PROVE FALSE
    <3>1. m \in Ends /\ k <= m /\ (k <= k /\ k <= m => P(k))
      BY <1>1, <1>4
    <3> QED  BY <1>1, <1>4, <3>1
  <2> QED  BY <1>4, <2>1 DEF P
<1> QED  BY <1>2, <1>3, <1>4 DEF P

(* The highest candidate when loop 1 ends is the unsafe head of SyncHeads. *)
LEMMA CandidateIsUnsafeHead ==
  ASSUME Types, NEW c \in Candidates(Top), \A y \in Candidates(Top) : y <= c
  PROVE  UnsafeHead(start, l1) = Ancestor(start, c)
<1> DEFINE ends == {m \in Ends : m >= Top}
           S == {m \in ends : \A j \in ends : j <= m => Plausible(OriginOf(j), l1)}
<1>1. UnsafeHead(start, l1) = Ancestor(start, Max(S))
  BY DEF UnsafeHead, Ends, Top, OriginOf
<1>2. Ends \subseteq 0 .. Len(start) /\ Len(start) \in Nat /\ Top \in 0 .. Len(start)
  BY EndsFacts, TopFacts
<1>3. \A j \in Ends : j >= Top <=> Top <= j
  BY <1>2
<1>4. S = Candidates(Top)
  BY <1>3 DEF Candidates
<1>5. S \in SUBSET (0 .. Len(start)) /\ S # {}
  BY <1>2, <1>4, Zenon
<1> HIDE DEF S
<1>6. Max(S) \in S /\ Max(S) >= c
  BY <1>2, <1>4, <1>5, MaxOfBounded, Zenon
<1>7. Max(S) <= c /\ Max(S) \in Nat /\ c \in Nat
  BY <1>2, <1>4, <1>5, <1>6
<1> QED  BY <1>1, <1>6, <1>7

(* How the number of epochs changes with one more block. *)
LEMMA CountStep ==
  ASSUME Types
  PROVE  /\ Cardinality(EpochsFrom(Top)) = 1
         /\ \A k \in 0 .. Top - 1 :
              /\ Cardinality(EpochsFrom(k)) \in Nat
              /\ Cardinality(EpochsFrom(k))
                   = Cardinality(EpochsFrom(k + 1)) + (IF k \in Ends THEN 1 ELSE 0)
<1>1. Ends \subseteq Nat /\ Top \in Ends /\ Top \in Nat
  BY EndsFacts, TopFacts
<1>2. ASSUME NEW k \in Nat  PROVE IsFiniteSet(EpochsFrom(k)) /\ Cardinality(EpochsFrom(k)) \in Nat
  <2>1. IsFiniteSet(k .. Top)
    BY <1>1, FS_Interval
  <2>2. EpochsFrom(k) \subseteq k .. Top
    <3> SUFFICES ASSUME NEW m \in EpochsFrom(k)  PROVE m \in k .. Top
      OBVIOUS
    <3>1. m \in Nat /\ k <= m /\ m <= Top
      BY <1>1 DEF EpochsFrom
    <3> QED  BY <1>1, <3>1
  <2> QED  BY <2>1, <2>2, FS_Subset, FS_CardinalityType, Zenon
<1>3. EpochsFrom(Top) = {Top}
  <2>1. ASSUME NEW m \in Ends  PROVE Top <= m /\ m <= Top <=> m = Top
    BY <1>1
  <2> QED  BY <1>1, <2>1, Zenon DEF EpochsFrom
<1>4. Cardinality({Top}) = 1
  BY FS_Singleton
<1>5. ASSUME NEW k \in 0 .. Top - 1
      PROVE  Cardinality(EpochsFrom(k))
               = Cardinality(EpochsFrom(k + 1)) + (IF k \in Ends THEN 1 ELSE 0)
  <2>1. k \in Nat /\ k + 1 \in Nat /\ k <= Top /\ \A m \in Ends : k <= m <=> (m = k \/ k + 1 <= m)
    BY <1>1
  <2>2. k \notin EpochsFrom(k + 1)
    BY <2>1 DEF EpochsFrom
  <2>3. CASE k \in Ends
    <3>1. EpochsFrom(k) = EpochsFrom(k + 1) \cup {k}
      BY <2>1, <2>3, Zenon DEF EpochsFrom
    <3> QED  BY <1>2, <2>1, <2>2, <2>3, <3>1, FS_AddElement, Zenon
  <2>4. CASE k \notin Ends
    <3>1. EpochsFrom(k) = EpochsFrom(k + 1)
      BY <2>1, <2>4 DEF EpochsFrom
    <3> QED  BY <1>2, <2>1, <2>4, <3>1
  <2> QED  BY <2>3, <2>4
<1>6. \A k \in 0 .. Top - 1 : k \in Nat
  BY <1>1
<1> QED  BY <1>2, <1>3, <1>4, <1>5, <1>6

(* Where loop 2 ends is the safe head of SyncHeads. *)
LEMMA CountIsSafeHead ==
  ASSUME Types
  PROVE  /\ \A k \in 0 .. Top :
              /\ k \in Ends /\ Cardinality(EpochsFrom(k)) = SeqWindowSize
              /\ \A m \in k + 1 .. Top : Cardinality(EpochsFrom(m)) # SeqWindowSize
              => SafeHead(start, l1) = Ancestor(start, k)
         /\ (\A m \in 0 .. Top : Cardinality(EpochsFrom(m)) # SeqWindowSize)
              => SafeHead(start, l1) = Genesis
<1> DEFINE R == {m \in Ends : m <= Top /\ Cardinality(EpochsFrom(m)) = SeqWindowSize}
<1>1. SafeHead(start, l1) = IF R = {} THEN Genesis ELSE Ancestor(start, Max(R))
  BY DEF SafeHead, Ends, Top, EpochsFrom
<1>2. Ends \subseteq Nat /\ Top \in Nat /\ R \in SUBSET (0 .. Top)
  BY EndsFacts, TopFacts
<1>3. ASSUME NEW k \in 0 .. Top, k \in Ends, Cardinality(EpochsFrom(k)) = SeqWindowSize,
             \A m \in k + 1 .. Top : Cardinality(EpochsFrom(m)) # SeqWindowSize
      PROVE  SafeHead(start, l1) = Ancestor(start, k)
  <2>1. k \in R
    BY <1>2, <1>3
  <2>2. \A m \in R : m <= k
    <3> SUFFICES ASSUME NEW m \in R, ~ (m <= k)  PROVE FALSE
      OBVIOUS
    <3>1. m \in k + 1 .. Top
      BY <1>2
    <3> QED  BY <1>3, <3>1
  <2> HIDE DEF R
  <2>3. Max(R) \in R /\ Max(R) >= k
    BY <1>2, <2>1, MaxOfBounded
  <2>4. Max(R) = k
    <3>1. Max(R) <= k /\ Max(R) \in 0 .. Top
      BY <1>2, <2>2, <2>3, Zenon
    <3> QED  BY <1>2, <2>3, <3>1
  <2> QED  BY <1>1, <2>1, <2>4
<1>4. ASSUME \A m \in 0 .. Top : Cardinality(EpochsFrom(m)) # SeqWindowSize
      PROVE  SafeHead(start, l1) = Genesis
  <2>1. R = {}
    BY <1>2, <1>4
  <2> QED  BY <1>1, <2>1
<1> QED  BY <1>3, <1>4

-----------------------------------------------------------------------------
(* A step of the search leaves both chains alone. *)
Frame == UNCHANGED <<start, l1, foreign, moves>>

(* So what is defined by them stays. *)
LEMMA SearchSame ==
  ASSUME Frame
  PROVE  /\ Ends' = Ends /\ Top' = Top
         /\ \A m : OriginOf(m)' = OriginOf(m)
         /\ \A k : Candidates(k)' = Candidates(k) /\ EpochsFrom(k)' = EpochsFrom(k)
         /\ \A k : NoneCanonical(k)' = NoneCanonical(k)
BY DEF Frame, Ends, Top, OriginOf, Candidates, EpochsFrom, NoneCanonical

(* The candidate stays what it is while nothing changes. *)
LEMMA CandidateSame ==
  ASSUME Frame, NEW k, CandidateIs(k), UNCHANGED candidate
  PROVE  CandidateIs(k)'
BY SearchSame DEF CandidateIs

(* While a step neither ends the search nor reaches loop 2, only loop 1 is to be shown. *)
LEMMA StillInLoop1 ==
  ASSUME Frame, pc' \in {"epoch", "number", "parent"},
         moves = 0 /\ ~ foreign =>
           /\ depth' = 1 /\ Number(start) - n' < MaxReorgDepth
           /\ pc' = "epoch" => AtEpoch'
           /\ pc' = "number" => AtNumber'
           /\ pc' = "parent" => AtParent'
  PROVE  Still' /\ Ordered'
BY DEF Frame, Still, Ordered, AgreesWithSyncHeads

(* When the origin is the one loop 1 has just looked at, block n does not end an epoch. *)
LEMMA SameEpochKeeps ==
  ASSUME IInv, SameEpoch, Frame
  PROVE  IInv'
<1> USE DEF IInv
<1>1. /\ pc = "epoch" /\ pc' = "parent" /\ prevOrigin = {OriginOf(n)}
      /\ n' = n /\ prevOrigin' = prevOrigin /\ candidate' = candidate /\ depth' = depth
      /\ n \in 0 .. Len(start)
  BY DEF SameEpoch, loopVars, Block, OriginOf, OriginAt, Types
<1>2. Types'
  BY <1>1 DEF Types, Frame
<1>3. ASSUME moves = 0, ~ foreign
      PROVE  depth' = 1 /\ Number(start) - n' < MaxReorgDepth /\ AtParent'
  <2>1. depth = 1 /\ Number(start) - n < MaxReorgDepth /\ AtEpoch
    BY <1>1, <1>3 DEF Still
  <2>2. n # Len(start) /\ {OriginOf(n)} = {OriginOf(n + 1)}
    BY <1>1, <2>1, Zenon DEF AtEpoch
  <2>3. OriginOf(n) = OriginOf(n + 1) /\ n < Len(start)
    <3>1. OriginOf(n) \in {OriginOf(n + 1)}
      BY <2>2
    <3>2. n < Len(start)
      BY <1>1, <2>2, EndsFacts
    <3> QED  BY <3>1, <3>2
  <2>4. n \notin Ends
    BY <1>1, <2>3, EndsFacts
  <2>5. NoneCanonical(n)
    <3> SUFFICES ASSUME NEW m \in Ends, m >= n  PROVE ~ IsCanonical(OriginOf(m), l1)
      BY DEF NoneCanonical
    <3>1. m >= n + 1
      BY <2>4, EndsFacts
    <3> QED  BY <2>1, <3>1 DEF AtEpoch, NoneCanonical
  <2>6. CandidateIs(n)
    BY <1>1, <2>1, <2>4, CandidatesStep DEF AtEpoch, CandidateIs
  <2>7. CandidateIs(n)'
    BY <1>1, <2>6, CandidateSame
  <2> QED  BY <1>1, <2>1, <2>5, <2>7, SearchSame DEF AtParent
<1> QED  BY <1>1, <1>2, <1>3, StillInLoop1

(* When the origin is another one, block n ends an epoch. *)
LEMMA NewOrigin ==
  ASSUME Types, AtEpoch, prevOrigin # {OriginOf(n)}
  PROVE  n \in Ends
<1>1. n \in 0 .. Len(start) /\ Len(start) \in Nat
  BY EndsFacts DEF Types
<1>2. CASE n = Len(start)
  BY <1>1, <1>2, EndsFacts
<1>3. CASE n # Len(start)
  <2>1. OriginOf(n) # OriginOf(n + 1)
    BY <1>3 DEF AtEpoch
  <2> QED  BY <1>1, <2>1, EndsFacts
<1> QED  BY <1>2, <1>3

(* The candidate after block n, which ends an epoch and has a plausible origin. *)
LEMMA CandidatePlausible ==
  ASSUME Types, Frame, CandidateIs(n + 1), n \in Ends, Plausible(OriginOf(n), l1), n' = n,
         candidate' = IF candidate = {} THEN {n} ELSE candidate
  PROVE  CandidateIs(n)'
<1>1. Candidates(n) = {n} \cup Candidates(n + 1) /\ n \in Nat
  BY CandidatesStep, EndsFacts DEF Types
<1>2. \A y \in Candidates(n + 1) : y >= n
  BY <1>1, EndsFacts DEF Candidates
<1>3. CASE candidate = {} /\ Candidates(n + 1) = {}
  <2>1. candidate' = {n} /\ Candidates(n) = {n}
    BY <1>1, <1>3
  <2>2. n \in Candidates(n) /\ \A y \in Candidates(n) : y <= n
    BY <1>1, <2>1
  <2> QED  BY <2>1, <2>2, SearchSame DEF CandidateIs
<1>4. ASSUME NEW c \in Candidates(n + 1), candidate = {c}, \A y \in Candidates(n + 1) : y <= c
      PROVE  CandidateIs(n)'
  <2>1. candidate' = {c}
    BY <1>4
  <2>2. c \in Candidates(n)
    BY <1>1
  <2>3. n <= c
    <3>1. c \in Nat /\ c >= n
      BY <1>2, EndsFacts DEF Candidates
    <3> QED  BY <1>1, <3>1
  <2>4. \A y \in Candidates(n) : y <= c
    BY <1>1, <1>4, <2>3
  <2> QED  BY <2>1, <2>2, <2>4, SearchSame DEF CandidateIs
<1> QED  BY <1>3, <1>4 DEF CandidateIs

(* A block that is not canonical adds nothing canonical. *)
LEMMA NoneCanonicalDown ==
  ASSUME Types, NoneCanonical(n + 1), ~ IsCanonical(OriginOf(n), l1)
  PROVE  NoneCanonical(n)
<1> SUFFICES ASSUME NEW m \in Ends, m >= n  PROVE ~ IsCanonical(OriginOf(m), l1)
  BY DEF NoneCanonical
<1>1. m = n \/ m >= n + 1
  BY EndsFacts
<1> QED  BY <1>1 DEF NoneCanonical

(* An origin beyond the head of L1 is plausible, and not canonical. *)
LEMMA OriginAheadKeeps ==
  ASSUME IInv, OriginAhead, Frame
  PROVE  IInv'
<1> USE DEF IInv
<1>1. /\ pc = "epoch" /\ pc' = "parent" /\ prevOrigin # {OriginOf(n)}
      /\ n' = n /\ prevOrigin' = {OriginOf(n)} /\ depth' = depth
      /\ candidate' = IF candidate = {} THEN {n} ELSE candidate
      /\ Number(OriginOf(n)) > Len(l1) /\ n \in 0 .. Len(start) /\ Len(start) \in Nat
  BY EndsFacts DEF OriginAhead, Block, OriginOf, OriginAt, Types
<1>2. Types'
  BY <1>1 DEF Types, Frame
<1>3. ASSUME moves = 0, ~ foreign
      PROVE  depth' = 1 /\ Number(start) - n' < MaxReorgDepth /\ AtParent'
  <2>1. depth = 1 /\ Number(start) - n < MaxReorgDepth /\ AtEpoch
    BY <1>1, <1>3 DEF Still
  <2>2. n \in Ends
    BY <1>1, <2>1, NewOrigin
  <2>3. Plausible(OriginOf(n), l1) /\ ~ IsCanonical(OriginOf(n), l1)
    BY <1>1, AheadNotCanonical
  <2>4. NoneCanonical(n)
    BY <2>1, <2>3, NoneCanonicalDown DEF AtEpoch
  <2>5. CandidateIs(n)'
    BY <1>1, <2>1, <2>2, <2>3, CandidatePlausible DEF AtEpoch
  <2> QED  BY <1>1, <2>1, <2>4, <2>5, SearchSame DEF AtParent
<1> QED  BY <1>1, <1>2, <1>3, StillInLoop1

(* Otherwise L1 is asked for the block with its number. *)
LEMMA OriginNotAheadKeeps ==
  ASSUME IInv, OriginNotAhead, Frame
  PROVE  IInv'
<1> USE DEF IInv
<1>1. /\ pc = "epoch" /\ pc' = "number" /\ prevOrigin # {OriginOf(n)}
      /\ n' = n /\ prevOrigin' = {OriginOf(n)} /\ depth' = depth /\ candidate' = candidate
      /\ Number(OriginOf(n)) <= Len(l1)
  BY DEF OriginNotAhead, Block, OriginOf, OriginAt
<1>2. Types'
  BY <1>1 DEF Types, Frame
<1>3. ASSUME moves = 0, ~ foreign
      PROVE  depth' = 1 /\ Number(start) - n' < MaxReorgDepth /\ AtNumber'
  <2>1. depth = 1 /\ Number(start) - n < MaxReorgDepth /\ AtEpoch
    BY <1>1, <1>3 DEF Still
  <2>2. n \in Ends
    BY <1>1, <2>1, NewOrigin
  <2>3. CandidateIs(n + 1)'
    BY <1>1, <2>1, CandidateSame DEF AtEpoch
  <2> QED  BY <1>1, <2>1, <2>2, <2>3, SearchSame DEF AtNumber, AtEpoch, Frame
<1> QED  BY <1>1, <1>2, <1>3, StillInLoop1

(* A step that ends the search with an error other than those of SyncHeads. *)
LEMMA FailKeeps ==
  ASSUME IInv, Frame, NEW err, Fail(err), err # "nil", n' \in 0 .. n,
         UNCHANGED <<candidate, depth>>,
         moves = 0 /\ ~ foreign =>
           err = "query" \/ (err = "TooDeepReorgErr" /\ ReorgTooDeep(start, l1))
  PROVE  IInv'
<1> USE DEF IInv
<1>1. pc' = "done" /\ result' = [NoResult EXCEPT !.err = err] /\ result'.err = err
  BY DEF Fail, NoResult
<1>2. Types'
  <2>1. n \in 0 .. Len(start) /\ Len(start) \in Nat /\ n' \in 0 .. Len(start)
    BY EndsFacts DEF Types
  <2>2. \A c \in n .. Len(start) : c \in n' .. Len(start)
    BY <2>1
  <2> QED  BY <1>1, <2>1, <2>2 DEF Types, Frame
<1>3. Ordered'
  BY <1>1 DEF Ordered
<1>4. AgreesWithSyncHeads'
  BY <1>1 DEF AgreesWithSyncHeads, Frame, NoResult
<1> QED  BY <1>1, <1>2, <1>3, <1>4 DEF Still

(* Of the blocks looked at, the first that is canonical is Top. *)
LEMMA FirstCanonical ==
  ASSUME Types, NoneCanonical(n + 1), n \in Ends, IsCanonical(OriginOf(n), l1)
  PROVE  n = Top
<1>1. Top \in Ends /\ Top \in 0 .. Len(start) /\ n <= Top /\ n \in Nat /\ Len(start) \in Nat
  BY TopFacts, EndsFacts
<1>2. ~ (Top >= n + 1)
  BY TopFacts DEF NoneCanonical
<1> QED  BY <1>1, <1>2

(* The L1 block with the number of the origin is another one, or loop 1 ends at Top. *)
LEMMA QueryNumberKeeps ==
  ASSUME IInv, QueryNumber, Frame
  PROVE  IInv'
<1> USE DEF IInv
<1>1. /\ pc = "number" /\ n' = n /\ prevOrigin' = prevOrigin /\ depth' = depth
      /\ n \in 0 .. Len(start) /\ n \in Nat /\ Len(start) \in Nat
  BY EndsFacts DEF QueryNumber, Types
<1>2. ASSUME moves = 0, ~ foreign
      PROVE  /\ depth = 1 /\ Number(start) - n < MaxReorgDepth /\ AtNumber
             /\ HasL1Block(l1, Number(OriginOf(n)))
  BY <1>1, <1>2 DEF Still, AtNumber, HasL1Block
<1>3. Block = Ancestor(start, n) /\ L1Origin(Block) = OriginOf(n)
  BY DEF Block, OriginOf, OriginAt
<1>4. CASE Fail("NotFound") /\ candidate' = candidate /\ ~ HasL1Block(l1, Number(OriginOf(n)))
  <2>1. ~ (moves = 0 /\ ~ foreign)
    BY <1>2, <1>4
  <2>2. n' \in 0 .. n
    BY <1>1
  <2> QED  BY <1>1, <1>4, <2>1, <2>2, FailKeeps
<1>5. CASE /\ Canonical /\ pc' = "depth" /\ result' = result
           /\ candidate' = IF candidate = {} THEN {n} ELSE candidate
  <2>1. IsCanonical(OriginOf(n), l1) /\ ~ foreign
    BY <1>3, <1>5 DEF Canonical
  <2>2. Types'
    BY <1>1, <1>5 DEF Types, Frame
  <2>3. Ordered'
    BY <1>5, <2>1 DEF Ordered, Frame
  <2>4. ASSUME moves = 0, ~ foreign  PROVE AtDepth'
    <3>1. n = Top
      BY <1>2, <2>1, <2>4, FirstCanonical DEF AtNumber
    <3>2. CandidateIs(n)'
      BY <1>1, <1>2, <1>5, <2>1, <2>4, CandidatePlausible DEF AtNumber, Plausible
    <3>3. ~ ReorgTooDeep(start, l1)
      <4>1. Number(start) - Top < MaxReorgDepth
        BY <1>2, <2>4, <3>1
      <4> QED  BY <1>1, <3>1, <4>1, MaxReorgDepthAssumption DEF ReorgTooDeep, Top, Number
    <3>4. CandidateIs(Top)'
      BY <1>1, <3>1, <3>2, SearchSame DEF CandidateIs
    <3>5. n' = Top' /\ prevOrigin' = {OriginOf(n)'} /\ depth' = 1 /\ ~ ReorgTooDeep(start', l1')
      BY <1>1, <1>2, <2>4, <3>1, <3>3, SearchSame DEF AtNumber, Frame
    <3>6. PICK k \in Nat : n' = k /\ Top' = k
      BY <1>1, <3>5
    <3>7. k <= k /\ \A m \in k + 1 .. k : FALSE
      OBVIOUS
    <3>8. n' <= Top' /\ \A m \in n' + 1 .. Top' : FALSE
      BY <3>6, <3>7, Zenon
    <3> QED  BY <3>4, <3>5, <3>8 DEF AtDepth
  <2>5. Still'
    BY <1>5, <2>4 DEF Still, AgreesWithSyncHeads, Frame
  <2> QED  BY <2>2, <2>3, <2>5
<1>6. CASE /\ HasL1Block(l1, Number(OriginOf(n))) /\ ~ Canonical
           /\ candidate' = {} /\ pc' = "parent" /\ result' = result
  <2>1. Types'
    BY <1>1, <1>6 DEF Types, Frame
  <2>2. ASSUME moves = 0, ~ foreign
        PROVE  depth' = 1 /\ Number(start) - n' < MaxReorgDepth /\ AtParent'
    <3>1. n \in Ends /\ ~ IsCanonical(OriginOf(n), l1)
      BY <1>2, <1>3, <1>6, <2>2 DEF Canonical, AtNumber
    <3>2. NoneCanonical(n)
      BY <1>2, <2>2, <3>1, NoneCanonicalDown DEF AtNumber
    <3>3. ~ Plausible(OriginOf(n), l1)
      <4>1. Len(OriginOf(n)) \in Nat /\ Len(l1) \in Nat
        BY <1>1, EndsFacts
      <4> QED  BY <1>6, <3>1, <4>1 DEF Plausible, HasL1Block, Number
    <3>4. Candidates(n) = {}
      BY <1>1, <3>1, <3>3, CandidatesStep
    <3>5. CandidateIs(n)'
      BY <1>1, <1>6, <3>4, SearchSame DEF CandidateIs
    <3> QED  BY <1>1, <1>2, <2>2, <3>2, <3>5, SearchSame DEF AtParent, AtNumber
  <2> QED  BY <1>6, <2>1, <2>2, StillInLoop1
<1> QED  BY <1>3, <1>4, <1>5, <1>6 DEF QueryNumber

(* Top is below the blocks that were looked at. *)
LEMMA TopBelow ==
  ASSUME Types, NoneCanonical(n)
  PROVE  n > 0 /\ Top <= n - 1 /\ Top \in Nat
<1>1. Top \in Ends /\ Top \in Nat /\ n \in Nat
  BY TopFacts, EndsFacts
<1>2. ~ (Top >= n)
  BY TopFacts DEF NoneCanonical
<1> QED  BY <1>1, <1>2

(* The step to the parent: the L2 genesis is never passed, and when the search is too deep, *)
(* so is the reorg.                                                                         *)
LEMMA WalkBackKeeps ==
  ASSUME IInv, WalkBack, Frame
  PROVE  IInv'
<1> USE DEF IInv
<1>1. /\ pc = "parent" /\ prevOrigin' = prevOrigin /\ candidate' = candidate /\ depth' = depth
      /\ n \in 0 .. Len(start) /\ n \in Nat /\ Len(start) \in Nat
  BY EndsFacts DEF WalkBack, Types
<1>2. ASSUME moves = 0, ~ foreign
      PROVE  /\ depth = 1 /\ AtParent /\ n > 0 /\ Top <= n - 1 /\ Top \in Nat
  <2>1. depth = 1 /\ AtParent
    BY <1>1, <1>2 DEF Still
  <2> QED  BY <2>1, TopBelow DEF AtParent
<1>3. CASE n = 0 /\ Fail("WrongChainErr") /\ n' = n
  <2>1. ~ (moves = 0 /\ ~ foreign) /\ n' \in 0 .. n
    BY <1>1, <1>2, <1>3
  <2> QED  BY <1>1, <1>3, <2>1, FailKeeps
<1>4. CASE /\ n > 0 /\ Number(start) - (n - 1) >= MaxReorgDepth
           /\ Fail("TooDeepReorgErr") /\ n' = n - 1
  <2>1. n' \in 0 .. n
    BY <1>1, <1>4
  <2>2. ASSUME moves = 0, ~ foreign  PROVE ReorgTooDeep(start, l1)
    <3>1. Len(start) - (n - 1) >= MaxReorgDepth /\ Top <= n - 1 /\ Top \in Nat
      BY <1>2, <1>4, <2>2 DEF Number
    <3>2. Len(start) - Top >= MaxReorgDepth
      BY <1>1, <3>1, MaxReorgDepthAssumption
    <3> QED  BY <3>2 DEF ReorgTooDeep, Top, Number
  <2> QED  BY <1>1, <1>4, <2>1, <2>2, FailKeeps
<1>5. CASE /\ n > 0 /\ Number(start) - (n - 1) < MaxReorgDepth
           /\ n' = n - 1 /\ pc' = "epoch" /\ result' = result
  <2>1. n' \in 0 .. Len(start) /\ n' + 1 = n /\ n' # Len(start)
    BY <1>1, <1>5
  <2>2. \A c \in n .. Len(start) : c \in n' .. Len(start)
    BY <1>1, <1>5
  <2>3. Types'
    BY <1>1, <1>5, <2>1, <2>2 DEF Types, Frame
  <2>4. ASSUME moves = 0, ~ foreign
        PROVE  depth' = 1 /\ Number(start) - n' < MaxReorgDepth /\ AtEpoch'
    <3>1. CandidateIs(n + 1)'
      <4>1. \A k : CandidateIs(k) => /\ \/ candidate' = {} /\ Candidates(k)' = {}
                                        \/ \E c \in Candidates(k)' :
                                             candidate' = {c} /\ \A y \in Candidates(k)' : y <= c
        BY <1>1, SearchSame DEF CandidateIs
      <4>2. CandidateIs(n)
        BY <1>2, <2>4 DEF AtParent
      <4> QED  BY <2>1, <4>1, <4>2 DEF CandidateIs
    <3>2. prevOrigin' = {OriginOf(n + 1)'}
      BY <1>1, <1>2, <2>1, <2>4, SearchSame, Zenon DEF AtParent
    <3>3. NoneCanonical(n + 1)'
      BY <1>2, <2>1, <2>4, SearchSame DEF AtParent
    <3> QED  BY <1>1, <1>2, <1>5, <2>1, <2>4, <3>1, <3>2, <3>3 DEF AtEpoch, Frame
  <2> QED  BY <1>5, <2>3, <2>4, StillInLoop1
<1> QED  BY <1>3, <1>4, <1>5 DEF WalkBack

(* What loop 2 counts at block n is the number of epochs from there to Top. *)
LEMMA NewDepthCounts ==
  ASSUME Types, AtDepth
  PROVE  /\ NewDepth = Cardinality(EpochsFrom(n)) /\ Top \in Nat /\ n \in 0 .. Top
         /\ NewDepth = SeqWindowSize => n \in Ends
<1>1. /\ Top \in Nat /\ Top \in Ends /\ n \in 0 .. Top /\ n \in 0 .. Len(start)
      /\ Top \in 0 .. Len(start) /\ Len(start) \in Nat
  BY TopFacts, EndsFacts DEF AtDepth, Types
<1>2. NewDepth = IF prevOrigin = {OriginOf(n)} THEN depth ELSE depth + 1
  BY DEF NewDepth, Block, OriginOf, OriginAt
<1>3. CASE n = Top /\ prevOrigin = {OriginOf(n)} /\ depth = 1
  BY <1>1, <1>2, <1>3, CountStep
<1>4. CASE /\ n < Top /\ prevOrigin = {OriginOf(n + 1)}
           /\ depth = Cardinality(EpochsFrom(n + 1))
  <2>1. n \in 0 .. Top - 1 /\ n < Len(start)
    BY <1>1, <1>4
  <2>2. Cardinality(EpochsFrom(n)) = depth + (IF n \in Ends THEN 1 ELSE 0)
    BY <1>4, <2>1, CountStep
  <2>3. n \in Ends <=> OriginOf(n) # OriginOf(n + 1)
    BY <1>1, <2>1, EndsFacts
  <2>4. prevOrigin = {OriginOf(n)} <=> n \notin Ends
    <3>1. {OriginOf(n + 1)} = {OriginOf(n)} <=> OriginOf(n + 1) = OriginOf(n)
      BY Zenon
    <3> QED  BY <1>4, <2>3, <3>1
  <2>5. NewDepth = Cardinality(EpochsFrom(n))
    BY <1>2, <2>2, <2>4 DEF Types
  <2>6. ASSUME NewDepth = SeqWindowSize, n \notin Ends  PROVE FALSE
    <3>1. n + 1 \in n + 1 .. Top
      BY <1>1, <1>4
    <3>2. depth = SeqWindowSize
      BY <1>2, <2>4, <2>6
    <3> QED  BY <1>4, <3>1, <3>2 DEF AtDepth
  <2> QED  BY <1>1, <2>5, <2>6
<1> QED  BY <1>3, <1>4 DEF AtDepth

(* When L1 stands still, the result of loop 2 is that of SyncHeads. *)
LEMMA FoundAgrees ==
  ASSUME Types, AtDepth, Frame, NEW safe, Found(safe), safe = SafeHead(start, l1),
         candidate # {}
  PROVE  AgreesWithSyncHeads'
<1>1. PICK c \in Candidates(Top) : candidate = {c} /\ \A y \in Candidates(Top) : y <= c
  BY DEF AtDepth, CandidateIs
<1>2. UnsafeHead(start, l1) = Ancestor(start, c)
  BY <1>1, CandidateIsUnsafeHead
<1>3. Max(candidate) = c
  <2>1. c \in 0 .. Len(start) /\ Len(start) \in Nat
    BY EndsFacts DEF Candidates
  <2>2. candidate \in SUBSET (0 .. Len(start)) /\ candidate # {}
    BY <1>1, <2>1
  <2>3. Max(candidate) \in candidate
    BY <2>1, <2>2, MaxOfBounded, Zenon
  <2> QED  BY <1>1, <2>3
<1> QED  BY <1>2, <1>3 DEF AgreesWithSyncHeads, Found, AtDepth, Frame

(* And whatever L1 does, the heads are blocks of the chain, in order. *)
LEMMA FoundOrdered ==
  ASSUME Types, Ordered, pc = "depth", Frame, NEW s \in 0 .. n, Found(Ancestor(start, s))
  PROVE  Ordered'
<1>1. PICK c \in n .. Len(start) : candidate = {c}
  BY DEF Types, Ordered
<1>2. c \in 0 .. Len(start) /\ s \in 0 .. c /\ Len(start) \in Nat
  BY EndsFacts DEF Types
<1>3. Max(candidate) = c
  <2>1. candidate \in SUBSET (0 .. Len(start)) /\ candidate # {}
    BY <1>1, <1>2
  <2>2. Max(candidate) \in candidate
    BY <1>2, <2>1, MaxOfBounded, Zenon
  <2> QED  BY <1>1, <2>2
<1>4. /\ pc' = "done" /\ result'.unsafe = Ancestor(start', c)
      /\ result'.safe = Ancestor(start', s) /\ ~ foreign' /\ start' = start
  BY <1>3 DEF Found, Frame, Ordered
<1> QED  BY <1>2, <1>4 DEF Ordered, Result

(* Loop 2: block n is the safe head, or genesis is, or the count goes on at the parent. *)
LEMMA CountEpochKeeps ==
  ASSUME IInv, CountEpoch, Frame
  PROVE  IInv'
<1> USE DEF IInv
<1>1. /\ pc = "depth" /\ candidate' = candidate /\ depth' = NewDepth
      /\ prevOrigin' = {OriginOf(n)}
      /\ n \in 0 .. Len(start) /\ n \in Nat /\ Len(start) \in Nat /\ NewDepth \in Nat
  BY EndsFacts DEF CountEpoch, Types, NewDepth, Block, OriginOf, OriginAt
<1>2. candidate # {}
  BY <1>1 DEF Ordered
<1>3. ASSUME moves = 0, ~ foreign
      PROVE  /\ AtDepth /\ NewDepth = Cardinality(EpochsFrom(n)) /\ Top \in Nat /\ n \in 0 .. Top
             /\ NewDepth = SeqWindowSize => n \in Ends
  <2>1. AtDepth
    BY <1>1, <1>3 DEF Still
  <2> QED  BY <2>1, NewDepthCounts
<1>4. CASE NewDepth = SeqWindowSize /\ Found(Block) /\ n' = n
  <2>1. Found(Ancestor(start, n)) /\ n \in 0 .. n
    BY <1>1, <1>4 DEF Block
  <2>2. Ordered'
    BY <1>1, <2>1, FoundOrdered
  <2>3. Types'
    BY <1>1, <1>4 DEF Types, Frame, Found
  <2>4. ASSUME moves = 0, ~ foreign  PROVE AgreesWithSyncHeads'
    <3>1. Ancestor(start, n) = SafeHead(start, l1)
      BY <1>3, <1>4, <2>4, CountIsSafeHead, Zenon DEF AtDepth
    <3> QED  BY <1>2, <1>3, <2>1, <2>4, <3>1, FoundAgrees
  <2> QED  BY <1>4, <2>2, <2>3, <2>4 DEF Still, Frame, Found
<1>5. CASE NewDepth # SeqWindowSize /\ n = 0 /\ Found(Genesis) /\ n' = n
  <2>1. Genesis = Ancestor(start, 0)
    <3>1. Ancestor(start, 0) \in L2Block /\ Len(Ancestor(start, 0)) = 0
      BY <1>1, AncestorType DEF Types, L2Block
    <3> QED  BY <3>1, EmptySeq DEF L2Block, Genesis
  <2>2. Found(Ancestor(start, 0)) /\ 0 \in 0 .. n
    BY <1>1, <1>5, <2>1
  <2>3. Ordered'
    BY <1>1, <2>2, FoundOrdered
  <2>4. Types'
    BY <1>1, <1>5 DEF Types, Frame, Found
  <2>5. ASSUME moves = 0, ~ foreign  PROVE AgreesWithSyncHeads'
    <3>1. \A m \in 0 .. Top : m = 0 \/ m \in 1 .. Top
      BY <1>3, <2>5
    <3>2. \A m \in 0 .. Top : Cardinality(EpochsFrom(m)) # SeqWindowSize
      BY <1>3, <1>5, <2>5, <3>1 DEF AtDepth
    <3>3. Genesis = SafeHead(start, l1)
      BY <3>2, CountIsSafeHead
    <3> QED  BY <1>2, <1>3, <1>5, <2>5, <3>3, FoundAgrees
  <2> QED  BY <1>5, <2>3, <2>4, <2>5 DEF Still, Frame, Found
<1>6. CASE /\ NewDepth # SeqWindowSize /\ n > 0 /\ n' = n - 1
           /\ pc' = pc /\ result' = result
  <2>1. n' \in 0 .. Len(start) /\ n' + 1 = n
    BY <1>1, <1>6
  <2>2. \A c \in n .. Len(start) : c \in n' .. Len(start)
    BY <1>1, <1>6
  <2>3. Types'
    BY <1>1, <1>6, <2>1, <2>2 DEF Types, Frame
  <2>4. Ordered'
    BY <1>1, <1>6 DEF Ordered, Frame
  <2>5. ASSUME moves = 0, ~ foreign  PROVE AtDepth'
    <3>1. Top' = Top /\ OriginOf(n + 1)' = OriginOf(n)
      BY <2>1, SearchSame
    <3>2. EpochsFrom(n + 1)' = EpochsFrom(n) /\ \A m : EpochsFrom(m)' = EpochsFrom(m)
      BY <2>1, SearchSame
    <3>3. CandidateIs(Top)'
      BY <1>1, <1>3, <2>5, <3>1, SearchSame DEF AtDepth, CandidateIs
    <3>4. ~ ReorgTooDeep(start', l1')
      BY <1>3, <2>5 DEF AtDepth, Frame
    <3>a. Top \in Nat /\ n \in 0 .. Top /\ n' \in Nat
      BY <1>1, <1>3, <2>1, <2>5
    <3>b. PICK t \in Nat, p \in Nat, k \in Nat : t = Top /\ p = n' /\ k = n
      BY <3>a, <1>1
    <3>c. k \in 0 .. t /\ p + 1 = k
      BY <2>1, <3>a, <3>b, Zenon
    <3>d. p < t /\ p <= t /\ \A m \in p + 1 .. t : m = k \/ m \in k + 1 .. t
      BY <3>c
    <3>5. n' < Top' /\ n' <= Top'
      BY <3>1, <3>b, <3>d, Zenon
    <3>6. \A m \in n' + 1 .. Top : m = n \/ m \in n + 1 .. Top
      BY <3>b, <3>d, Zenon
    <3>7. \A m \in n' + 1 .. Top : Cardinality(EpochsFrom(m)') # SeqWindowSize
      BY <1>3, <1>6, <2>5, <3>2, <3>6 DEF AtDepth
    <3>8. prevOrigin' = {OriginOf(n + 1)'} /\ depth' = Cardinality(EpochsFrom(n + 1)')
      BY <1>1, <1>3, <2>5, <3>1, <3>2
    <3> QED  BY <3>1, <3>3, <3>4, <3>5, <3>7, <3>8 DEF AtDepth
  <2> QED  BY <1>1, <1>6, <2>3, <2>4, <2>5 DEF Still, Frame, AgreesWithSyncHeads
<1> QED  BY <1>4, <1>5, <1>6 DEF CountEpoch

(* A failed query ends the search without heads. *)
LEMMA SourceFailsKeeps ==
  ASSUME IInv, SourceFails
  PROVE  IInv'
<1>1. Fail("query") /\ Frame /\ n' = n /\ UNCHANGED <<candidate, depth>>
  BY DEF SourceFails, Frame, loopVars
<1>2. n' \in 0 .. n
  BY <1>1, EndsFacts DEF IInv
<1> QED  BY <1>1, <1>2, FailKeeps

(* A move of L1 leaves the order of the heads alone, and what holds only while L1 stands *)
(* still is no longer claimed.                                                           *)
LEMMA L1MovesKeeps ==
  ASSUME IInv, L1Moves
  PROVE  IInv'
<1>1. moves \in Nat /\ moves' = moves + 1 /\ l1' \in L1Block
      /\ UNCHANGED <<start, foreign, pc, n, prevOrigin, candidate, depth, result>>
  BY SyncStartAssumption DEF IInv, Types, L1Moves, loopVars
<1>2. moves' # 0 /\ moves' \in Nat
  BY <1>1
<1>3. Types'
  BY <1>1, <1>2 DEF IInv, Types
<1>4. Ordered'
  BY <1>1 DEF IInv, Ordered, Result
<1> QED  BY <1>2, <1>3, <1>4 DEF IInv, Still

(* The search starts at the block it is given, with no candidate. *)
LEMMA InitKeeps ==
  ASSUME Init
  PROVE  IInv
<1>1. /\ start \in L2Block /\ l1 \in L1Block /\ foreign \in BOOLEAN /\ moves = 0
      /\ pc = "epoch" /\ n = Len(start) /\ prevOrigin = {} /\ candidate = {} /\ depth = 1
  BY SyncStartAssumption DEF Init, Number
<1>2. Len(start) \in Nat
  BY <1>1, LenProperties DEF L2Block
<1>3. Types
  BY <1>1, <1>2 DEF Types
<1>4. Number(start) - n < MaxReorgDepth
  BY <1>1, <1>2, MaxReorgDepthAssumption DEF Number
<1>5. \A m \in Ends : ~ (m >= n + 1)
  BY <1>1, <1>2, <1>3, EndsFacts
<1>6. NoneCanonical(n + 1) /\ Candidates(n + 1) = {}
  BY <1>5 DEF NoneCanonical, Candidates
<1>7. AtEpoch
  BY <1>1, <1>6 DEF AtEpoch, CandidateIs
<1> QED  BY <1>1, <1>3, <1>4, <1>7 DEF IInv, Ordered, Still, AgreesWithSyncHeads

-----------------------------------------------------------------------------
(* Every step of the search, of its sources and of L1 keeps the inductive invariant. *)
LEMMA StepKeeps ==
  ASSUME IInv, [Next]_vars
  PROVE  IInv'
<1>1. CASE L1Moves
  BY <1>1, L1MovesKeeps
<1>2. CASE SourceFails
  BY <1>2, SourceFailsKeeps
<1>3. CASE Search
  <2>1. Frame
    BY <1>3 DEF Search, Frame
  <2> QED  BY <1>3, <2>1, SameEpochKeeps, OriginAheadKeeps, OriginNotAheadKeeps,
              QueryNumberKeeps, WalkBackKeeps, CountEpochKeeps DEF Search
<1>4. CASE UNCHANGED vars
  <2>1. /\ UNCHANGED <<start, l1, foreign, moves, pc, n, prevOrigin, candidate, depth, result>>
        /\ Frame
    BY <1>4 DEF vars, Frame
  <2>2. Types' /\ Ordered'
    BY <2>1 DEF IInv, Types, Ordered, Result
  <2>3. AtEpoch' = AtEpoch /\ AtNumber' = AtNumber /\ AtParent' = AtParent
    BY <2>1, SearchSame, Zenon DEF AtEpoch, AtNumber, AtParent, CandidateIs
  <2>4. AtDepth' = AtDepth
    BY <2>1, SearchSame, SMTT(30) DEF AtDepth, CandidateIs
  <2>5. Still'
    BY <2>1, <2>3, <2>4 DEF IInv, Still, AgreesWithSyncHeads
  <2> QED  BY <2>2, <2>5 DEF IInv
<1> QED  BY <1>1, <1>2, <1>3, <1>4 DEF Next

(***************************************************************************)
(* The inductive invariant of FindL2Heads: where each of the two loops     *)
(* stands, and the order of the heads it returns.                          *)
(***************************************************************************)
THEOREM SyncStartInvariant == Spec => []IInv
<1>1. Init => IInv
  BY InitKeeps
<1>2. IInv /\ [Next]_vars => IInv'
  BY StepKeeps
<1> QED  BY <1>1, <1>2, PTL DEF Spec

(***************************************************************************)
(* While L1 stands still and no query fails, the two loops of FindL2Heads  *)
(* return the heads that SyncHeads defines, and TooDeepReorgErr exactly    *)
(* when the reorg is too deep: for every L2 chain, L1 chain, size of the   *)
(* sequencing window and depth limit.                                      *)
(***************************************************************************)
THEOREM SyncStartAgrees == Spec => []AgreesWithSyncHeads
<1>1. IInv => AgreesWithSyncHeads
  BY DEF IInv, Still, AgreesWithSyncHeads
<1> QED  BY <1>1, SyncStartInvariant, PTL

(***************************************************************************)
(* However often L1 moves during the search, the heads that FindL2Heads    *)
(* returns are ancestors of start in the right order, loop 2 has a         *)
(* candidate, and an endpoint that serves another chain yields no heads.   *)
(***************************************************************************)
THEOREM SyncStartHeadsOrdered == Spec => []HeadsOrdered
<1>1. ASSUME IInv  PROVE HeadsOrdered
  <2>1. ASSUME pc = "done", result.err = "nil"
        PROVE  /\ IsAncestor(result.safe, result.unsafe) /\ IsAncestor(result.unsafe, start)
               /\ ~ foreign
    <3>1. PICK u \in 0 .. Len(start) : \E s \in 0 .. u : Result(u, s)
      BY <1>1, <2>1 DEF IInv, Ordered
    <3>2. PICK s \in 0 .. u : Result(u, s)
      BY <3>1
    <3>3. Len(start) \in Nat /\ Len(start) \in 0 .. Len(start) /\ start \in L2Block
      BY <1>1, EndsFacts DEF IInv, Types
    <3>4. IsAncestor(Ancestor(start, s), Ancestor(start, u))
      BY <3>3, AncestorsOrdered DEF L2Block
    <3>5. IsAncestor(Ancestor(start, u), start)
      <4>1. Ancestor(start, Len(start)) = start
        BY <3>3, AncestorSelf DEF L2Block
      <4>2. IsAncestor(Ancestor(start, u), Ancestor(start, Len(start)))
        BY <3>3, AncestorsOrdered DEF L2Block
      <4> QED  BY <4>1, <4>2
    <3> QED  BY <1>1, <2>1, <3>2, <3>4, <3>5 DEF IInv, Ordered, Result
  <2> QED  BY <1>1, <2>1 DEF HeadsOrdered, IInv, Ordered
<1> QED  BY <1>1, SyncStartInvariant, PTL
=============================================================================
