------------------------- MODULE DriverOriginsProofs --------------------------
(***************************************************************************)
(* The origins of the L2 blocks follow L1 block by block, for all values   *)
(* of the constants, while L1 does not re-org.                             *)
(***************************************************************************)
EXTENDS DriverProofs

(***************************************************************************)
(* Origins.  Of a chain of L2 blocks: every origin is on the L1 chain l,   *)
(* and is the origin before it or a child of that.                         *)
(***************************************************************************)
OriginBefore(block, n) == IF n = 1 THEN Genesis ELSE block[n - 1].origin
Continuous(block, l) ==
  \A n \in 1 .. Len(block) :
    /\ IsAncestor(block[n].origin, l)
    /\ \/ block[n].origin = OriginBefore(block, n)
       \/ Parent(block[n].origin) = OriginBefore(block, n)

OnL1(l) == {block \in L1Block : IsAncestor(block, l)}

(***************************************************************************)
(* While L1 does not re-org, all the chains that l2Head may become are     *)
(* continuous, and the L1 blocks that the driver has heard of or buffered  *)
(* are on the L1 chain.                                                    *)
(***************************************************************************)
HeadsContinuous == Continuous(l2Head, l1) /\ Continuous(l2SafeHead, l1)
EpochContinuous == Continuous(epoch.head, l1) /\ Continuous(epoch.safe \o epoch.todo, l1)
OriginsInv ==
  /\ HeadsContinuous /\ EpochContinuous /\ Continuous(eng.head, l1)
  /\ l1Heads \in Seq(OnL1(l1)) /\ l1WindowBuf \in Seq(OnL1(l1))

(* An ancestor of a block with continuous origins has continuous origins. *)
LEMMA ContinuousAncestor ==
  ASSUME NEW b \in L2Block, NEW l, Continuous(b, l), NEW n \in 0 .. Len(b)
  PROVE  Continuous(Ancestor(b, n), l)
<1>1. PICK a : a = Ancestor(b, n)
  OBVIOUS
<1>2. Len(a) = n /\ \A i \in 1 .. n : a[i] = b[i]
  BY <1>1, AncestorType DEF L2Block
<1>3. Len(b) \in Nat
  BY LenProperties DEF L2Block
<1>4. ASSUME NEW i \in 1 .. n
      PROVE  /\ IsAncestor(a[i].origin, l)
             /\ a[i].origin = OriginBefore(a, i) \/ Parent(a[i].origin) = OriginBefore(a, i)
  <2>1. i \in 1 .. Len(b) /\ a[i] = b[i] /\ (i # 1 => i - 1 \in 1 .. n)
    BY <1>2, <1>3
  <2>2. OriginBefore(a, i) = OriginBefore(b, i)
    BY <1>2, <2>1 DEF OriginBefore
  <2> QED  BY <2>1, <2>2 DEF Continuous
<1> QED  BY <1>1, <1>2, <1>4 DEF Continuous

(* L1 may grow. *)
LEMMA ContinuousGrows ==
  ASSUME NEW b \in L2Block, NEW l \in L1Block, NEW p \in Payload, Continuous(b, l)
  PROVE  Continuous(b, Append(l, p))
<1>1. ASSUME NEW n \in 1 .. Len(b)  PROVE IsAncestor(b[n].origin, Append(l, p))
  <2>1. b[n].origin \in L1Block
    <3>1. b[n] \in [origin : L1Block, txs : Txs]
      BY ElementOfSeq, Zenon DEF L2Block
    <3> QED  BY <3>1
  <2>2. IsAncestor(b[n].origin, l)
    BY DEF Continuous
  <2> QED  BY <2>1, <2>2, AncestorOfAppend DEF L1Block
<1> QED  BY <1>1 DEF Continuous

(* The empty chain is continuous. *)
LEMMA ContinuousGenesis ==
  ASSUME NEW l
  PROVE  Continuous(Genesis, l) /\ Continuous(<<>>, l) /\ Continuous(<<>> \o <<>>, l)
<1>1. Len(<<>>) = 0 /\ <<>> \o <<>> = <<>>
  <2>1. <<>> \in Seq({})
    BY EmptySeq
  <2> QED  BY <2>1, EmptySeq, ConcatEmptySeq
<1>2. Continuous(<<>>, l)
  BY <1>1 DEF Continuous
<1> QED  BY <1>1, <1>2 DEF Genesis

(* The origin of a block, by number. *)
LEMMA LastOrigin ==
  ASSUME NEW b \in L2Block
  PROVE  L1Origin(b) = IF Len(b) = 0 THEN Genesis ELSE b[Len(b)].origin
BY EmptySeq DEF L1Origin, Genesis, Last, L2Block

(* Blocks of one origin are added: the last origin, or a child of it. *)
LEMMA ContinuousConcat ==
  ASSUME NEW b \in L2Block, NEW l, Continuous(b, l), NEW more \in L2Block, NEW origin,
         IsAncestor(origin, l), origin = L1Origin(b) \/ Parent(origin) = L1Origin(b),
         \A i \in DOMAIN more : more[i].origin = origin
  PROVE  Continuous(b \o more, l)
<1>1. PICK c : c = b \o more
  BY Zenon
<1>2. Len(b) \in Nat /\ Len(more) \in Nat /\ DOMAIN more = 1 .. Len(more)
  BY LenProperties DEF L2Block
<1>3. /\ Len(c) = Len(b) + Len(more)
      /\ \A i \in 1 .. Len(b) + Len(more) : c[i] = IF i <= Len(b) THEN b[i] ELSE more[i - Len(b)]
  BY <1>1, ConcatProperties DEF L2Block
<1>4. ASSUME NEW n \in 1 .. Len(c)
      PROVE  /\ IsAncestor(c[n].origin, l)
             /\ c[n].origin = OriginBefore(c, n) \/ Parent(c[n].origin) = OriginBefore(c, n)
  <2>1. CASE n <= Len(b)
    <3>1. n \in 1 .. Len(b) /\ c[n] = b[n] /\ (n # 1 => c[n - 1] = b[n - 1])
      BY <1>2, <1>3, <2>1
    <3>2. OriginBefore(c, n) = OriginBefore(b, n)
      BY <3>1 DEF OriginBefore
    <3> QED  BY <3>1, <3>2 DEF Continuous
  <2>2. CASE n = Len(b) + 1
    <3>1. c[n] = more[1] /\ 1 \in DOMAIN more
      BY <1>2, <1>3, <2>2
    <3>2. OriginBefore(c, n) = L1Origin(b)
      <4>1. CASE Len(b) = 0
        BY <1>2, <2>2, <4>1, LastOrigin DEF OriginBefore
      <4>2. CASE Len(b) # 0
        <5>1. n # 1 /\ c[n - 1] = b[Len(b)]
          BY <1>2, <1>3, <2>2, <4>2
        <5> QED  BY <4>2, <5>1, LastOrigin DEF OriginBefore
      <4> QED  BY <4>1, <4>2
    <3> QED  BY <3>1, <3>2
  <2>3. CASE n > Len(b) + 1
    <3>1. /\ c[n] = more[n - Len(b)] /\ n - Len(b) \in DOMAIN more
          /\ n # 1 /\ c[n - 1] = more[n - 1 - Len(b)] /\ n - 1 - Len(b) \in DOMAIN more
      BY <1>2, <1>3, <2>3
    <3>2. c[n].origin = origin /\ OriginBefore(c, n) = origin
      BY <3>1 DEF OriginBefore
    <3> QED  BY <3>2
  <2>4. n <= Len(b) \/ n = Len(b) + 1 \/ n > Len(b) + 1
    BY <1>2, <1>3
  <2> QED  BY <2>1, <2>2, <2>3, <2>4
<1> QED  BY <1>1, <1>4 DEF Continuous

(* A child with the origin of its parent, or the next one on L1, may be added. *)
LEMMA ContinuousAppend ==
  ASSUME NEW b \in L2Block, NEW l, Continuous(b, l), NEW origin \in L1Block, NEW txs \in Txs,
         IsAncestor(origin, l), origin = L1Origin(b) \/ Parent(origin) = L1Origin(b)
  PROVE  Continuous(Append(b, [origin |-> origin, txs |-> txs]), l)
<1>1. PICK e : e = [origin |-> origin, txs |-> txs]
  BY Zenon
<1>2. e \in [origin : L1Block, txs : Txs] /\ e.origin = origin
  BY <1>1
<1>3. <<e>> \in L2Block /\ \A i \in DOMAIN <<e>> : <<e>>[i].origin = origin
  BY <1>2 DEF L2Block
<1>4. Append(b, e) = b \o <<e>>
  BY <1>2, AppendIsConcat DEF L2Block
<1> QED  BY <1>1, <1>3, <1>4, ContinuousConcat, Zenon

(* The origin of a continuous chain is on L1. *)
LEMMA ContinuousOrigin ==
  ASSUME NEW b \in L2Block, NEW l \in L1Block, Continuous(b, l)
  PROVE  IsAncestor(L1Origin(b), l)
<1>1. Len(b) \in Nat /\ Len(l) \in Nat
  BY LenProperties DEF L1Block, L2Block
<1>2. CASE Len(b) = 0
  BY <1>2, LastOrigin, GenesisCanonical DEF L1Block, IsCanonical
<1>3. CASE Len(b) # 0
  BY <1>1, <1>3, LastOrigin DEF Continuous
<1> QED  BY <1>2, <1>3

(* The next L1 block by number is a child of a block on L1. *)
LEMMA NextByNumber ==
  ASSUME NEW l \in L1Block, NEW a \in L1Block, IsAncestor(a, l), HasL1Block(l, Number(a) + 1)
  PROVE  LET next == L1BlockRefByNumber(l, Number(a) + 1)
         IN  next \in L1Block /\ IsAncestor(next, l) /\ Parent(next) = a
<1>1. PICK n : n = Len(a) + 1
  OBVIOUS
<1>2. n \in 1 .. Len(l) /\ n \in 0 .. Len(l) /\ n - 1 = Len(a) /\ a = Ancestor(l, n - 1)
  BY <1>1, LenProperties DEF L1Block, HasL1Block, Number, IsAncestor
<1>3. Ancestor(l, n) \in L1Block /\ Len(Ancestor(l, n)) = n /\ Parent(Ancestor(l, n)) = a
  BY <1>2, AncestorType, ParentOfAncestor DEF L1Block
<1>4. IsAncestor(Ancestor(l, n), l)
  BY <1>2, <1>3 DEF IsAncestor
<1> QED  BY <1>1, <1>3, <1>4 DEF L1BlockRefByNumber, Number

(* The engine's head after its calls: where it was, or where it was told to go. *)
LEMMA EngineHeads ==
  ASSUME NEW s \in EngineState, NEW head \in L2Block, NEW safe \in L2Block
  PROVE  /\ \A t \in ForkchoiceUpdate(s, head, safe) : t.eng.head \in {head, s.eng.head}
         /\ \A block \in L2Block, u \in BOOLEAN :
              \A t \in InsertHeadBlock(s, head, safe, block, u) :
                t.eng.head \in {head, block, s.eng.head}
<1>1. ASSUME NEW r \in EngineState, NEW h \in L2Block, NEW f \in L2Block,
             NEW t \in ForkchoiceUpdate(r, h, f)
      PROVE  t.eng.head \in {h, r.eng.head}
  <2> DEFINE heads == IF IsAncestor(h, r.eng.head) THEN {h, r.eng.head} ELSE {h}
             applied == {[r EXCEPT !.eng = [head |-> g, safe |-> f]] :
                           g \in {g \in heads : IsAncestor(f, g)}}
             refused == {[r EXCEPT !.eng.head = g, !.ok = FALSE] :
                           g \in {g \in heads \cup {r.eng.head} : ~ IsAncestor(f, h)}}
             more == OneMore(r.used, "faults")
             Faulty(u) == [u EXCEPT !.ok = FALSE, !.used = more]
  <2>1. heads \subseteq {h, r.eng.head} /\ r.eng.head \in L2Block
    BY DEF EngineState
  <2>2. ASSUME NEW u \in applied
        PROVE  u.eng.head \in {h, r.eng.head} /\ u \in EngineState
    <3>1. PICK g \in heads : u = [r EXCEPT !.eng = [head |-> g, safe |-> f]]
      OBVIOUS
    <3>2. g \in L2Block /\ g \in {h, r.eng.head}
      BY <2>1
    <3> HIDE DEF heads
    <3> QED  BY <3>1, <3>2 DEF EngineState
  <2>3. ASSUME NEW u \in refused
        PROVE  u.eng.head \in {h, r.eng.head} /\ u \in EngineState
    <3>1. PICK g \in heads \cup {r.eng.head} : u = [r EXCEPT !.eng.head = g, !.ok = FALSE]
      BY Zenon
    <3>2. g \in L2Block /\ g \in {h, r.eng.head}
      BY <2>1, Zenon
    <3> HIDE DEF heads
    <3> QED  BY <3>1, <3>2, Zenon DEF EngineState
  <2> HIDE DEF applied, refused, more
  <2>4. ASSUME NEW u \in {r} \cup applied \cup refused
        PROVE  Faulty(u).eng.head \in {h, r.eng.head}
    <3>1. u \in EngineState /\ u.eng.head \in {h, r.eng.head}
      BY <2>2, <2>3
    <3> QED  BY <3>1 DEF EngineState
  <2>5. t \in applied \cup refused
              \cup {u \in {Faulty(v) : v \in {r} \cup applied \cup refused} : u.used \in Allowed}
    BY Zenon DEF ForkchoiceUpdate, applied, refused, more
  <2> QED  BY <2>2, <2>3, <2>4, <2>5, Zenon
<1>2. ASSUME NEW block \in L2Block, NEW u \in BOOLEAN,
             NEW t \in InsertHeadBlock(s, head, safe, block, u)
      PROVE  t.eng.head \in {head, block, s.eng.head}
  <2>1. PICK r \in ForkchoiceUpdate(s, head, safe) :
          t \in IF r.ok THEN ForkchoiceUpdate(r, block, IF u THEN block ELSE safe) ELSE {r}
    BY DEF InsertHeadBlock
  <2>2. r \in EngineState /\ r.eng.head \in {head, s.eng.head}
    BY <1>1, ForkchoiceUpdateType
  <2>3. (IF u THEN block ELSE safe) \in L2Block
    OBVIOUS
  <2>4. CASE r.ok
    <3>1. t.eng.head \in {block, r.eng.head}
      BY <1>1, <2>1, <2>2, <2>3, <2>4
    <3> QED  BY <2>2, <3>1
  <2>5. CASE ~ r.ok
    BY <2>1, <2>2, <2>5
  <2> QED  BY <2>4, <2>5
<1> QED  BY <1>1, <1>2

-----------------------------------------------------------------------------
(* The L1 chain grows; its signals are lost and reordered; the ticker. *)
LEMMA EnvironmentOrigins ==
  ASSUME Inv, OriginsInv, L1Extend \/ L1HeadLost \/ L1HeadOvertakes \/ Tick \/ UNCHANGED vars
  PROVE  OriginsInv'
<1>1. /\ l1 \in L1Block /\ l2Head \in L2Block /\ l2SafeHead \in L2Block /\ eng.head \in L2Block
      /\ epoch.head \in L2Block /\ epoch.safe \o epoch.todo \in L2Block
  BY ConcatProperties DEF Inv, TypeOK, L2Block
<1>2. l1Heads \in Seq(OnL1(l1)) /\ l1WindowBuf \in Seq(OnL1(l1))
  BY DEF OriginsInv
<1>3. UNCHANGED <<refVars, epoch, eng>>
  BY DEF L1Extend, L1HeadLost, L1HeadOvertakes, Tick, vars
<1>4. CASE L1Extend
  <2>1. PICK p \in Payload : Announce(Append(l1, p))
    BY <1>4 DEF L1Extend
  <2>2. l1' = Append(l1, p) /\ l1Heads' = Append(l1Heads, Append(l1, p))
    BY <2>1 DEF Announce
  <2>3. l1' \in L1Block
    BY <1>1, <2>2, AppendProperties DEF L1Block
  <2>4. OnL1(l1) \subseteq OnL1(l1') /\ l1' \in OnL1(l1')
    <3>1. ASSUME NEW b \in OnL1(l1)  PROVE b \in OnL1(l1')
      BY <1>1, <2>2, AncestorOfAppend DEF OnL1, L1Block
    <3>2. l1' \in OnL1(l1')
      BY <2>3, AncestorReflexive DEF OnL1, L1Block
    <3> QED  BY <3>1, <3>2
  <2>5. l1Heads \in Seq(OnL1(l1')) /\ l1WindowBuf \in Seq(OnL1(l1'))
    <3>1. PICK less, more : less = OnL1(l1) /\ more = OnL1(l1')
      OBVIOUS
    <3>2. l1Heads \in Seq(more) /\ l1WindowBuf \in Seq(more)
      BY <1>2, <2>4, <3>1, SeqMonotonic
    <3> QED  BY <3>1, <3>2
  <2>6. l1Heads' \in Seq(OnL1(l1'))
    BY <2>2, <2>4, <2>5, AppendProperties
  <2>7. /\ Continuous(l2Head, l1') /\ Continuous(l2SafeHead, l1') /\ Continuous(eng.head, l1')
        /\ Continuous(epoch.head, l1') /\ Continuous(epoch.safe \o epoch.todo, l1')
    BY <1>1, <2>2, ContinuousGrows DEF OriginsInv, HeadsContinuous, EpochContinuous
  <2> QED  BY <1>3, <2>5, <2>6, <2>7 DEF OriginsInv, HeadsContinuous, EpochContinuous, refVars
<1>5. ASSUME l1' = l1, l1Heads' \in Seq(OnL1(l1))  PROVE OriginsInv'
  BY <1>3, <1>5 DEF OriginsInv, HeadsContinuous, EpochContinuous, refVars
<1>6. CASE L1HeadLost
  <2>1. l1Heads' \in Seq(OnL1(l1)) /\ l1' = l1
    BY <1>2, <1>6, RemoveAtType DEF L1HeadLost
  <2> QED  BY <1>5, <2>1
<1>7. CASE L1HeadOvertakes
  <2>1. PICK i \in DOMAIN l1Heads : l1Heads' = <<l1Heads[i]>> \o RemoveAt(l1Heads, i)
    BY <1>7 DEF L1HeadOvertakes
  <2>2. PICK S : S = OnL1(l1)
    OBVIOUS
  <2>3. RemoveAt(l1Heads, i) \in Seq(S) /\ l1Heads[i] \in S
    BY <1>2, <2>2, RemoveAtType, ElementOfSeq, LenProperties
  <2>4. <<l1Heads[i]>> \in Seq(S)
    BY <2>3
  <2>5. l1Heads' \in Seq(S)
    BY <2>1, <2>3, <2>4, ConcatProperties
  <2>6. l1' = l1
    BY <1>7 DEF L1HeadOvertakes
  <2> QED  BY <1>5, <2>2, <2>5, <2>6
<1>8. CASE Tick \/ UNCHANGED vars
  <2>1. l1' = l1 /\ l1Heads' = l1Heads
    BY <1>8 DEF Tick, vars, l1Vars
  <2> QED  BY <1>2, <1>5, <2>1
<1> QED  BY <1>4, <1>6, <1>7, <1>8

(* The same, of a block that is known to be an ancestor. *)
LEMMA AncestorContinuous ==
  ASSUME NEW a \in L2Block, NEW b \in L2Block, NEW l, IsAncestor(a, b), Continuous(b, l)
  PROVE  Continuous(a, l)
<1>1. Len(a) \in 0 .. Len(b) /\ a = Ancestor(b, Len(a))
  BY LenProperties DEF IsAncestor, L2Block
<1>2. Continuous(Ancestor(b, Len(a)), l)
  BY <1>1, ContinuousAncestor
<1> QED  BY <1>1, <1>2

(* The heads that FindL2Heads finds below a continuous chain. *)
LEMMA FoundHeadsContinuous ==
  ASSUME NEW b \in L2Block, l1 \in L1Block, Continuous(b, l1)
  PROVE  /\ UnsafeHead(b, l1) \in L2Block /\ SafeHead(b, l1) \in L2Block
         /\ Continuous(UnsafeHead(b, l1), l1) /\ Continuous(SafeHead(b, l1), l1)
<1>1. /\ UnsafeHead(b, l1) \in L2Block /\ SafeHead(b, l1) \in L2Block
      /\ IsAncestor(SafeHead(b, l1), UnsafeHead(b, l1)) /\ IsAncestor(UnsafeHead(b, l1), b)
  BY FindL2HeadsOrdered, Zenon DEF L1Block, L2Block
<1>2. Continuous(UnsafeHead(b, l1), l1)
  BY <1>1, AncestorContinuous
<1>3. Continuous(SafeHead(b, l1), l1)
  BY <1>1, <1>2, AncestorContinuous
<1> QED  BY <1>1, <1>2, <1>3

(* A new L1 head. *)
LEMMA HandleNewL1BlockOrigins ==
  ASSUME Inv, OriginsInv, HandleNewL1Block
  PROVE  OriginsInv'
<1>1. /\ l1 \in L1Block /\ l2Head \in L2Block /\ l2SafeHead \in L2Block /\ eng.head \in L2Block
      /\ TypeOK /\ l1Heads # <<>>
  BY DEF Inv, TypeOK, HandleNewL1Block
<1>2. /\ l1' = l1 /\ epoch' = epoch /\ l1Heads' = Tail(l1Heads)
      /\ l1Heads \in Seq(OnL1(l1)) /\ l1WindowBuf \in Seq(OnL1(l1))
  BY DEF OriginsInv, HandleNewL1Block
<1>3. PICK new : new = Head(l1Heads) /\ (SameHead(new) \/ LinearExtension(new) \/ L1HeadJump(new))
  BY DEF HandleNewL1Block
<1>4. new \in OnL1(l1) /\ l1Heads' \in Seq(OnL1(l1))
  <2>1. PICK S : S = OnL1(l1)
    OBVIOUS
  <2>2. Head(l1Heads) \in S /\ Tail(l1Heads) \in Seq(S)
    BY <1>1, <1>2, <2>1, HeadTailProperties
  <2> QED  BY <1>2, <1>3, <2>1, <2>2
<1>5. ASSUME HeadsContinuous', Continuous(eng.head, l1)', l1WindowBuf' \in Seq(OnL1(l1))
      PROVE  OriginsInv'
  BY <1>2, <1>4, <1>5 DEF OriginsInv, EpochContinuous
<1>6. CASE UNCHANGED <<l2Head, l2SafeHead, eng>> /\ l1WindowBuf' \in Seq(OnL1(l1))
  BY <1>2, <1>5, <1>6 DEF OriginsInv, HeadsContinuous
<1>7. CASE SameHead(new)
  <2>1. UNCHANGED <<l2Head, l2SafeHead, eng>> /\ l1WindowBuf' = l1WindowBuf
    BY <1>7 DEF SameHead, refVars
  <2> QED  BY <1>2, <1>6, <2>1
<1>8. CASE LinearExtension(new)
  <2>1. UNCHANGED <<l2Head, l2SafeHead, eng>> /\ l1WindowBuf' \in {Append(l1WindowBuf, new), l1WindowBuf}
    BY <1>8 DEF LinearExtension
  <2>2. Append(l1WindowBuf, new) \in Seq(OnL1(l1))
    BY <1>2, <1>4, AppendProperties
  <2> QED  BY <1>2, <1>6, <2>1, <2>2
<1>9. CASE L1HeadJump(new)
  <2>1. CASE UNCHANGED <<refVars, eng>>
    <3>1. UNCHANGED <<l2Head, l2SafeHead, eng>> /\ l1WindowBuf' = l1WindowBuf
      BY <2>1 DEF refVars
    <3> QED  BY <1>2, <1>6, <3>1
  <2>2. PICK unsafe, safe : unsafe = UnsafeHead(l2Head, l1) /\ safe = SafeHead(l2Head, l1)
    OBVIOUS
  <2>3. CASE \E s \in ForkchoiceUpdate(EngineNow, unsafe, safe) :
               /\ Leave(s)
               /\ UNCHANGED refVars \/ ResetHeads(new, unsafe, safe)
    <3>1. PICK s \in ForkchoiceUpdate(EngineNow, unsafe, safe) :
                 Leave(s) /\ (UNCHANGED refVars \/ ResetHeads(new, unsafe, safe))
      BY <2>3
    <3>2. /\ unsafe \in L2Block /\ safe \in L2Block
          /\ Continuous(unsafe, l1) /\ Continuous(safe, l1)
      BY <1>1, <2>2, FoundHeadsContinuous DEF OriginsInv, HeadsContinuous
    <3>3. EngineNow \in EngineState /\ EngineNow.eng = eng
      BY <1>1, EngineNowType DEF EngineNow
    <3>4. s.eng.head \in {unsafe, eng.head}
      BY <3>2, <3>3, EngineHeads
    <3>5. Continuous(eng.head, l1)'
      BY <1>2, <3>1, <3>2, <3>4 DEF Leave, OriginsInv
    <3>6. HeadsContinuous' /\ l1WindowBuf' \in Seq(OnL1(l1))
      <4>1. CASE UNCHANGED refVars
        BY <1>2, <4>1 DEF OriginsInv, HeadsContinuous, refVars
      <4>2. CASE ResetHeads(new, unsafe, safe)
        <5>1. l1WindowBuf' = <<>> /\ l2Head' = unsafe /\ l2SafeHead' \in {safe, l2SafeHead}
          BY <4>2 DEF ResetHeads
        <5>2. <<>> \in Seq(OnL1(l1))
          BY EmptySeq
        <5> QED  BY <1>2, <3>2, <5>1, <5>2 DEF OriginsInv, HeadsContinuous
      <4> QED  BY <3>1, <4>1, <4>2
    <3> QED  BY <1>5, <3>5, <3>6
  <2>4. UNCHANGED <<refVars, eng>>
          \/ \E s \in ForkchoiceUpdate(EngineNow, unsafe, safe) :
               /\ Leave(s)
               /\ UNCHANGED refVars \/ ResetHeads(new, unsafe, safe)
    BY <1>9, <2>2 DEF L1HeadJump, QueryFails
  <2> QED  BY <2>1, <2>3, <2>4
<1> QED  BY <1>3, <1>7, <1>8, <1>9

(* The sequencer's next block. *)
LEMMA HandleBlockRequestOrigins ==
  ASSUME Inv, OriginsInv, HandleBlockRequest
  PROVE  OriginsInv'
<1>1. /\ l1 \in L1Block /\ l2Head \in L2Block /\ l2SafeHead \in L2Block /\ eng.head \in L2Block
      /\ TypeOK /\ L1Origin(l2Head) \in L1Block
  BY L2OriginType DEF Inv, TypeOK
<1>2. UNCHANGED <<l1, l1Heads, l2SafeHead, l1WindowBuf, epoch>>
  BY DEF HandleBlockRequest, l1Vars
<1>3. Continuous(l2Head, l1) /\ Continuous(eng.head, l1) /\ IsAncestor(L1Origin(l2Head), l1)
  BY <1>1, ContinuousOrigin DEF OriginsInv, HeadsContinuous
<1>4. ASSUME Continuous(l2Head', l1), Continuous(eng'.head, l1)  PROVE OriginsInv'
  BY <1>2, <1>4 DEF OriginsInv, HeadsContinuous, EpochContinuous
<1>5. ASSUME NEW origin \in L1Block, NEW s \in EngineState, s.eng = eng, CreateNewL2Block(origin, s),
             IsAncestor(origin, l1),
             origin = L1Origin(l2Head) \/ Parent(origin) = L1Origin(l2Head)
      PROVE  OriginsInv'
  <2>1. CASE Leave(s) /\ UNCHANGED l2Head
    BY <1>3, <1>4, <1>5, <2>1 DEF Leave
  <2>2. CASE \E txs \in Txs :
               LET block == Append(l2Head, [origin |-> origin, txs |-> txs])
               IN  \E t \in InsertHeadBlock(s, l2Head, l2SafeHead, block, FALSE) :
                     Leave(t) /\ l2Head' = IF t.ok THEN block ELSE l2Head
    <3>1. PICK txs \in Txs :
               LET block == Append(l2Head, [origin |-> origin, txs |-> txs])
               IN  \E t \in InsertHeadBlock(s, l2Head, l2SafeHead, block, FALSE) :
                     Leave(t) /\ l2Head' = IF t.ok THEN block ELSE l2Head
      BY <2>2, Zenon
    <3>2. PICK block : block = Append(l2Head, [origin |-> origin, txs |-> txs])
      BY Zenon
    <3>3. PICK t \in InsertHeadBlock(s, l2Head, l2SafeHead, block, FALSE) :
                 Leave(t) /\ l2Head' = IF t.ok THEN block ELSE l2Head
      BY <3>1, <3>2, Zenon
    <3>4. block \in L2Block /\ Continuous(block, l1)
      BY <1>1, <1>3, <1>5, <3>2, NewBlockType, ContinuousAppend
    <3>5. t.eng.head \in {l2Head, block, eng.head}
      BY <1>1, <1>5, <3>3, <3>4, EngineHeads, Zenon
    <3>6. Continuous(eng'.head, l1) /\ Continuous(l2Head', l1)
      BY <1>3, <3>3, <3>4, <3>5 DEF Leave
    <3> QED  BY <1>4, <3>6
  <2>3. NoTxs \in Txs
    BY TxsAssumption
  <2> QED  BY <1>5, <2>1, <2>2, <2>3, Zenon DEF CreateNewL2Block
<1>6. EngineNow \in EngineState /\ EngineNow.eng = eng
  BY <1>1, EngineNowType DEF EngineNow
<1>7. After("faults") \in EngineState /\ After("faults").eng = eng
  BY <1>1, AfterType DEF Mishaps
<1>8. findL1Origin \in L1Block /\ IsAncestor(findL1Origin, l1)
      /\ (findL1Origin = L1Origin(l2Head) \/ Parent(findL1Origin) = L1Origin(l2Head))
  <2>1. PICK current, next : /\ current = L1Origin(l2Head)
                             /\ next = L1BlockRefByNumber(l1, Number(current) + 1)
    OBVIOUS
  <2>2. \/ findL1Origin = current
        \/ HasL1Block(l1, Number(current) + 1) /\ findL1Origin = next
    BY <2>1 DEF findL1Origin
  <2>3. HasL1Block(l1, Number(current) + 1)
          => next \in L1Block /\ IsAncestor(next, l1) /\ Parent(next) = current
    BY <1>1, <1>3, <2>1, NextByNumber
  <2> QED  BY <1>1, <1>3, <2>1, <2>2, <2>3
<1>9. CASE CreateNewL2Block(findL1Origin, EngineNow)
  BY <1>5, <1>6, <1>8, <1>9
<1>10. CASE CreateNewL2Block(L1Origin(l2Head), After("faults"))
  BY <1>1, <1>3, <1>5, <1>7, <1>10
<1>11. CASE QueryFails /\ UNCHANGED l2Head
  BY <1>3, <1>4, <1>11 DEF QueryFails
<1> QED  BY <1>9, <1>10, <1>11 DEF HandleBlockRequest

(* A payload is a child of a block of the engine or of the safe chain. *)
LEMMA PayloadIsChild ==
  ASSUME NEW payload \in UnsafePayloads
  PROVE  \E parent \in Prefixes(eng.head) \cup Prefixes(l2SafeHead) :
           \E origin \in NextOrigins(parent), txs \in Txs \ ForbiddenTxs :
             payload = Append(parent, [origin |-> origin, txs |-> txs])
<1>1. PICK parent \in Prefixes(eng.head) \cup Prefixes(l2SafeHead) :
        payload \in Children(parent)
  BY DEF UnsafePayloads
<1>2. \E origin \in NextOrigins(parent), txs \in Txs \ ForbiddenTxs :
        payload = Append(parent, [origin |-> origin, txs |-> txs])
  BY <1>1 DEF Children
<1> QED  BY <1>2

(* A block that a peer sends. *)
LEMMA HandleUnsafeL2PayloadOrigins ==
  ASSUME Inv, OriginsInv, Never({"reorgs"}), HandleUnsafeL2Payload
  PROVE  OriginsInv'
<1>1. /\ l1 \in L1Block /\ l2Head \in L2Block /\ l2SafeHead \in L2Block /\ eng.head \in L2Block
      /\ TypeOK
  BY DEF Inv, TypeOK
<1>2. UNCHANGED <<l1, l1Heads, l2SafeHead, l1WindowBuf, epoch>>
  BY DEF HandleUnsafeL2Payload, l1Vars
<1>3. Continuous(l2Head, l1) /\ Continuous(l2SafeHead, l1) /\ Continuous(eng.head, l1)
  BY DEF OriginsInv, HeadsContinuous
<1>4. PICK payload \in UnsafePayloads : ProcessBlock(payload)
  BY DEF HandleUnsafeL2Payload
<1>5. PICK parent \in Prefixes(eng.head) \cup Prefixes(l2SafeHead) :
        \E origin \in NextOrigins(parent), txs \in Txs \ ForbiddenTxs :
          payload = Append(parent, [origin |-> origin, txs |-> txs])
  BY PayloadIsChild, Zenon
<1>6. parent \in L2Block /\ Continuous(parent, l1)
  <2>1. ASSUME NEW b \in L2Block, Continuous(b, l1), parent \in Prefixes(b)
        PROVE  parent \in L2Block /\ Continuous(parent, l1)
    <3>1. PICK n \in 0 .. Len(b) : parent = Ancestor(b, n)
      BY <2>1 DEF Prefixes, Ancestor
    <3>2. Ancestor(b, n) \in L2Block
      BY AncestorType DEF L2Block
    <3>3. Continuous(Ancestor(b, n), l1)
      BY <2>1, ContinuousAncestor
    <3> QED  BY <3>1, <3>2, <3>3
  <2> QED  BY <1>1, <1>3, <1>5, <2>1
<1>7. PICK origin \in NextOrigins(parent), txs \in Txs \ ForbiddenTxs :
        payload = Append(parent, [origin |-> origin, txs |-> txs])
  BY <1>5
<1>8. /\ origin \in L1Block /\ IsAncestor(origin, l1)
      /\ origin = L1Origin(parent) \/ Parent(origin) = L1Origin(parent)
  <2>1. PICK current, next : /\ current = L1Origin(parent)
                             /\ next = L1BlockRefByNumber(l1, Number(current) + 1)
    OBVIOUS
  <2>2. current \in L1Block /\ IsAncestor(current, l1)
    BY <1>1, <1>6, <2>1, L2OriginType, ContinuousOrigin
  <2>3. origin = current \/ (HasL1Block(l1, Number(current) + 1) /\ origin = next)
    BY <1>7, <2>1 DEF NextOrigins, Never
  <2>4. HasL1Block(l1, Number(current) + 1)
          => next \in L1Block /\ IsAncestor(next, l1) /\ Parent(next) = current
    BY <1>1, <2>1, <2>2, NextByNumber
  <2> QED  BY <2>1, <2>2, <2>3, <2>4
<1>9. payload \in L2Block /\ Continuous(payload, l1)
  BY <1>6, <1>7, <1>8, NewBlockType, ContinuousAppend
<1>10. PICK s \in ForkchoiceUpdate(After("payloads"), payload, l2SafeHead) :
         Leave(s) /\ l2Head' = IF s.ok THEN payload ELSE l2Head
  BY <1>4 DEF ProcessBlock
<1>11. s.eng.head \in {payload, eng.head}
  <2>1. After("payloads") \in EngineState /\ After("payloads").eng = eng
    BY <1>1, AfterType DEF Mishaps
  <2> QED  BY <1>1, <1>9, <2>1, EngineHeads
<1>12. Continuous(l2Head', l1) /\ Continuous(eng'.head, l1)
  BY <1>3, <1>9, <1>10, <1>11 DEF Leave
<1> QED  BY <1>2, <1>12 DEF OriginsInv, HeadsContinuous, EpochContinuous

(* A restart keeps nothing but the engine. *)
LEMMA RestartOrigins ==
  ASSUME Inv, OriginsInv, Restart
  PROVE  OriginsInv'
<1>1. l1 \in L1Block /\ eng.head \in L2Block /\ Continuous(eng.head, l1)
  BY DEF Inv, TypeOK, OriginsInv
<1>2. UNCHANGED <<l1, eng>> /\ l1Heads' = <<>> /\ l1WindowBuf' = <<>> /\ epoch' = Idle
  BY DEF Restart
<1>3. l2Head' \in {Genesis, UnsafeHead(eng.head, l1)} /\ l2SafeHead' \in {Genesis, SafeHead(eng.head, l1)}
  BY DEF Restart
<1>4. HeadsContinuous'
  BY <1>1, <1>2, <1>3, FoundHeadsContinuous, ContinuousGenesis DEF HeadsContinuous
<1>5. EpochContinuous'
  <2>1. Idle.head = Genesis /\ Idle.safe = <<>> /\ Idle.todo = <<>>
    BY DEF Idle, Genesis
  <2> QED  BY <1>2, <2>1, ContinuousGenesis DEF EpochContinuous
<1>6. <<>> \in Seq(OnL1(l1'))
  BY EmptySeq
<1> QED  BY <1>1, <1>2, <1>4, <1>5, <1>6 DEF OriginsInv

-----------------------------------------------------------------------------
(* The first blocks of a continuous chain. *)
LEMMA ConcatContinuous ==
  ASSUME NEW a \in L2Block, NEW b \in L2Block, NEW l, Continuous(a \o b, l)
  PROVE  Continuous(a, l)
<1>1. PICK c : c = a \o b
  BY Zenon
<1>2. Len(a) \in Nat /\ Len(b) \in Nat
  BY LenProperties DEF L2Block
<1>3. c \in L2Block /\ Len(c) = Len(a) + Len(b) /\ \A i \in 1 .. Len(a) : c[i] = a[i]
  <2>1. /\ c \in L2Block /\ Len(c) = Len(a) + Len(b)
        /\ \A i \in 1 .. Len(a) + Len(b) : c[i] = IF i <= Len(a) THEN a[i] ELSE b[i - Len(a)]
    BY <1>1, ConcatProperties DEF L2Block
  <2> QED  BY <1>2, <2>1
<1>4. Continuous(c, l)
  BY <1>1
<1>5. ASSUME NEW n \in 1 .. Len(a)
      PROVE  /\ IsAncestor(a[n].origin, l)
             /\ a[n].origin = OriginBefore(a, n) \/ Parent(a[n].origin) = OriginBefore(a, n)
  <2>1. n \in 1 .. Len(c) /\ c[n] = a[n] /\ (n # 1 => c[n - 1] = a[n - 1])
    BY <1>2, <1>3
  <2>2. OriginBefore(c, n) = OriginBefore(a, n)
    BY <2>1 DEF OriginBefore
  <2> QED  BY <1>4, <2>1, <2>2 DEF Continuous
<1> QED  BY <1>5 DEF Continuous

(* Clearing the buffer after an error in insertEpoch. *)
LEMMA GiveUpEpochOrigins ==
  ASSUME OriginsInv, GiveUpEpoch, UNCHANGED l1Vars, Continuous(eng'.head, l1)
  PROVE  OriginsInv'
<1>1. /\ UNCHANGED <<l1, l1Heads, l2Head, l2SafeHead>> /\ l1WindowBuf' = <<>> /\ epoch' = Idle
  BY DEF GiveUpEpoch, l1Vars
<1>2. EpochContinuous'
  <2>1. Idle.head = Genesis /\ Idle.safe = <<>> /\ Idle.todo = <<>>
    BY DEF Idle, Genesis
  <2> QED  BY <1>1, <2>1, ContinuousGenesis DEF EpochContinuous
<1>3. <<>> \in Seq(OnL1(l1))
  BY EmptySeq
<1> QED  BY <1>1, <1>2, <1>3 DEF OriginsInv, HeadsContinuous

(* The L1 blocks that extend the window are fetched by number, from L1. *)
LEMMA ExtendedOnL1 ==
  ASSUME Inv, OriginsInv, ~ L1RangeFails(l1, l1WindowBufEnd(l1WindowBuf))
  PROVE  Extended \in Seq(OnL1(l1))
<1>1. l1 \in L1Block /\ l2SafeHead \in L2Block /\ l1WindowBuf \in Seq(L1Block)
  BY DEF Inv, TypeOK
<1>2. PICK end : end = l1WindowBufEnd(l1WindowBuf)
  OBVIOUS
<1>3. end \in L1Block
  <2>1. l1WindowBuf # <<>> => Last(l1WindowBuf) \in L1Block
    BY <1>1, EmptySeq, ElementOfSeq DEF Last
  <2> QED  BY <1>1, <1>2, <2>1, L2OriginType DEF l1WindowBufEnd
<1>4. Len(end) \in Nat /\ Len(l1) \in Nat /\ 2 * SeqWindowSize \in Nat
  BY <1>1, <1>3, LenProperties, SeqWindowSizeAssumption DEF L1Block
<1>5. PICK n : n = IF Len(l1) <= Len(end) THEN 0
                   ELSE IF Len(l1) - Len(end) < 2 * SeqWindowSize THEN Len(l1) - Len(end)
                   ELSE 2 * SeqWindowSize
  OBVIOUS
<1>6. n \in Nat /\ \A i \in 1 .. n : Len(end) + i \in 0 .. Len(l1)
  BY <1>4, <1>5
<1>7. PICK range : range = L1Range(l1, end, 2 * SeqWindowSize)
  OBVIOUS
<1>8. range = [i \in 1 .. n |-> Ancestor(l1, Len(end) + i)]
  BY <1>5, <1>7 DEF L1Range, L1BlockRefByNumber, Number
<1>9. ASSUME NEW i \in 1 .. n  PROVE Ancestor(l1, Len(end) + i) \in OnL1(l1)
  <2>1. PICK k : k = Len(end) + i
    OBVIOUS
  <2>2. k \in 0 .. Len(l1)
    BY <1>6, <2>1
  <2>3. Ancestor(l1, k) \in L1Block /\ Len(Ancestor(l1, k)) = k
    BY <1>1, <2>2, AncestorType DEF L1Block
  <2>4. IsAncestor(Ancestor(l1, k), l1)
    BY <2>2, <2>3 DEF IsAncestor
  <2> QED  BY <2>1, <2>3, <2>4 DEF OnL1
<1>10. PICK S : S = OnL1(l1)
  OBVIOUS
<1>11. range \in Seq(S)
  <2>1. range \in [1 .. n -> S]
    BY <1>8, <1>9, <1>10
  <2> QED  BY <1>6, <2>1
<1>12. l1WindowBuf \o range \in Seq(S)
  BY <1>10, <1>11, ConcatProperties DEF OriginsInv
<1> QED  BY <1>2, <1>7, <1>10, <1>12 DEF Extended

(* An epoch begins with the child of the safe head's origin. *)
LEMMA WindowAvailableOrigins ==
  ASSUME Inv, OriginsInv, NEW buf \in Seq(OnL1(l1)), buf \in Seq(L1Block),
         Chained(L1Origin(l2SafeHead), buf), WindowAvailable(buf), UNCHANGED l1Vars
  PROVE  OriginsInv'
<1>1. /\ l2SafeHead \in L2Block /\ Continuous(l2Head, l1) /\ Continuous(l2SafeHead, l1)
      /\ Continuous(eng.head, l1) /\ UNCHANGED <<l1, l1Heads>>
  BY DEF Inv, TypeOK, OriginsInv, HeadsContinuous, l1Vars
<1>2. CASE WindowTooShort(buf)
  <2>1. l1WindowBuf' = buf /\ UNCHANGED <<l2Head, l2SafeHead, epoch, eng>>
    BY <1>2 DEF WindowTooShort
  <2> QED  BY <1>1, <2>1 DEF OriginsInv, HeadsContinuous, EpochContinuous
<1>3. CASE InsertEpochRefused(buf)
  <2>1. GiveUpEpoch /\ eng' = eng
    BY <1>3 DEF InsertEpochRefused, QueryFails
  <2> QED  BY <1>1, <2>1, GiveUpEpochOrigins
<1>4. CASE Len(buf) >= SeqWindowSize /\ InsertEpoch(buf)
  <2> DEFINE window == SubSeq(buf, 1, SeqWindowSize)
             todo == EpochEntries(l2SafeHead, window)
  <2>1. SeqWindowSize \in 2 .. Len(buf) /\ SeqWindowSize \in Nat /\ Len(buf) \in Nat
    BY <1>4, SeqWindowSizeAssumption, LenProperties
  <2>2. /\ window \in Seq(L1Block) /\ Len(window) = SeqWindowSize
        /\ \A i \in 1 .. SeqWindowSize : window[i] = buf[i]
    <3>1. SeqWindowSize \in 0 .. Len(buf)
      BY <2>1
    <3> QED  BY <3>1, AncestorType DEF Ancestor
  <2> HIDE DEF window
  <2>3. \A i \in DOMAIN window : window[i] # Genesis
    <3>1. DOMAIN window = 1 .. SeqWindowSize /\ DOMAIN buf = 1 .. Len(buf)
      BY <2>2, LenProperties
    <3> QED  BY <2>1, <2>2, <3>1, SMTT(30) DEF Chained
  <2>4. todo \in L2Block /\ \A i \in DOMAIN todo : todo[i].origin = window[1]
    BY <1>1, <2>1, <2>2, <2>3, EpochEntriesType
  <2>5. window[1] = buf[1] /\ 1 \in 1 .. Len(buf)
    BY <2>1, <2>2
  <2> HIDE DEF todo
  <2>6. /\ epoch' = [busy |-> TRUE, todo |-> todo, head |-> l2Head, safe |-> l2SafeHead,
                     reorg |-> FALSE]
        /\ Parent(window[1]) = L1Origin(l2SafeHead)
        /\ l1WindowBuf' = buf /\ UNCHANGED <<l2Head, l2SafeHead, eng>>
    BY <1>4, Zenon DEF InsertEpoch, todo, window
  <2>7. IsAncestor(window[1], l1)
    <3>1. buf[1] \in OnL1(l1)
      BY <2>5, ElementOfSeq
    <3> QED  BY <2>5, <3>1 DEF OnL1
  <2>8. Continuous(l2SafeHead \o todo, l1)
    BY <1>1, <2>4, <2>6, <2>7, ContinuousConcat, Zenon
  <2>9. epoch'.head = l2Head /\ epoch'.safe = l2SafeHead /\ epoch'.todo = todo
    BY <2>6
  <2>10. EpochContinuous'
    BY <1>1, <2>8, <2>9, Zenon DEF EpochContinuous
  <2> QED  BY <1>1, <2>6, <2>10 DEF OriginsInv, HeadsContinuous
<1> QED  BY <1>2, <1>3, <1>4 DEF WindowAvailable

(* The step event of the loop. *)
LEMMA HandleStepRequestOrigins ==
  ASSUME Inv, OriginsInv, HandleStepRequest
  PROVE  OriginsInv'
<1>1. /\ UNCHANGED l1Vars /\ l1WindowBuf \in Seq(L1Block) /\ l1WindowBuf \in Seq(OnL1(l1))
      /\ Chained(L1Origin(l2SafeHead), l1WindowBuf)
  BY DEF HandleStepRequest, Inv, TypeOK, WindowContiguous, OriginsInv
<1>2. CASE WindowNotExtended
  <2>1. UNCHANGED <<refVars, epoch, eng>>
    BY <1>2 DEF WindowNotExtended, QueryFails
  <2> QED  BY <1>1, <2>1 DEF OriginsInv, HeadsContinuous, EpochContinuous, refVars, l1Vars
<1>3. CASE ~ L1RangeFails(l1, l1WindowBufEnd(l1WindowBuf)) /\ WindowAvailable(Extended)
  <2>1. PICK buf : buf = Extended
    OBVIOUS
  <2>2. /\ buf \in Seq(OnL1(l1)) /\ buf \in Seq(L1Block)
        /\ Chained(L1Origin(l2SafeHead), buf) /\ WindowAvailable(buf)
    BY <1>3, <2>1, ExtendedOnL1, ExtendedChained
  <2> QED  BY <1>1, <2>2, WindowAvailableOrigins
<1>4. CASE WindowAvailable(l1WindowBuf)
  BY <1>1, <1>4, WindowAvailableOrigins
<1> QED  BY <1>2, <1>3, <1>4 DEF HandleStepRequest

(* One block of a running epoch. *)
LEMMA InsertEpochBlockOrigins ==
  ASSUME Inv, OriginsInv, InsertEpochBlock
  PROVE  OriginsInv'
<1>1. epoch.todo # <<>> /\ UNCHANGED l1Vars /\ UNCHANGED <<l1, l1Heads>>
  BY DEF InsertEpochBlock, l1Vars
<1>2. /\ TypeOK /\ epoch.head \in L2Block /\ epoch.safe \in L2Block /\ epoch.todo \in L2Block
      /\ eng.head \in L2Block /\ EngineNow \in EngineState /\ EngineNow.eng = eng
      /\ epoch \in [busy : BOOLEAN, todo : L2Block, head : L2Block, safe : L2Block, reorg : BOOLEAN]
  BY EngineNowType DEF Inv, TypeOK, EngineNow
<1>3. /\ Continuous(epoch.head, l1) /\ Continuous(eng.head, l1)
      /\ Continuous(epoch.safe \o epoch.todo, l1)
  BY DEF OriginsInv, EpochContinuous
<1>4. PICK next : next = NextSafe
  OBVIOUS
<1>5. next \in L2Block /\ Tail(epoch.todo) \in L2Block
  <2>1. Head(epoch.todo) \in [origin : L1Block, txs : Txs] /\ Tail(epoch.todo) \in L2Block
    BY <1>1, <1>2, HeadTailProperties, Zenon DEF L2Block
  <2> QED  BY <1>2, <1>4, <2>1, AppendProperties DEF NextSafe, L2Block
<1>6. next \o Tail(epoch.todo) = epoch.safe \o epoch.todo
  BY <1>1, <1>2, <1>4, MovedOver DEF NextSafe, L2Block
<1>7. Continuous(next, l1) /\ Continuous(epoch.safe, l1)
  <2>1. Continuous(next \o Tail(epoch.todo), l1)
    BY <1>3, <1>6, Zenon
  <2>2. Continuous(next, l1)
    BY <1>5, <2>1, ConcatContinuous
  <2>3. Continuous(epoch.safe, l1)
    BY <1>2, <1>3, ConcatContinuous
  <2> QED  BY <2>2, <2>3
<1>8. ASSUME NEW outcomes, NEW reorg \in BOOLEAN, EngineStep(outcomes, reorg),
             \A s \in outcomes : s.eng.head \in {epoch.head, epoch.safe, next, eng.head}
      PROVE  OriginsInv'
  <2>1. PICK s \in outcomes : /\ Leave(s)
                              /\ (BlockInserted(reorg) /\ UNCHANGED refVars) \/ GiveUpEpoch
    BY <1>8 DEF EngineStep
  <2>2. Continuous(eng'.head, l1)
    BY <1>3, <1>7, <1>8, <2>1 DEF Leave
  <2>3. CASE GiveUpEpoch
    BY <1>1, <2>2, <2>3, GiveUpEpochOrigins
  <2>4. CASE BlockInserted(reorg) /\ UNCHANGED refVars
    <3>1. /\ epoch'.head \in {next, epoch.head} /\ epoch'.safe = next
          /\ epoch'.todo = Tail(epoch.todo)
      BY <1>2, <1>4, <2>4 DEF BlockInserted
    <3>2. Continuous(epoch'.head, l1)
      BY <1>3, <1>7, <3>1
    <3>3. Continuous(epoch'.safe \o epoch'.todo, l1)
      BY <1>3, <1>6, <3>1, Zenon
    <3>4. EpochContinuous'
      BY <1>1, <3>2, <3>3 DEF EpochContinuous
    <3> QED  BY <1>1, <2>2, <2>4, <3>4 DEF OriginsInv, HeadsContinuous, refVars
  <2> QED  BY <2>1, <2>3, <2>4
<1>9. CASE GiveUpEpoch /\ eng' = eng
  BY <1>1, <1>3, <1>9, GiveUpEpochOrigins
<1>10. CASE EngineStep(ForkchoiceUpdate(EngineNow, epoch.head, next), FALSE)
  <2>1. \A s \in ForkchoiceUpdate(EngineNow, epoch.head, next) : s.eng.head \in {epoch.head, eng.head}
    BY <1>2, <1>5, EngineHeads
  <2> QED  BY <1>8, <1>10, <2>1, Zenon
<1>11. ASSUME NEW head \in {epoch.head, epoch.safe}, NEW reorg \in BOOLEAN,
              EngineStep(InsertHeadBlock(EngineNow, head, epoch.safe, next, TRUE), reorg)
       PROVE  OriginsInv'
  <2>1. \A s \in InsertHeadBlock(EngineNow, head, epoch.safe, next, TRUE) :
          s.eng.head \in {head, next, eng.head}
    BY <1>2, <1>5, EngineHeads, Zenon
  <2> QED  BY <1>8, <1>11, <2>1, Zenon
<1>12. \/ GiveUpEpoch /\ eng' = eng
       \/ EngineStep(ForkchoiceUpdate(EngineNow, epoch.head, next), FALSE)
       \/ EngineStep(InsertHeadBlock(EngineNow, epoch.safe, epoch.safe, next, TRUE), TRUE)
       \/ EngineStep(InsertHeadBlock(EngineNow, epoch.head, epoch.safe, next, TRUE), FALSE)
  BY <1>4, Zenon DEF InsertEpochBlock, VerifySafeBlock, InsertSafeBlock, QueryFails
<1> QED  BY <1>9, <1>10, <1>11, <1>12, Zenon

(* The end of an epoch. *)
LEMMA EpochDoneOrigins ==
  ASSUME Inv, OriginsInv, EpochDone
  PROVE  OriginsInv'
<1>1. /\ epoch.busy /\ epoch.todo = <<>> /\ l2Head' = epoch.head /\ l2SafeHead' = epoch.safe
      /\ l1WindowBuf' = Tail(l1WindowBuf) /\ epoch' = Idle /\ UNCHANGED <<l1, l1Heads, eng>>
  BY DEF EpochDone, l1Vars
<1>2. /\ epoch.safe \in L2Block /\ epoch.todo \in L2Block
      /\ Continuous(epoch.head, l1) /\ Continuous(epoch.safe \o epoch.todo, l1)
  BY DEF Inv, TypeOK, OriginsInv, EpochContinuous
<1>3. HeadsContinuous'
  <2>1. Continuous(epoch.safe, l1)
    BY <1>2, ConcatContinuous
  <2> QED  BY <1>1, <1>2, <2>1 DEF HeadsContinuous
<1>4. EpochContinuous'
  <2>1. Idle.head = Genesis /\ Idle.safe = <<>> /\ Idle.todo = <<>>
    BY DEF Idle, Genesis
  <2> QED  BY <1>1, <2>1, ContinuousGenesis DEF EpochContinuous
<1>5. Tail(l1WindowBuf) \in Seq(OnL1(l1))
  <2>1. PICK S : S = OnL1(l1)
    OBVIOUS
  <2>2. l1WindowBuf \in Seq(S)
    BY <2>1 DEF OriginsInv
  <2>3. l1WindowBuf # <<>>
    <3>1. Len(l1WindowBuf) >= SeqWindowSize
      BY <1>1 DEF Inv, EpochInProgress
    <3>2. Len(l1WindowBuf) # 0
      BY <3>1, SeqWindowSizeAssumption
    <3> QED  BY <3>2, EmptySeq
  <2> QED  BY <2>1, <2>2, <2>3, HeadTailProperties
<1> QED  BY <1>1, <1>3, <1>4, <1>5 DEF OriginsInv

-----------------------------------------------------------------------------
(* All steps but an L1 reorg. *)
LEMMA OriginsStep ==
  ASSUME Inv, OriginsInv, Never({"reorgs"}), [Next]_vars, ~ L1Reorg
  PROVE  OriginsInv'
BY EnvironmentOrigins, HandleNewL1BlockOrigins, HandleBlockRequestOrigins,
   HandleUnsafeL2PayloadOrigins, HandleStepRequestOrigins, InsertEpochBlockOrigins,
   EpochDoneOrigins, RestartOrigins
DEF Next, Loop

(* The beginning. *)
LEMMA OriginsInit ==
  ASSUME Init
  PROVE  OriginsInv
<1>1. /\ l2Head = Genesis /\ l2SafeHead = Genesis /\ eng.head = Genesis
      /\ l1Heads = <<>> /\ l1WindowBuf = <<>>
  BY DEF Init
<1>2. epoch.head = Genesis /\ epoch.safe = <<>> /\ epoch.todo = <<>>
  BY DEF Init, Idle, Genesis
<1>3. <<>> \in Seq(OnL1(l1))
  BY EmptySeq
<1> QED  BY <1>1, <1>2, <1>3, ContinuousGenesis DEF OriginsInv, HeadsContinuous, EpochContinuous

-----------------------------------------------------------------------------
(***************************************************************************)
(* Reorgs are counted for good: a state that an engine call passes on, in  *)
(* which there have been r of them.                                        *)
(***************************************************************************)
Counts(s, r) ==
  DOMAIN s = {"eng", "ok", "used"} /\ s.used \in [Mishaps -> Nat] /\ s.used["reorgs"] = r

(* Another mishap is not a reorg. *)
LEMMA OtherMishap ==
  ASSUME NEW c \in [Mishaps -> Nat], NEW m \in Mishaps \ {"reorgs"}
  PROVE  OneMore(c, m) \in [Mishaps -> Nat] /\ OneMore(c, m)["reorgs"] = c["reorgs"]
BY DEF OneMore, Mishaps

(* A call to the engine counts no reorg, *)
LEMMA ForkchoiceCounts ==
  ASSUME NEW r, NEW s, Counts(s, r), NEW head, NEW safe, NEW t \in ForkchoiceUpdate(s, head, safe)
  PROVE  Counts(t, r)
<1> DEFINE heads == IF IsAncestor(head, s.eng.head) THEN {head, s.eng.head} ELSE {head}
           applied == {[s EXCEPT !.eng = [head |-> h, safe |-> safe]] :
                         h \in {g \in heads : IsAncestor(safe, g)}}
           refused == {[s EXCEPT !.eng.head = h, !.ok = FALSE] :
                         h \in {g \in heads \cup {s.eng.head} : ~ IsAncestor(safe, head)}}
           more == OneMore(s.used, "faults")
           Faulty(u) == [u EXCEPT !.ok = FALSE, !.used = more]
<1>1. ASSUME NEW u \in applied  PROVE Counts(u, r)
  <2>1. PICK h : u = [s EXCEPT !.eng = [head |-> h, safe |-> safe]]
    BY Zenon
  <2> QED  BY <2>1 DEF Counts
<1>2. ASSUME NEW u \in refused  PROVE Counts(u, r)
  <2>1. PICK h : u = [s EXCEPT !.eng.head = h, !.ok = FALSE]
    BY Zenon
  <2> QED  BY <2>1 DEF Counts
<1> HIDE DEF applied, refused
<1>3. ASSUME NEW u \in {s} \cup applied \cup refused  PROVE Counts(Faulty(u), r)
  <2>1. Counts(u, r)
    BY <1>1, <1>2, Zenon
  <2>2. more \in [Mishaps -> Nat] /\ more["reorgs"] = r
    BY OtherMishap DEF Counts, Mishaps
  <2> HIDE DEF more
  <2> QED  BY <2>1, <2>2 DEF Counts
<1>4. t \in applied \cup refused
            \cup {u \in {Faulty(v) : v \in {s} \cup applied \cup refused} : u.used \in Allowed}
  BY Zenon DEF ForkchoiceUpdate, applied, refused
<1> QED  BY <1>1, <1>2, <1>3, <1>4, Zenon

(* nor do the calls of insertHeadBlock. *)
LEMMA InsertHeadBlockCounts ==
  ASSUME NEW r, NEW s, Counts(s, r), NEW fcHead, NEW fcSafe, NEW block, NEW updateSafe,
         NEW t \in InsertHeadBlock(s, fcHead, fcSafe, block, updateSafe)
  PROVE  Counts(t, r)
<1>1. PICK u \in ForkchoiceUpdate(s, fcHead, fcSafe) :
        t \in IF u.ok THEN ForkchoiceUpdate(u, block, IF updateSafe THEN block ELSE fcSafe)
              ELSE {u}
  BY Zenon DEF InsertHeadBlock
<1>2. Counts(u, r)
  BY ForkchoiceCounts, Zenon
<1> QED  BY <1>1, <1>2, ForkchoiceCounts, Zenon

(* So no step but a reorg counts one. *)
LEMMA ReorgsKept ==
  ASSUME TypeOK, [Next]_vars, ~ L1Reorg
  PROVE  used'["reorgs"] = used["reorgs"]
<1>1. used \in [Mishaps -> Nat]
  BY DEF TypeOK
<1>2. ASSUME NEW m \in Mishaps \ {"reorgs"}, Happens(m)
      PROVE  used'["reorgs"] = used["reorgs"]
  BY <1>1, <1>2, OtherMishap, Zenon DEF Happens
<1>3. QueryFails => used'["reorgs"] = used["reorgs"]
  BY <1>2, Zenon DEF QueryFails, Mishaps
<1>4. Counts(EngineNow, used["reorgs"])
  BY <1>1 DEF Counts, EngineNow
<1>5. ASSUME NEW m \in Mishaps \ {"reorgs"}  PROVE Counts(After(m), used["reorgs"])
  <2>1. PICK c, s : c = OneMore(used, m) /\ s = EngineNow
    OBVIOUS
  <2>2. c \in [Mishaps -> Nat] /\ c["reorgs"] = used["reorgs"]
    BY <1>1, <2>1, OtherMishap, Zenon
  <2>3. Counts(s, used["reorgs"]) /\ After(m) = [s EXCEPT !.used = c]
    BY <1>4, <2>1, Zenon DEF After
  <2> QED  BY <2>2, <2>3 DEF Counts
<1>6. ASSUME NEW s, Counts(s, used["reorgs"]), Leave(s)
      PROVE  used'["reorgs"] = used["reorgs"]
  BY <1>6, Zenon DEF Counts, Leave
<1>7. CASE UNCHANGED used
  BY <1>7, Zenon
<1>8. CASE L1HeadLost \/ L1HeadOvertakes \/ Tick \/ Restart
  BY <1>2, <1>8, Zenon DEF L1HeadLost, L1HeadOvertakes, Tick, Restart, Mishaps
<1>9. CASE HandleNewL1Block
  <2>1. ASSUME NEW new, L1HeadJump(new)  PROVE used'["reorgs"] = used["reorgs"]
    <3>1. CASE \E s \in ForkchoiceUpdate(EngineNow, UnsafeHead(l2Head, l1), SafeHead(l2Head, l1)) :
                 Leave(s)
      BY <1>4, <1>6, <3>1, ForkchoiceCounts, Zenon
    <3> QED  BY <1>3, <1>7, <2>1, <3>1, Zenon DEF L1HeadJump
  <2> QED  BY <1>7, <1>9, <2>1, Zenon DEF HandleNewL1Block, SameHead, LinearExtension
<1>10. CASE HandleBlockRequest
  <2>1. ASSUME NEW origin, NEW s, Counts(s, used["reorgs"]), CreateNewL2Block(origin, s)
        PROVE  used'["reorgs"] = used["reorgs"]
    <3>1. ASSUME NEW block, NEW t \in InsertHeadBlock(s, l2Head, l2SafeHead, block, FALSE), Leave(t)
          PROVE  used'["reorgs"] = used["reorgs"]
      BY <1>6, <2>1, <3>1, InsertHeadBlockCounts, Zenon
    <3> QED  BY <1>6, <2>1, <3>1, Zenon DEF CreateNewL2Block
  <2> QED  BY <1>3, <1>4, <1>5, <1>10, <2>1, Zenon DEF HandleBlockRequest, Mishaps
<1>11. CASE HandleUnsafeL2Payload
  <2>1. PICK payload : ProcessBlock(payload)
    BY <1>11, Zenon DEF HandleUnsafeL2Payload
  <2>2. PICK s \in ForkchoiceUpdate(After("payloads"), payload, l2SafeHead) : Leave(s)
    BY <2>1, Zenon DEF ProcessBlock
  <2>3. Counts(After("payloads"), used["reorgs"])
    BY <1>5, Zenon DEF Mishaps
  <2> QED  BY <1>6, <2>2, <2>3, ForkchoiceCounts, Zenon
<1>12. CASE HandleStepRequest
  BY <1>3, <1>7, <1>12, Zenon
     DEF HandleStepRequest, WindowNotExtended, WindowAvailable, WindowTooShort, InsertEpoch,
         InsertEpochRefused
<1>13. CASE InsertEpochBlock
  <2>1. ASSUME NEW outcomes, NEW reorg, EngineStep(outcomes, reorg),
               \A s \in outcomes : Counts(s, used["reorgs"])
        PROVE  used'["reorgs"] = used["reorgs"]
    BY <1>6, <2>1, Zenon DEF EngineStep
  <2>2. ASSUME NEW head, NEW safe
        PROVE  \A s \in ForkchoiceUpdate(EngineNow, head, safe) : Counts(s, used["reorgs"])
    BY <1>4, ForkchoiceCounts, Zenon
  <2>3. ASSUME NEW head, NEW safe, NEW block
        PROVE  \A s \in InsertHeadBlock(EngineNow, head, safe, block, TRUE) : Counts(s, used["reorgs"])
    BY <1>4, InsertHeadBlockCounts, Zenon
  <2>4. VerifySafeBlock => used'["reorgs"] = used["reorgs"]
    BY <1>3, <1>7, <2>1, <2>2, <2>3, Zenon DEF VerifySafeBlock
  <2>5. InsertSafeBlock => used'["reorgs"] = used["reorgs"]
    BY <2>1, <2>3, Zenon DEF InsertSafeBlock
  <2> QED  BY <1>13, <2>4, <2>5, Zenon DEF InsertEpochBlock
<1>14. CASE L1Extend \/ EpochDone \/ UNCHANGED vars
  BY <1>7, <1>14, Zenon DEF L1Extend, EpochDone, vars
<1> QED
  BY <1>8, <1>9, <1>10, <1>11, <1>12, <1>13, <1>14, Zenon DEF Next, Loop

(***************************************************************************)
(* While L1 does not re-org, every block of the unsafe chain has its       *)
(* parent's L1 origin or a child of it: whether the sequencer built the    *)
(* block, a peer sent it or the driver derived it, and through lost and    *)
(* reordered head signals, engine failures and restarts.                   *)
(***************************************************************************)
THEOREM DriverOriginsContinuous == Spec => []OriginsContinuous
<1> DEFINE I == Never({"reorgs"}) => OriginsInv
<1>1. Init => I
  BY OriginsInit
<1>2. ASSUME Inv, I, [Next]_vars
      PROVE  I'
  <2>1. CASE L1Reorg
    <3>1. ~ Never({"reorgs"})'
      BY <1>2, <2>1, MishapCounted DEF Inv, L1Reorg, Mishaps
    <3> QED  BY <3>1
  <2>2. CASE ~ L1Reorg
    <3>1. used'["reorgs"] = used["reorgs"]
      BY <1>2, <2>2, ReorgsKept DEF Inv
    <3>2. Never({"reorgs"})' => Never({"reorgs"})
      BY <3>1, Zenon DEF Never
    <3> QED  BY <1>2, <2>2, <3>2, OriginsStep
  <2> QED  BY <2>1, <2>2
<1>3. Inv /\ I => OriginsContinuous
  <2> SUFFICES ASSUME Inv, OriginsInv  PROVE OriginsContinuous
    BY DEF OriginsContinuous
  <2>1. l2Head \in L2Block /\ Continuous(l2Head, l1) /\ Len(l2Head) \in Nat
    BY LenProperties DEF Inv, TypeOK, OriginsInv, HeadsContinuous, L2Block
  <2>2. ASSUME NEW n \in 1 .. Len(l2Head)
        PROVE  \/ OriginAt(l2Head, n) = OriginAt(l2Head, n - 1)
               \/ Parent(OriginAt(l2Head, n)) = OriginAt(l2Head, n - 1)
    <3>1. OriginAt(l2Head, n) = l2Head[n].origin
      BY <2>1, OriginByNumber
    <3>2. OriginAt(l2Head, n - 1) = OriginBefore(l2Head, n)
      <4>1. CASE n = 1
        BY <2>1, <4>1, OriginByNumber DEF OriginBefore
      <4>2. CASE n # 1
        <5>1. n - 1 \in 1 .. Len(l2Head)
          BY <2>1, <4>2
        <5> QED  BY <2>1, <4>2, <5>1, OriginByNumber DEF OriginBefore
      <4> QED  BY <4>1, <4>2
    <3> QED  BY <2>1, <3>1, <3>2 DEF Continuous
  <2> QED  BY <2>2 DEF OriginsContinuous, Number
<1>4. Inv /\ I /\ [Next]_vars => I'
  BY <1>2
<1> QED  BY <1>1, <1>3, <1>4, DriverInvariant, PTL DEF Spec
=============================================================================
