---------------------------- MODULE DriverProofs ------------------------------
(***************************************************************************)
(* Invariants of the driver, for all values of the constants: any window   *)
(* size and block times, any batches, and any number of reorgs, lost or    *)
(* reordered signals, engine failures and restarts; and that a driver      *)
(* which is never restarted implements the abstract safe chain.            *)
(***************************************************************************)
EXTENDS DriverRefinement, DriverOperatorProofs

(***************************************************************************)
(* The inductive invariant.  The two safety properties are not inductive   *)
(* by themselves: EpochDone gives the safe head and the window the values  *)
(* that a running insertEpoch has left in its local variables.             *)
(***************************************************************************)
Inv == TypeOK /\ WindowContiguous /\ SafeBehindUnsafe /\ EpochInProgress

EngineState == [eng : [head : L2Block, safe : L2Block], ok : BOOLEAN,
                used : [Mishaps -> Nat]]

(* Taking a message out of a queue leaves a queue. *)
LEMMA RemoveAtType ==
  ASSUME NEW S, NEW q \in Seq(S), NEW i \in DOMAIN q
  PROVE  RemoveAt(q, i) \in Seq(S)
<1>1. i \in 1 .. Len(q) /\ Len(q) \in Nat
  BY LenProperties
<1>2. \A j \in 1 .. Len(q) : q[j] \in S
  BY ElementOfSeq
<1>3. SubSeq(q, 1, i - 1) \in Seq(S)
  <2>1. \A j \in 1 .. i - 1 : q[j] \in S
    BY <1>1, <1>2
  <2>2. 1 \in Int /\ i - 1 \in Int
    BY <1>1
  <2> QED  BY <2>1, <2>2, SubSeqProperties
<1>4. SubSeq(q, i + 1, Len(q)) \in Seq(S)
  <2>1. \A j \in i + 1 .. Len(q) : q[j] \in S
    BY <1>1, <1>2
  <2>2. i + 1 \in Int /\ Len(q) \in Int
    BY <1>1
  <2> QED  BY <2>1, <2>2, SubSeqProperties
<1> QED  BY <1>3, <1>4, ConcatProperties DEF RemoveAt

(* The engine's state at the beginning of a handler is an engine state. *)
LEMMA EngineNowType ==
  ASSUME TypeOK
  PROVE  EngineNow \in EngineState
BY DEF TypeOK, EngineNow, EngineState

(* One more mishap still is a count of mishaps. *)
LEMMA OneMoreType ==
  ASSUME NEW count \in [Mishaps -> Nat], NEW m \in Mishaps
  PROVE  OneMore(count, m) \in [Mishaps -> Nat]
BY DEF OneMore

(* So the state after a query that failed, or a block that came, has its type. *)
LEMMA AfterType ==
  ASSUME TypeOK, NEW m \in Mishaps
  PROVE  After(m) \in EngineState /\ After(m).eng = eng
<1>1. OneMore(used, m) \in [Mishaps -> Nat]
  BY OneMoreType DEF TypeOK
<1> QED  BY <1>1, Zenon DEF TypeOK, After, EngineNow, EngineState

(***************************************************************************)
(* A forkchoice update leaves an engine state behind, and it succeeds only *)
(* when its safe block is an ancestor of its head or of the engine's.      *)
(***************************************************************************)
LEMMA ForkchoiceUpdateType ==
  ASSUME NEW s \in EngineState, NEW head \in L2Block, NEW safe \in L2Block,
         NEW t \in ForkchoiceUpdate(s, head, safe)
  PROVE  /\ t \in EngineState
         /\ t.ok => \/ IsAncestor(safe, head)
                    \/ IsAncestor(head, s.eng.head) /\ IsAncestor(safe, s.eng.head)
<1> DEFINE heads == IF IsAncestor(head, s.eng.head) THEN {head, s.eng.head} ELSE {head}
           applied == {[s EXCEPT !.eng = [head |-> h, safe |-> safe]] :
                         h \in {g \in heads : IsAncestor(safe, g)}}
           refused == {[s EXCEPT !.eng.head = h, !.ok = FALSE] :
                         h \in {g \in heads \cup {s.eng.head} : ~ IsAncestor(safe, head)}}
           more == OneMore(s.used, "faults")
           Faulty(u) == [u EXCEPT !.ok = FALSE, !.used = more]
<1>1. heads \subseteq L2Block /\ s.eng.head \in L2Block
  BY DEF EngineState
<1>2. ASSUME NEW u \in applied
      PROVE  /\ u \in EngineState
             /\ \/ IsAncestor(safe, head)
                \/ IsAncestor(head, s.eng.head) /\ IsAncestor(safe, s.eng.head)
  <2>1. PICK h \in heads : IsAncestor(safe, h) /\ u = [s EXCEPT !.eng = [head |-> h, safe |-> safe]]
    OBVIOUS
  <2>2. u \in EngineState
    BY <1>1, <2>1 DEF EngineState
  <2> QED  BY <2>1, <2>2
<1>3. ASSUME NEW u \in refused
      PROVE  u \in EngineState /\ u.ok = FALSE
  <2>1. PICK h \in heads \cup {s.eng.head} : u = [s EXCEPT !.eng.head = h, !.ok = FALSE]
    BY Zenon
  <2>2. h \in L2Block
    BY <1>1, Zenon
  <2> HIDE DEF heads
  <2> QED  BY <2>1, <2>2, Zenon DEF EngineState
<1> HIDE DEF applied, refused
<1>4. ASSUME NEW u \in {s} \cup applied \cup refused
      PROVE  Faulty(u) \in EngineState /\ Faulty(u).ok = FALSE
  <2>1. u \in EngineState
    BY <1>2, <1>3, Zenon
  <2>2. more \in [Mishaps -> Nat]
    BY OneMoreType DEF EngineState, Mishaps
  <2> HIDE DEF more
  <2> QED  BY <2>1, <2>2, Zenon DEF EngineState
<1>5. t \in applied \cup refused
            \cup {u \in {Faulty(v) : v \in {s} \cup applied \cup refused} : u.used \in Allowed}
  BY Zenon DEF ForkchoiceUpdate, applied, refused
<1> QED  BY <1>2, <1>3, <1>4, <1>5, Zenon

(* So does insertHeadBlock, which makes two of them. *)
LEMMA InsertHeadBlockType ==
  ASSUME NEW s \in EngineState, NEW fcHead \in L2Block, NEW fcSafe \in L2Block,
         NEW block \in L2Block, NEW updateSafe \in BOOLEAN,
         NEW t \in InsertHeadBlock(s, fcHead, fcSafe, block, updateSafe)
  PROVE  t \in EngineState
<1>1. PICK u \in ForkchoiceUpdate(s, fcHead, fcSafe) :
        t \in IF u.ok THEN ForkchoiceUpdate(u, block, IF updateSafe THEN block ELSE fcSafe)
              ELSE {u}
  BY DEF InsertHeadBlock
<1>2. u \in EngineState
  BY ForkchoiceUpdateType
<1>3. (IF updateSafe THEN block ELSE fcSafe) \in L2Block
  OBVIOUS
<1> QED  BY <1>1, <1>2, <1>3, ForkchoiceUpdateType

(* Storing an engine state in the variables respects their types. *)
LEMMA LeaveType ==
  ASSUME TypeOK, NEW s \in EngineState, Leave(s)
  PROVE  eng' \in [head : L2Block, safe : L2Block] /\ used' \in [Mishaps -> Nat]
BY DEF Leave, EngineState

(* So does counting one more mishap. *)
LEMMA HappensType ==
  ASSUME TypeOK, NEW m \in Mishaps, Happens(m)
  PROVE  used' \in [Mishaps -> Nat]
BY OneMoreType DEF TypeOK, Happens

(* So does a failed query. *)
LEMMA QueryFailsType ==
  ASSUME TypeOK, QueryFails
  PROVE  eng' \in [head : L2Block, safe : L2Block] /\ used' \in [Mishaps -> Nat]
BY HappensType DEF TypeOK, QueryFails, Mishaps

(* The types of a new L2 block and of its origin. *)
LEMMA NewBlockType ==
  ASSUME NEW b \in L2Block, NEW origin \in L1Block, NEW txs \in Txs
  PROVE  /\ Append(b, [origin |-> origin, txs |-> txs]) \in L2Block
         /\ L1Origin(Append(b, [origin |-> origin, txs |-> txs])) = origin
<1> DEFINE e == [origin |-> origin, txs |-> txs]
<1>1. e \in [origin : L1Block, txs : Txs] /\ e.origin = origin
  OBVIOUS
<1> HIDE DEF e
<1>2. Append(b, e) \in L2Block
  BY <1>1, AppendProperties DEF L2Block
<1>3. L1Origin(Append(b, e)) = origin
  BY <1>1, OriginOfAppend, Zenon DEF L2Block
<1> QED  BY <1>2, <1>3 DEF e

(* An L2 block's origin is an L1 block. *)
LEMMA L2OriginType ==
  ASSUME NEW b \in L2Block
  PROVE  L1Origin(b) \in L1Block
BY OriginType, Zenon DEF L2Block, L1Block

(* The genesis blocks are blocks of both chains. *)
LEMMA GenesisType == Genesis \in L1Block /\ Genesis \in L2Block /\ <<>> \in Seq(L1Block)
BY EmptySeq DEF Genesis, L1Block, L2Block

(* So are the local variables of insertEpoch while it does not run. *)
LEMMA IdleType ==
  /\ Idle \in [busy : BOOLEAN, todo : L2Block, head : L2Block, safe : L2Block, reorg : BOOLEAN]
  /\ Idle.busy = FALSE
BY GenesisType, EmptySeq DEF Idle, L2Block

(* An empty buffer is contiguous with anything. *)
LEMMA ChainedEmpty ==
  ASSUME NEW base
  PROVE  Chained(base, <<>>)
BY DEF Chained

-----------------------------------------------------------------------------
(* Init establishes the invariant. *)
LEMMA InitInv == Init => Inv
<1> SUFFICES ASSUME Init PROVE Inv
  OBVIOUS
<1>1. TypeOK
  BY GenesisType, IdleType, Zenon DEF Init, TypeOK
<1>2. WindowContiguous
  BY ChainedEmpty DEF Init, WindowContiguous
<1>3. SafeBehindUnsafe
  BY GenesisType, AncestorReflexive DEF Init, SafeBehindUnsafe, L2Block
<1>4. EpochInProgress
  BY IdleType DEF Init, EpochInProgress
<1> QED  BY <1>1, <1>2, <1>3, <1>4 DEF Inv

(* A step that leaves the driver's own state alone keeps all but the types. *)
LEMMA UnchangedInv ==
  ASSUME Inv, UNCHANGED <<refVars, epoch>>, TypeOK'
  PROVE  Inv'
BY DEF Inv, refVars, WindowContiguous, SafeBehindUnsafe, EpochInProgress

(* L1 and its signals, and the ticker. *)
LEMMA EnvironmentInv ==
  ASSUME Inv, L1Extend \/ L1Reorg \/ L1HeadLost \/ L1HeadOvertakes \/ Tick
  PROVE  Inv'
<1> USE DEF Inv
<1>1. ASSUME NEW b \in L1Block, Announce(b)
      PROVE  l1' \in L1Block /\ l1Heads' \in Seq(L1Block)
  BY <1>1, AppendProperties DEF Announce, TypeOK
<1>2. CASE L1Extend
  <2>1. PICK p \in Payload : Announce(Append(l1, p))
    BY <1>2 DEF L1Extend
  <2>2. Append(l1, p) \in L1Block
    BY AppendProperties DEF TypeOK, L1Block
  <2>3. TypeOK'
    BY <1>1, <1>2, <2>1, <2>2 DEF L1Extend, TypeOK, refVars, reqVars
  <2> QED  BY <1>2, <2>3, UnchangedInv DEF L1Extend
<1>3. CASE L1Reorg
  <2>1. PICK n \in 0 .. Len(l1) - 1, p \in Payload : Announce(Append(Ancestor(l1, n), p))
    BY <1>3 DEF L1Reorg
  <2>2. n \in 0 .. Len(l1) /\ l1 \in Seq(Payload)
    BY LenProperties DEF TypeOK, L1Block
  <2>3. Append(Ancestor(l1, n), p) \in L1Block
    BY <2>2, AncestorType, AppendProperties DEF L1Block
  <2>4. used' \in [Mishaps -> Nat]
    BY <1>3, HappensType DEF L1Reorg, Mishaps
  <2>5. TypeOK'
    BY <1>1, <1>3, <2>1, <2>3, <2>4 DEF L1Reorg, TypeOK, refVars, reqVars
  <2> QED  BY <1>3, <2>5, UnchangedInv DEF L1Reorg
<1>4. CASE L1HeadLost
  <2>1. l1Heads' \in Seq(L1Block)
    BY <1>4, RemoveAtType DEF L1HeadLost, TypeOK
  <2>2. used' \in [Mishaps -> Nat]
    BY <1>4, HappensType DEF L1HeadLost, Mishaps
  <2>3. TypeOK'
    BY <1>4, <2>1, <2>2 DEF L1HeadLost, TypeOK, refVars, reqVars
  <2> QED  BY <1>4, <2>3, UnchangedInv DEF L1HeadLost
<1>5. CASE Tick
  <2>1. used' \in [Mishaps -> Nat]
    BY <1>5, HappensType DEF Tick, Mishaps
  <2>2. TypeOK'
    BY <1>5, <2>1 DEF Tick, TypeOK, refVars, l1Vars
  <2> QED  BY <1>5, <2>2, UnchangedInv DEF Tick
<1>6. CASE L1HeadOvertakes
  <2>1. l1Heads' \in Seq(L1Block)
    <3>1. PICK i \in DOMAIN l1Heads : l1Heads' = <<l1Heads[i]>> \o RemoveAt(l1Heads, i)
      BY <1>6 DEF L1HeadOvertakes
    <3>2. RemoveAt(l1Heads, i) \in Seq(L1Block) /\ l1Heads[i] \in L1Block
      BY RemoveAtType, ElementOfSeq, LenProperties DEF TypeOK
    <3>3. <<l1Heads[i]>> \in Seq(L1Block)
      BY <3>2
    <3> QED  BY <3>1, <3>2, <3>3, ConcatProperties
  <2>2. used' \in [Mishaps -> Nat]
    BY <1>6, HappensType DEF L1HeadOvertakes, Mishaps
  <2>3. TypeOK'
    BY <1>6, <2>1, <2>2 DEF L1HeadOvertakes, TypeOK, refVars, reqVars
  <2> QED  BY <1>6, <2>3, UnchangedInv DEF L1HeadOvertakes
<1> QED  BY <1>2, <1>3, <1>4, <1>5, <1>6

(* A new L1 head that extends the last one by one block. *)
LEMMA LinearExtensionInv ==
  ASSUME Inv, ~ epoch.busy, NEW new \in L1Block, LinearExtension(new), UNCHANGED epoch
  PROVE  /\ l1Head' \in L1Block /\ l1WindowBuf' \in Seq(L1Block)
         /\ WindowContiguous' /\ SafeBehindUnsafe' /\ EpochInProgress'
<1>1. l1WindowBuf \in Seq(L1Block) /\ Chained(L1Origin(l2SafeHead), l1WindowBuf)
  BY DEF Inv, TypeOK, WindowContiguous
<1>2. /\ l1WindowBuf' \in Seq(L1Block)
      /\ Chained(L1Origin(l2SafeHead), l1WindowBuf')
  <2>1. CASE l1WindowBufEnd(l1WindowBuf) = Parent(new)
    <3>1. Parent(new) = IF l1WindowBuf = <<>> THEN L1Origin(l2SafeHead) ELSE Last(l1WindowBuf)
      BY <2>1 DEF l1WindowBufEnd
    <3>2. new # Genesis /\ l1WindowBuf' = Append(l1WindowBuf, new)
      BY <2>1 DEF LinearExtension
    <3>3. Append(l1WindowBuf, new) \in Seq(L1Block)
      BY <1>1, AppendProperties
    <3>4. Chained(L1Origin(l2SafeHead), Append(l1WindowBuf, new))
      BY <1>1, <3>1, <3>2, ChainedAppend
    <3> QED  BY <3>2, <3>3, <3>4
  <2>2. CASE l1WindowBufEnd(l1WindowBuf) # Parent(new)
    BY <1>1, <2>2 DEF LinearExtension
  <2> QED  BY <2>1, <2>2
<1>3. l1Head' = new /\ l2Head' = l2Head /\ l2SafeHead' = l2SafeHead /\ ~ epoch'.busy
  BY DEF LinearExtension
<1>4. WindowContiguous'
  BY <1>2, <1>3 DEF WindowContiguous
<1> QED  BY <1>2, <1>3, <1>4 DEF Inv, SafeBehindUnsafe, EpochInProgress

(***************************************************************************)
(* Heads found again after a jump or a reorg.  The safe head is left alone *)
(* when the search wants it higher: it is then below the new unsafe head.  *)
(***************************************************************************)
LEMMA ResetHeadsInv ==
  ASSUME Inv, ~ epoch.busy, NEW new \in L1Block, UNCHANGED epoch,
         ResetHeads(new, UnsafeHead(l2Head, l1), SafeHead(l2Head, l1))
  PROVE  /\ l1Head' \in L1Block /\ l1WindowBuf' \in Seq(L1Block)
         /\ l2Head' \in L2Block /\ l2SafeHead' \in L2Block
         /\ WindowContiguous' /\ SafeBehindUnsafe' /\ EpochInProgress'
<1> DEFINE unsafe == UnsafeHead(l2Head, l1)
           safe == SafeHead(l2Head, l1)
<1>1. l2Head \in L2Block /\ l2SafeHead \in L2Block /\ l1 \in L1Block
      /\ IsAncestor(l2SafeHead, l2Head)
  BY DEF Inv, TypeOK, SafeBehindUnsafe
<1>2. /\ unsafe \in L2Block /\ safe \in L2Block
      /\ IsAncestor(safe, unsafe) /\ IsAncestor(unsafe, l2Head)
  BY <1>1, FindL2HeadsOrdered, Zenon DEF L1Block, L2Block
<1> HIDE DEF unsafe, safe
<1>3. /\ l1Head' = new /\ l1WindowBuf' = <<>> /\ l2Head' = unsafe
      /\ l2SafeHead' = IF Number(l2SafeHead) >= Number(safe) THEN safe ELSE l2SafeHead
  BY DEF ResetHeads, unsafe, safe
<1>4. SafeBehindUnsafe'
  <2>1. CASE Number(l2SafeHead) >= Number(safe)
    BY <1>2, <1>3, <2>1 DEF SafeBehindUnsafe
  <2>2. CASE ~ (Number(l2SafeHead) >= Number(safe))
    <3>1. Len(l2SafeHead) <= Len(unsafe)
      <4>1. Len(l2SafeHead) \in Nat /\ Len(safe) \in Nat /\ Len(unsafe) \in Nat
        BY <1>1, <1>2, LenProperties DEF L2Block
      <4>2. Len(safe) <= Len(unsafe)
        BY <1>2 DEF IsAncestor
      <4> QED  BY <2>2, <4>1, <4>2 DEF Number
    <3>2. IsAncestor(l2SafeHead, unsafe)
      BY <1>1, <1>2, <3>1, AncestorsOfOne DEF L2Block
    <3> QED  BY <1>3, <2>2, <3>2 DEF SafeBehindUnsafe
  <2> QED  BY <2>1, <2>2
<1>5. WindowContiguous'
  BY <1>3, ChainedEmpty DEF WindowContiguous
<1>6. EpochInProgress'
  BY DEF EpochInProgress
<1>7. l2SafeHead' \in L2Block
  BY <1>1, <1>2, <1>3
<1> QED  BY <1>2, <1>3, <1>4, <1>5, <1>6, <1>7, GenesisType

(* The L1 head event of the loop. *)
LEMMA HandleNewL1BlockInv ==
  ASSUME Inv, HandleNewL1Block
  PROVE  Inv'
<1>1. TypeOK
  BY DEF Inv
<1> DEFINE new == Head(l1Heads)
<1>2. /\ l1Heads # <<>> /\ l1Heads' = Tail(l1Heads)
      /\ SameHead(new) \/ LinearExtension(new) \/ L1HeadJump(new)
  BY DEF HandleNewL1Block
<1>3. new \in L1Block
  BY <1>1, <1>2, HeadTailProperties DEF TypeOK
<1>4. l1Heads' \in Seq(L1Block)
  BY <1>1, <1>2, HeadTailProperties DEF TypeOK
<1>5. ~ epoch.busy /\ l1' = l1 /\ blockReq' = blockReq /\ epoch' = epoch
      /\ stepReq' = (stepReq \/ StepDue(l1Head', l2SafeHead'))
  BY DEF HandleNewL1Block, RequestStep
<1>6. stepReq' \in BOOLEAN
  BY <1>5
<1> HIDE DEF new
<1> DEFINE Rest == /\ l1Head' \in L1Block /\ l1WindowBuf' \in Seq(L1Block)
                   /\ l2Head' \in L2Block /\ l2SafeHead' \in L2Block
                   /\ eng' \in [head : L2Block, safe : L2Block]
                   /\ used' \in [Mishaps -> Nat]
                   /\ WindowContiguous' /\ SafeBehindUnsafe' /\ EpochInProgress'
<1>7. SUFFICES Rest
  BY <1>1, <1>4, <1>5, <1>6 DEF Inv, TypeOK
<1>8. ASSUME UNCHANGED refVars,
             eng' \in [head : L2Block, safe : L2Block], used' \in [Mishaps -> Nat]
      PROVE  Rest
  BY <1>1, <1>5, <1>8 DEF Inv, TypeOK, refVars, WindowContiguous, SafeBehindUnsafe,
                          EpochInProgress
<1>9. CASE SameHead(new)
  BY <1>1, <1>8, <1>9 DEF SameHead, TypeOK
<1>10. CASE LinearExtension(new)
  <2>1. l2Head' = l2Head /\ l2SafeHead' = l2SafeHead /\ eng' = eng /\ used' = used
    BY <1>10 DEF LinearExtension
  <2> QED  BY <1>1, <1>3, <1>5, <1>10, <2>1, LinearExtensionInv DEF TypeOK
<1>11. CASE L1HeadJump(new)
  <2>1. CASE QueryFails /\ UNCHANGED refVars
    BY <1>1, <1>8, <2>1, QueryFailsType
  <2>2. CASE UNCHANGED <<refVars, eng, used>>
    BY <1>1, <1>8, <2>2 DEF TypeOK
  <2>3. CASE \E s \in ForkchoiceUpdate(EngineNow, UnsafeHead(l2Head, l1), SafeHead(l2Head, l1)) :
               /\ Leave(s)
               /\ \/ s.ok /\ ResetHeads(new, UnsafeHead(l2Head, l1), SafeHead(l2Head, l1))
                  \/ ~ s.ok /\ UNCHANGED refVars
    <3>1. PICK s \in ForkchoiceUpdate(EngineNow, UnsafeHead(l2Head, l1), SafeHead(l2Head, l1)) :
               /\ Leave(s)
               /\ \/ s.ok /\ ResetHeads(new, UnsafeHead(l2Head, l1), SafeHead(l2Head, l1))
                  \/ ~ s.ok /\ UNCHANGED refVars
      BY <2>3
    <3>2. UnsafeHead(l2Head, l1) \in L2Block /\ SafeHead(l2Head, l1) \in L2Block
      BY <1>1, FindL2HeadsOrdered, Zenon DEF TypeOK, L1Block, L2Block
    <3>3. s \in EngineState
      BY <1>1, <3>2, EngineNowType, ForkchoiceUpdateType
    <3>4. eng' \in [head : L2Block, safe : L2Block] /\ used' \in [Mishaps -> Nat]
      BY <1>1, <3>1, <3>3, LeaveType
    <3>5. CASE ResetHeads(new, UnsafeHead(l2Head, l1), SafeHead(l2Head, l1))
      BY <1>3, <1>5, <3>4, <3>5, ResetHeadsInv
    <3>6. CASE UNCHANGED refVars
      BY <1>8, <3>4, <3>6
    <3> QED  BY <3>1, <3>5, <3>6
  <2> QED  BY <1>11, <2>1, <2>2, <2>3 DEF L1HeadJump
<1> QED  BY <1>2, <1>9, <1>10, <1>11 DEF new

-----------------------------------------------------------------------------
(* A canonical L1 block by number, when there is one, is an L1 block. *)
LEMMA L1BlockByNumberType ==
  ASSUME TypeOK, NEW n \in Nat, HasL1Block(l1, n)
  PROVE  L1BlockRefByNumber(l1, n) \in L1Block
<1>1. n \in 0 .. Len(l1) /\ l1 \in Seq(Payload)
  BY LenProperties DEF TypeOK, L1Block, HasL1Block
<1> QED  BY <1>1, AncestorType DEF L1BlockRefByNumber, L1Block

(* The number after that of an origin is a number. *)
LEMMA NextNumberType ==
  ASSUME NEW b \in L2Block
  PROVE  Number(L1Origin(b)) + 1 \in Nat
<1>1. L1Origin(b) \in Seq(Payload)
  BY L2OriginType DEF L1Block
<1> QED  BY <1>1, LenProperties DEF Number

(* The origin the sequencer picks is an L1 block. *)
LEMMA findL1OriginType ==
  ASSUME TypeOK
  PROVE  findL1Origin \in L1Block
<1>1. l2Head \in L2Block /\ l1Head \in L1Block /\ L1Origin(l2Head) \in L1Block
  BY L2OriginType DEF TypeOK
<1>2. HasL1Block(l1, Number(L1Origin(l2Head)) + 1) =>
        L1BlockRefByNumber(l1, Number(L1Origin(l2Head)) + 1) \in L1Block
  BY <1>1, NextNumberType, L1BlockByNumberType
<1> QED  BY <1>1, <1>2 DEF findL1Origin

(* Whether or not the engine takes the block, the unsafe head stays above the safe one. *)
LEMMA CreateNewL2BlockInv ==
  ASSUME Inv, NEW origin \in L1Block, NEW s \in EngineState, CreateNewL2Block(origin, s),
         UNCHANGED <<l2SafeHead, l1WindowBuf, epoch>>, ~ epoch.busy
  PROVE  /\ l2Head' \in L2Block
         /\ eng' \in [head : L2Block, safe : L2Block] /\ used' \in [Mishaps -> Nat]
         /\ SafeBehindUnsafe'
<1>1. /\ TypeOK /\ l2Head \in L2Block /\ l2SafeHead \in L2Block
      /\ IsAncestor(l2SafeHead, l2Head)
  BY DEF Inv, TypeOK, SafeBehindUnsafe
<1>2. CASE Leave(s) /\ UNCHANGED l2Head
  BY <1>1, <1>2, LeaveType DEF SafeBehindUnsafe
<1>3. CASE ~ (Leave(s) /\ UNCHANGED l2Head)
  <2>1. PICK txs \in IF NextL2Time >= L1Time(origin) + MaxSequencerDrift
                     THEN {NoTxs} ELSE Txs \ ForbiddenTxs :
          \E t \in InsertHeadBlock(s, l2Head, l2SafeHead,
                     Append(l2Head, [origin |-> origin, txs |-> txs]), FALSE) :
            /\ Leave(t)
            /\ l2Head' = IF t.ok THEN Append(l2Head, [origin |-> origin, txs |-> txs])
                         ELSE l2Head
    BY <1>3, Zenon DEF CreateNewL2Block
  <2> DEFINE e == [origin |-> origin, txs |-> txs]
             block == Append(l2Head, e)
  <2>2. txs \in Txs
    BY TxsAssumption
  <2>3. e \in [origin : L1Block, txs : Txs] /\ block \in L2Block
    BY <1>1, <2>2, NewBlockType
  <2>4. IsAncestor(l2SafeHead, block)
    BY <1>1, <2>3, AncestorOfAppend, Zenon DEF L2Block
  <2> HIDE DEF e, block
  <2>5. PICK t \in InsertHeadBlock(s, l2Head, l2SafeHead, block, FALSE) :
            Leave(t) /\ l2Head' = IF t.ok THEN block ELSE l2Head
    BY <2>1, Zenon DEF e, block
  <2>6. t \in EngineState
    BY <1>1, <2>3, InsertHeadBlockType, Zenon
  <2>7. eng' \in [head : L2Block, safe : L2Block] /\ used' \in [Mishaps -> Nat]
    BY <1>1, <2>5, <2>6, LeaveType
  <2> QED  BY <1>1, <2>3, <2>4, <2>5, <2>7 DEF SafeBehindUnsafe
<1> QED  BY <1>2, <1>3

(* The block building event of the loop. *)
LEMMA HandleBlockRequestInv ==
  ASSUME Inv, HandleBlockRequest
  PROVE  Inv'
<1>1. TypeOK /\ l2Head \in L2Block
  BY DEF Inv, TypeOK
<1>2. /\ ~ epoch.busy
      /\ UNCHANGED <<l1, l1Heads, l1Head, l2SafeHead, l1WindowBuf, stepReq, epoch>>
      /\ blockReq' = (Number(l1Head) > Number(L1Origin(l2Head')))
  BY DEF HandleBlockRequest, l1Vars
<1>3. /\ l2Head' \in L2Block
      /\ eng' \in [head : L2Block, safe : L2Block] /\ used' \in [Mishaps -> Nat]
      /\ SafeBehindUnsafe'
  <2>1. CASE CreateNewL2Block(findL1Origin, EngineNow)
    <3>1. findL1Origin \in L1Block /\ EngineNow \in EngineState
      BY <1>1, findL1OriginType, EngineNowType
    <3> QED  BY <1>2, <2>1, <3>1, CreateNewL2BlockInv
  <2>2. CASE CreateNewL2Block(L1Origin(l2Head), After("faults"))
    <3>1. After("faults") \in EngineState
      BY <1>1, AfterType DEF Mishaps
    <3>2. L1Origin(l2Head) \in L1Block
      BY <1>1, L2OriginType
    <3> QED  BY <1>2, <2>2, <3>1, <3>2, CreateNewL2BlockInv
  <2>3. CASE QueryFails /\ UNCHANGED l2Head
    BY <1>1, <1>2, <2>3, QueryFailsType DEF Inv, SafeBehindUnsafe
  <2> QED  BY <2>1, <2>2, <2>3 DEF HandleBlockRequest
<1>4. TypeOK'
  BY <1>1, <1>2, <1>3 DEF TypeOK
<1> QED  BY <1>2, <1>3, <1>4 DEF Inv, WindowContiguous, EpochInProgress

(* Every payload a peer may send is an L2 block. *)
LEMMA UnsafePayloadsType ==
  ASSUME TypeOK
  PROVE  UnsafePayloads \subseteq L2Block
<1> SUFFICES ASSUME NEW payload \in UnsafePayloads PROVE payload \in L2Block
  OBVIOUS
<1>1. PICK parent \in Prefixes(eng.head) \cup Prefixes(l2SafeHead) :
        payload \in Children(parent)
  BY DEF UnsafePayloads
<1>2. parent \in L2Block
  <2>1. ASSUME NEW b \in L2Block, parent \in Prefixes(b) PROVE parent \in L2Block
    <3>1. PICK n \in 0 .. Len(b) : parent = Ancestor(b, n)
      BY <2>1 DEF Prefixes, Ancestor
    <3> QED  BY <3>1, AncestorType DEF L2Block
  <2> QED  BY <2>1 DEF TypeOK
<1>3. PICK origin \in NextOrigins(parent), txs \in Txs \ ForbiddenTxs :
        payload = Append(parent, [origin |-> origin, txs |-> txs])
  BY <1>1 DEF Children
<1>4. origin \in L1Block
  <2>1. Number(L1Origin(parent)) + 1 \in Nat /\ L1Origin(parent) \in L1Block
    BY <1>2, NextNumberType, L2OriginType
  <2>2. ASSUME NEW p \in Payload  PROVE Append(L1Origin(parent), p) \in L1Block
    BY <2>1, AppendProperties DEF L1Block
  <2> QED  BY <2>1, <2>2, L1BlockByNumberType DEF NextOrigins
<1> QED  BY <1>2, <1>3, <1>4, NewBlockType

(***************************************************************************)
(* A block from a peer becomes the unsafe head only when the engine finds  *)
(* the safe head on its chain.                                             *)
(***************************************************************************)
LEMMA HandleUnsafeL2PayloadInv ==
  ASSUME Inv, HandleUnsafeL2Payload
  PROVE  Inv'
<1>1. TypeOK /\ l2Head \in L2Block /\ l2SafeHead \in L2Block /\ eng.head \in L2Block
  BY DEF Inv, TypeOK
<1>2. PICK payload \in UnsafePayloads :
        Number(l2SafeHead) <= Number(payload) /\ ProcessBlock(payload)
  BY DEF HandleUnsafeL2Payload
<1>3. payload \in L2Block
  BY <1>1, UnsafePayloadsType
<1>4. PICK s \in ForkchoiceUpdate(After("payloads"), payload, l2SafeHead) :
        /\ Leave(s)
        /\ l2Head' = IF s.ok THEN payload ELSE l2Head
  BY <1>2 DEF ProcessBlock
<1>5. /\ s \in EngineState
      /\ s.ok => \/ IsAncestor(l2SafeHead, payload)
                 \/ IsAncestor(payload, eng.head) /\ IsAncestor(l2SafeHead, eng.head)
  <2>1. After("payloads") \in EngineState /\ After("payloads").eng = eng
    BY <1>1, AfterType DEF Mishaps
  <2> QED  BY <1>1, <1>3, <2>1, ForkchoiceUpdateType
<1>6. s.ok => IsAncestor(l2SafeHead, payload)
  BY <1>1, <1>2, <1>3, <1>5, AncestorsOfOne DEF L2Block, Number
<1>8. eng' \in [head : L2Block, safe : L2Block] /\ used' \in [Mishaps -> Nat]
  BY <1>1, <1>4, <1>5, LeaveType
<1>9. UNCHANGED <<l1, l1Heads, l1Head, l2SafeHead, l1WindowBuf, stepReq, blockReq, epoch>>
      /\ ~ epoch.busy
  BY DEF HandleUnsafeL2Payload, l1Vars, reqVars
<1>10. TypeOK'
  BY <1>1, <1>3, <1>4, <1>8, <1>9 DEF TypeOK
<1>11. SafeBehindUnsafe'
  BY <1>4, <1>6, <1>9 DEF Inv, SafeBehindUnsafe
<1> QED  BY <1>9, <1>10, <1>11 DEF Inv, WindowContiguous, EpochInProgress

(* A restart keeps nothing but the engine. *)
LEMMA RestartInv ==
  ASSUME Inv, Restart
  PROVE  Inv'
<1>1. TypeOK /\ eng.head \in L2Block /\ l1 \in L1Block
  BY DEF Inv, TypeOK
<1>2. /\ UnsafeHead(eng.head, l1) \in L2Block /\ SafeHead(eng.head, l1) \in L2Block
      /\ IsAncestor(SafeHead(eng.head, l1), UnsafeHead(eng.head, l1))
  BY <1>1, FindL2HeadsOrdered, Zenon DEF L1Block, L2Block
<1>3. IsAncestor(Genesis, Genesis)
  BY GenesisType, AncestorReflexive DEF L2Block
<1>4. l2Head' \in L2Block /\ l2SafeHead' \in L2Block /\ SafeBehindUnsafe'
  BY <1>2, <1>3, GenesisType DEF Restart, SafeBehindUnsafe
<1>5. used' \in [Mishaps -> Nat]
  BY <1>1, HappensType DEF Restart, Mishaps
<1>6. TypeOK'
  BY <1>1, <1>4, <1>5, GenesisType, IdleType, Zenon DEF Restart, TypeOK
<1>7. WindowContiguous'
  BY ChainedEmpty DEF Restart, WindowContiguous
<1>8. EpochInProgress'
  BY IdleType DEF Restart, EpochInProgress
<1> QED  BY <1>4, <1>6, <1>7, <1>8 DEF Inv

-----------------------------------------------------------------------------
(***************************************************************************)
(* What insertEpoch derives from a window: at least one block, all of them *)
(* with the first L1 block of the window as origin.                        *)
(***************************************************************************)
LEMMA EpochEntriesType ==
  ASSUME NEW safe \in L2Block, NEW window \in Seq(L1Block), Len(window) > 1,
         \A i \in DOMAIN window : window[i] # Genesis
  PROVE  /\ EpochEntries(safe, window) \in L2Block
         /\ EpochEntries(safe, window) # <<>>
         /\ \A i \in DOMAIN EpochEntries(safe, window) :
              EpochEntries(safe, window)[i].origin = window[1]
<1> DEFINE lists == [i \in DOMAIN window |-> BatchesOf[Last(window[i])]]
           txs == EpochTxs(Number(window[1]), L2Time(safe), L1Time(window[1]),
                           L1Time(window[2]), lists)
<1>1. DOMAIN window = 1 .. Len(window) /\ Len(window) \in Nat
  BY LenProperties
<1>2. \A i \in 1 .. Len(window) : BatchesOf[Last(window[i])] \in Seq(Batch)
  <2> TAKE i \in 1 .. Len(window)
  <2>1. window[i] \in Seq(Payload) /\ window[i] # <<>>
    BY <1>1, ElementOfSeq, Zenon DEF L1Block, Genesis
  <2>2. Len(window[i]) \in 1 .. Len(window[i])
    BY <2>1, EmptySeq
  <2>3. Last(window[i]) \in Payload
    BY <2>1, <2>2, ElementOfSeq DEF Last
  <2> QED  BY <2>3, DriverAssumption
<1>3. lists \in Seq(Seq(Batch))
  BY <1>1, <1>2, IsASeq
<1>4. window[1] \in Seq(Payload) /\ window[2] \in Seq(Payload)
  BY <1>1, ElementOfSeq DEF L1Block
<1>5. /\ Number(window[1]) \in Nat /\ L1Time(window[1]) \in Nat
      /\ L1Time(window[2]) \in Nat /\ L2Time(safe) \in Nat
  <2>1. Len(window[1]) \in Nat /\ Len(window[2]) \in Nat /\ Len(safe) \in Nat
    BY <1>4, LenProperties DEF L2Block
  <2>2. L1BlockTime \in Nat /\ BlockTime \in Nat
    BY DriverAssumption, BlockTimeAssumption
  <2> QED  BY <2>1, <2>2 DEF Number, L1Time, L2Time
<1> HIDE DEF lists
<1>6. txs \in Seq(Txs) /\ txs # <<>>
  BY <1>3, <1>5, EpochTxsType, Zenon
<1>7. EpochEntries(safe, window) =
        [i \in DOMAIN txs |-> [origin |-> window[1], txs |-> txs[i]]]
  BY DEF EpochEntries, lists
<1> HIDE DEF txs
<1>8. DOMAIN txs = 1 .. Len(txs) /\ Len(txs) \in Nat \ {0}
  BY <1>6, LenProperties, EmptySeq
<1>9. \A i \in 1 .. Len(txs) :
        [origin |-> window[1], txs |-> txs[i]] \in [origin : L1Block, txs : Txs]
  BY <1>4, <1>6, ElementOfSeq DEF L1Block
<1> DEFINE entries == [i \in 1 .. Len(txs) |-> [origin |-> window[1], txs |-> txs[i]]]
<1>10. entries \in L2Block
  BY <1>8, <1>9, IsASeq DEF L2Block
<1>11. 1 \in DOMAIN entries /\ \A i \in DOMAIN entries : entries[i].origin = window[1]
  BY <1>8
<1>12. EpochEntries(safe, window) = entries
  BY <1>7, <1>8
<1> HIDE DEF entries
<1>13. entries # <<>>
  BY <1>11
<1> QED  BY <1>10, <1>11, <1>12, <1>13

(* The buffer after handleEpoch has asked L1 for more is still contiguous. *)
LEMMA ExtendedChained ==
  ASSUME Inv, ~ L1RangeFails(l1, l1WindowBufEnd(l1WindowBuf))
  PROVE  Extended \in Seq(L1Block) /\ Chained(L1Origin(l2SafeHead), Extended)
<1> DEFINE end == l1WindowBufEnd(l1WindowBuf)
           range == L1Range(l1, end, 2 * SeqWindowSize)
<1>1. /\ l1WindowBuf \in Seq(L1Block) /\ l2SafeHead \in L2Block /\ l1 \in L1Block
      /\ Chained(L1Origin(l2SafeHead), l1WindowBuf)
  BY DEF Inv, TypeOK, WindowContiguous
<1>2. end = IF l1WindowBuf = <<>> THEN L1Origin(l2SafeHead) ELSE Last(l1WindowBuf)
  BY DEF l1WindowBufEnd
<1>3. end \in L1Block
  <2>1. l1WindowBuf # <<>> => Last(l1WindowBuf) \in L1Block
    BY <1>1, EmptySeq, ElementOfSeq DEF Last
  <2> QED  BY <1>1, <1>2, <2>1, L2OriginType
<1>4. range \in Seq(L1Block) /\ Chained(end, range)
  <2>1. 2 * SeqWindowSize \in Nat
    BY SeqWindowSizeAssumption
  <2> HIDE DEF end
  <2>2. ~ L1RangeFails(l1, end)
    BY DEF end
  <2> QED  BY <1>1, <1>3, <2>1, <2>2, L1RangeChained DEF L1Block
<1> HIDE DEF end, range
<1>5. Chained(L1Origin(l2SafeHead), l1WindowBuf \o range)
  BY <1>1, <1>2, <1>4, ChainedConcat
<1> QED  BY <1>1, <1>4, <1>5, ConcatProperties DEF Extended, end, range

(* Clearing the buffer after an error in insertEpoch. *)
LEMMA GiveUpEpochInv ==
  ASSUME Inv, GiveUpEpoch, UNCHANGED <<l1Vars, blockReq>>,
         eng' \in [head : L2Block, safe : L2Block], used' \in [Mishaps -> Nat]
  PROVE  Inv'
<1>1. /\ l1WindowBuf' = <<>> /\ epoch' = Idle
      /\ stepReq' = StepDue(l1Head, l2SafeHead)
      /\ UNCHANGED <<l1, l1Heads, l1Head, l2Head, l2SafeHead, blockReq>>
  BY DEF GiveUpEpoch, l1Vars
<1>2. stepReq' \in BOOLEAN
  BY <1>1 DEF StepDue
<1>3. TypeOK'
  BY <1>1, <1>2, GenesisType, IdleType DEF Inv, TypeOK
<1>4. WindowContiguous'
  BY <1>1, ChainedEmpty DEF WindowContiguous
<1>5. SafeBehindUnsafe' /\ EpochInProgress'
  BY <1>1, IdleType, Zenon DEF Inv, SafeBehindUnsafe, EpochInProgress
<1> QED  BY <1>3, <1>4, <1>5 DEF Inv

(* insertEpoch on a contiguous window. *)
LEMMA WindowAvailableInv ==
  ASSUME Inv, ~ epoch.busy, NEW buf \in Seq(L1Block), Chained(L1Origin(l2SafeHead), buf),
         WindowAvailable(buf), UNCHANGED <<l1Vars, blockReq>>
  PROVE  Inv'
<1>1. /\ TypeOK /\ l2SafeHead \in L2Block /\ l2Head \in L2Block
      /\ IsAncestor(l2SafeHead, l2Head) /\ UNCHANGED <<l1, l1Heads, blockReq>>
  BY DEF Inv, TypeOK, SafeBehindUnsafe, l1Vars
<1>2. CASE WindowTooShort(buf)
  <2>1. stepReq' \in BOOLEAN
    BY <1>2 DEF WindowTooShort, StepDue
  <2>2. TypeOK'
    BY <1>1, <1>2, <2>1 DEF WindowTooShort, TypeOK
  <2> QED  BY <1>2, <2>2, Zenon DEF WindowTooShort, Inv, WindowContiguous, SafeBehindUnsafe,
                             EpochInProgress
<1>3. CASE InsertEpochRefused(buf)
  <2>1. GiveUpEpoch
    BY <1>3 DEF InsertEpochRefused
  <2>2. eng' \in [head : L2Block, safe : L2Block] /\ used' \in [Mishaps -> Nat]
    BY <1>1, <1>3, QueryFailsType DEF InsertEpochRefused, TypeOK
  <2> QED  BY <2>1, <2>2, GiveUpEpochInv
<1>4. CASE Len(buf) >= SeqWindowSize /\ InsertEpoch(buf)
  <2> DEFINE window == SubSeq(buf, 1, SeqWindowSize)
             todo == EpochEntries(l2SafeHead, window)
  <2>1. SeqWindowSize \in 2 .. Len(buf) /\ SeqWindowSize \in Nat /\ Len(buf) \in Nat
    BY <1>4, SeqWindowSizeAssumption, LenProperties DEF InsertEpoch
  <2>2. /\ window \in Seq(L1Block) /\ Len(window) = SeqWindowSize
        /\ \A i \in 1 .. SeqWindowSize : window[i] = buf[i]
    <3>1. SeqWindowSize \in 0 .. Len(buf)
      BY <2>1
    <3> QED  BY <3>1, AncestorType DEF Ancestor
  <2> HIDE DEF window
  <2>3. \A i \in DOMAIN window : window[i] # Genesis
    <3>1. DOMAIN window = 1 .. SeqWindowSize /\ DOMAIN buf = 1 .. Len(buf)
      BY <2>2, LenProperties
    <3> QED  BY <2>1, <2>2, <3>1 DEF Chained
  <2>4. todo \in L2Block /\ todo # <<>> /\ \A i \in DOMAIN todo : todo[i].origin = window[1]
    BY <1>1, <2>1, <2>2, <2>3, EpochEntriesType, SMTT(30)
  <2>5. window[1] = buf[1]
    BY <2>1, <2>2
  <2> HIDE DEF todo
  <2>6. /\ epoch' = [busy |-> TRUE, todo |-> todo, head |-> l2Head, safe |-> l2SafeHead,
                     reorg |-> FALSE]
        /\ l1WindowBuf' = buf /\ stepReq' = FALSE
        /\ UNCHANGED <<l1Head, l2Head, l2SafeHead, eng, used>>
    BY <1>4 DEF InsertEpoch, todo, window
  <2>7. TypeOK'
    BY <1>1, <2>4, <2>6, Zenon DEF TypeOK
  <2>8. EpochInProgress'
    BY <1>1, <1>4, <2>4, <2>5, <2>6, Zenon DEF EpochInProgress
  <2> QED  BY <1>1, <2>6, <2>7, <2>8, Zenon DEF Inv, WindowContiguous, SafeBehindUnsafe
<1> QED  BY <1>2, <1>3, <1>4 DEF WindowAvailable

(* The step event of the loop, up to the first block of the epoch. *)
LEMMA HandleStepRequestInv ==
  ASSUME Inv, HandleStepRequest
  PROVE  Inv'
<1>1. /\ ~ epoch.busy /\ UNCHANGED <<l1Vars, blockReq>> /\ TypeOK
      /\ l1WindowBuf \in Seq(L1Block) /\ Chained(L1Origin(l2SafeHead), l1WindowBuf)
  BY DEF HandleStepRequest, Inv, TypeOK, WindowContiguous
<1>2. CASE WindowNotExtended
  <2>1. eng' \in [head : L2Block, safe : L2Block] /\ used' \in [Mishaps -> Nat]
    BY <1>1, <1>2, QueryFailsType DEF WindowNotExtended, TypeOK
  <2>2. stepReq' \in BOOLEAN
    BY <1>2 DEF WindowNotExtended, StepDue
  <2>3. TypeOK'
    BY <1>1, <1>2, <2>1, <2>2 DEF WindowNotExtended, TypeOK, l1Vars, refVars
  <2> QED  BY <1>2, <2>3, UnchangedInv DEF WindowNotExtended
<1>3. CASE ~ L1RangeFails(l1, l1WindowBufEnd(l1WindowBuf)) /\ WindowAvailable(Extended)
  BY <1>1, <1>3, ExtendedChained, WindowAvailableInv
<1>4. CASE WindowAvailable(l1WindowBuf)
  BY <1>1, <1>4, WindowAvailableInv
<1> QED  BY <1>2, <1>3, <1>4 DEF HandleStepRequest

-----------------------------------------------------------------------------
(***************************************************************************)
(* One more block of the epoch.  The head is left alone only when the      *)
(* block was verified, and then the engine has found it on the head's      *)
(* chain.                                                                  *)
(***************************************************************************)
LEMMA BlockInsertedInv ==
  ASSUME Inv, epoch.busy, epoch.todo # <<>>, NEW reorg \in BOOLEAN, BlockInserted(reorg),
         Verifying /\ ~ reorg => IsAncestor(NextSafe, epoch.head),
         UNCHANGED <<l1Vars, refVars, stepReq, blockReq>>,
         eng' \in [head : L2Block, safe : L2Block], used' \in [Mishaps -> Nat]
  PROVE  Inv'
<1>1. /\ TypeOK /\ epoch.todo \in L2Block /\ epoch.safe \in L2Block
      /\ epoch.head \in L2Block /\ epoch.reorg \in BOOLEAN
  BY DEF Inv, TypeOK
<1>2. /\ Len(l1WindowBuf) >= SeqWindowSize
      /\ \A i \in DOMAIN epoch.todo : epoch.todo[i].origin = l1WindowBuf[1]
  BY DEF Inv, EpochInProgress
<1>3. /\ Head(epoch.todo) \in [origin : L1Block, txs : Txs] /\ Tail(epoch.todo) \in L2Block
      /\ Len(Tail(epoch.todo)) = Len(epoch.todo) - 1 /\ Len(epoch.todo) \in Nat \ {0}
      /\ \A i \in 1 .. Len(Tail(epoch.todo)) : Tail(epoch.todo)[i] = epoch.todo[i + 1]
  BY <1>1, HeadTailProperties, EmptySeq, Zenon DEF L2Block
<1>4. Head(epoch.todo).origin = l1WindowBuf[1]
  <2>1. 1 \in DOMAIN epoch.todo /\ Head(epoch.todo) = epoch.todo[1]
    BY <1>1, <1>3, LenProperties DEF L2Block
  <2> QED  BY <1>2, <2>1
<1>5. \A i \in DOMAIN Tail(epoch.todo) : Tail(epoch.todo)[i].origin = l1WindowBuf[1]
  <2>1. /\ DOMAIN Tail(epoch.todo) = 1 .. Len(Tail(epoch.todo))
        /\ DOMAIN epoch.todo = 1 .. Len(epoch.todo)
    BY <1>1, <1>3, LenProperties DEF L2Block
  <2> QED  BY <1>2, <1>3, <2>1
<1>6. NextSafe \in L2Block /\ L1Origin(NextSafe) = l1WindowBuf[1]
  BY <1>1, <1>3, <1>4, AppendProperties, OriginOfAppend DEF NextSafe, L2Block
<1>7. epoch' = [epoch EXCEPT
        !.todo = Tail(epoch.todo),
        !.head = IF epoch.reorg \/ reorg \/ ~ Verifying THEN NextSafe ELSE epoch.head,
        !.safe = NextSafe,
        !.reorg = epoch.reorg \/ reorg]
  BY DEF BlockInserted
<1>8. IsAncestor(NextSafe, NextSafe)
  BY <1>6, AncestorReflexive DEF L2Block
<1>9. /\ epoch'.busy = epoch.busy /\ epoch'.safe = NextSafe /\ epoch'.todo = Tail(epoch.todo)
      /\ epoch'.head = IF epoch.reorg \/ reorg \/ ~ Verifying THEN NextSafe ELSE epoch.head
  BY <1>1, <1>7, Zenon DEF TypeOK
<1>10. TypeOK'
  <2>1. (IF epoch.reorg \/ reorg \/ ~ Verifying THEN NextSafe ELSE epoch.head) \in L2Block
    BY <1>1, <1>6
  <2>2. (epoch.reorg \/ reorg) \in BOOLEAN
    OBVIOUS
  <2>3. epoch' \in [busy : BOOLEAN, todo : L2Block, head : L2Block, safe : L2Block,
                    reorg : BOOLEAN]
    BY <1>1, <1>3, <1>6, <1>7, <2>1, <2>2, Zenon DEF TypeOK
  <2> QED  BY <1>1, <2>3 DEF TypeOK, l1Vars, refVars
<1>11. IsAncestor(NextSafe, epoch'.head)
  BY <1>8, <1>9
<1>12. EpochInProgress'
  BY <1>2, <1>5, <1>6, <1>9, <1>11, Zenon DEF EpochInProgress, refVars
<1> QED  BY <1>10, <1>12 DEF Inv, WindowContiguous, SafeBehindUnsafe, refVars

(* A round of engine calls either inserts the block or abandons the epoch. *)
LEMMA EngineStepInv ==
  ASSUME Inv, epoch.busy, epoch.todo # <<>>, NEW reorg \in BOOLEAN, NEW outcomes,
         EngineStep(outcomes, reorg), UNCHANGED <<l1Vars, blockReq>>,
         \A s \in outcomes :
           /\ s \in EngineState
           /\ s.ok /\ Verifying /\ ~ reorg => IsAncestor(NextSafe, epoch.head)
  PROVE  Inv'
<1>1. PICK s \in outcomes :
        /\ Leave(s)
        /\ \/ s.ok /\ BlockInserted(reorg) /\ UNCHANGED <<refVars, stepReq>>
           \/ ~ s.ok /\ GiveUpEpoch
  BY DEF EngineStep
<1>2. TypeOK
  BY DEF Inv
<1>3. eng' \in [head : L2Block, safe : L2Block] /\ used' \in [Mishaps -> Nat]
  BY <1>1, <1>2, LeaveType, Zenon
<1>4. CASE s.ok /\ BlockInserted(reorg) /\ UNCHANGED <<refVars, stepReq>>
  BY <1>3, <1>4, BlockInsertedInv
<1>5. CASE GiveUpEpoch
  BY <1>3, <1>5, GiveUpEpochInv
<1> QED  BY <1>1, <1>4, <1>5

(* One block of the running epoch. *)
LEMMA InsertEpochBlockInv ==
  ASSUME Inv, InsertEpochBlock
  PROVE  Inv'
<1>1. epoch.busy /\ epoch.todo # <<>> /\ UNCHANGED <<l1Vars, blockReq>>
  BY DEF InsertEpochBlock
<1>2. /\ TypeOK /\ epoch.head \in L2Block /\ epoch.safe \in L2Block
      /\ epoch.todo \in L2Block /\ eng.head \in L2Block
      /\ EngineNow \in EngineState /\ EngineNow.eng = eng
  BY EngineNowType DEF Inv, TypeOK, EngineNow
<1>3. NextSafe \in L2Block /\ Len(NextSafe) = Len(epoch.safe) + 1
  <2>1. Head(epoch.todo) \in [origin : L1Block, txs : Txs]
    BY <1>1, <1>2, HeadTailProperties, Zenon DEF L2Block
  <2> QED  BY <1>2, <2>1, AppendProperties DEF NextSafe, L2Block
<1>4. CASE VerifySafeBlock
  <2>1. CASE GiveUpEpoch /\ UNCHANGED <<eng, used>>
    BY <1>1, <1>2, <2>1, GiveUpEpochInv, Zenon DEF TypeOK
  <2>2. CASE QueryFails /\ GiveUpEpoch
    BY <1>1, <1>2, <2>2, QueryFailsType, GiveUpEpochInv
  <2>3. CASE EngineStep(ForkchoiceUpdate(EngineNow, epoch.head, NextSafe), FALSE)
    <3>1. Verifying
      BY <1>4 DEF VerifySafeBlock
    <3>2. Len(NextSafe) <= Len(epoch.head)
      <4>1. IsAncestor(epoch.safe, epoch.head) /\ epoch.safe # epoch.head
        BY <1>1, <3>1 DEF Inv, EpochInProgress, Verifying
      <4>2. Len(epoch.safe) \in Nat /\ Len(epoch.head) \in Nat
        BY <1>2, LenProperties DEF L2Block
      <4>3. Len(epoch.safe) # Len(epoch.head)
        BY <1>2, <4>1, AncestorSelf DEF IsAncestor, L2Block
      <4> QED  BY <1>3, <4>1, <4>2, <4>3 DEF IsAncestor
    <3>3. ASSUME NEW s \in ForkchoiceUpdate(EngineNow, epoch.head, NextSafe)
          PROVE  s \in EngineState /\ (s.ok => IsAncestor(NextSafe, epoch.head))
      <4>1. /\ s \in EngineState
            /\ s.ok => \/ IsAncestor(NextSafe, epoch.head)
                       \/ IsAncestor(epoch.head, eng.head) /\ IsAncestor(NextSafe, eng.head)
        BY <1>2, <1>3, ForkchoiceUpdateType, Zenon
      <4> QED  BY <1>2, <1>3, <3>2, <4>1, AncestorsOfOne, Zenon DEF L2Block
    <3> QED  BY <1>1, <2>3, <3>3, EngineStepInv, Zenon
  <2>4. CASE EngineStep(
               InsertHeadBlock(EngineNow, epoch.safe, epoch.safe, NextSafe, TRUE), TRUE)
    <3>1. \A s \in InsertHeadBlock(EngineNow, epoch.safe, epoch.safe, NextSafe, TRUE) :
            s \in EngineState
      BY <1>2, <1>3, InsertHeadBlockType, Zenon
    <3> QED  BY <1>1, <2>4, <3>1, EngineStepInv, Zenon
  <2> QED  BY <1>4, <2>1, <2>2, <2>3, <2>4, Zenon DEF VerifySafeBlock
<1>5. CASE InsertSafeBlock
  <2>1. \A s \in InsertHeadBlock(EngineNow, epoch.head, epoch.safe, NextSafe, TRUE) :
          s \in EngineState
    BY <1>2, <1>3, InsertHeadBlockType, Zenon
  <2>2. /\ ~ Verifying
        /\ EngineStep(InsertHeadBlock(EngineNow, epoch.head, epoch.safe, NextSafe, TRUE), FALSE)
    BY <1>5, Zenon DEF InsertSafeBlock
  <2> QED  BY <1>1, <2>1, <2>2, EngineStepInv, Zenon
<1> QED  BY <1>4, <1>5 DEF InsertEpochBlock

(* The end of an epoch: the window moves on by one L1 block, with the safe head. *)
LEMMA EpochDoneInv ==
  ASSUME Inv, EpochDone
  PROVE  Inv'
<1>1. /\ epoch.busy /\ epoch.todo = <<>>
      /\ l2Head' = epoch.head /\ l2SafeHead' = epoch.safe
      /\ l1WindowBuf' = Tail(l1WindowBuf) /\ epoch' = Idle
      /\ blockReq' = (blockReq \/ (Sequencer /\ epoch.reorg))
      /\ stepReq' = (stepReq \/ StepDue(l1Head', l2SafeHead'))
      /\ UNCHANGED <<l1, l1Heads, l1Head, eng, used>>
  BY DEF EpochDone, RequestStep, l1Vars
<1>2. /\ TypeOK /\ l1WindowBuf \in Seq(L1Block)
      /\ epoch.head \in L2Block /\ epoch.safe \in L2Block
  BY DEF Inv, TypeOK
<1>3. /\ IsAncestor(epoch.safe, epoch.head) /\ Len(l1WindowBuf) >= SeqWindowSize
      /\ L1Origin(epoch.safe) = l1WindowBuf[1]
  BY <1>1, Zenon DEF Inv, EpochInProgress
<1>4. l1WindowBuf # <<>>
  BY <1>3, SeqWindowSizeAssumption, EmptySeq
<1>5. Tail(l1WindowBuf) \in Seq(L1Block)
  BY <1>2, <1>4, HeadTailProperties
<1>6. stepReq' \in BOOLEAN /\ blockReq' \in BOOLEAN
  BY <1>1
<1>7. TypeOK'
  BY <1>1, <1>2, <1>5, <1>6, IdleType DEF TypeOK
<1>8. Chained(l1WindowBuf[1], Tail(l1WindowBuf))
  BY <1>2, <1>4, ChainedTail DEF Inv, WindowContiguous
<1>9. WindowContiguous' /\ SafeBehindUnsafe' /\ EpochInProgress'
  BY <1>1, <1>3, <1>8, IdleType, Zenon DEF WindowContiguous, SafeBehindUnsafe, EpochInProgress
<1> QED  BY <1>7, <1>9 DEF Inv

-----------------------------------------------------------------------------
(***************************************************************************)
(* The invariant holds in every state of the driver.                       *)
(***************************************************************************)
THEOREM DriverInvariant == Spec => []Inv
<1>1. Inv /\ [Next]_vars => Inv'
  <2> SUFFICES ASSUME Inv, [Next]_vars PROVE Inv'
    OBVIOUS
  <2>1. CASE L1Extend \/ L1Reorg \/ L1HeadLost \/ L1HeadOvertakes \/ Tick
    BY <2>1, EnvironmentInv
  <2>2. CASE HandleNewL1Block
    BY <2>2, HandleNewL1BlockInv
  <2>3. CASE HandleBlockRequest
    BY <2>3, HandleBlockRequestInv
  <2>4. CASE HandleUnsafeL2Payload
    BY <2>4, HandleUnsafeL2PayloadInv
  <2>5. CASE HandleStepRequest
    BY <2>5, HandleStepRequestInv
  <2>6. CASE InsertEpochBlock
    BY <2>6, InsertEpochBlockInv
  <2>7. CASE EpochDone
    BY <2>7, EpochDoneInv
  <2>8. CASE Restart
    BY <2>8, RestartInv
  <2>9. CASE UNCHANGED vars
    <3>1. TypeOK'
      BY <2>9 DEF vars, l1Vars, refVars, reqVars, Inv, TypeOK
    <3> QED  BY <2>9, <3>1, UnchangedInv DEF vars
  <2> QED  BY <2>1, <2>2, <2>3, <2>4, <2>5, <2>6, <2>7, <2>8, <2>9 DEF Next, Loop
<1> QED  BY <1>1, InitInv, PTL DEF Spec

(* Type correctness of the driver. *)
THEOREM DriverTypeOK == Spec => []TypeOK
<1>1. Inv => TypeOK
  BY DEF Inv
<1> QED  BY <1>1, DriverInvariant, PTL

(***************************************************************************)
(* The buffered L1 window always is an unbroken chain on the safe head's   *)
(* origin, so insertEpoch never derives an epoch from a window with a hole *)
(* or from another branch of L1 than the safe head's.                      *)
(***************************************************************************)
THEOREM DriverWindowContiguous == Spec => []WindowContiguous
<1>1. Inv => WindowContiguous
  BY DEF Inv
<1> QED  BY <1>1, DriverInvariant, PTL

(***************************************************************************)
(* The safe head always is an ancestor of the unsafe head, through reorgs, *)
(* failed epochs, blocks from peers and restarts.                          *)
(***************************************************************************)
THEOREM DriverSafeBehindUnsafe == Spec => []SafeBehindUnsafe
<1>1. Inv => SafeBehindUnsafe
  BY DEF Inv
<1> QED  BY <1>1, DriverInvariant, PTL

(***************************************************************************)
(* The locals of a running insertEpoch stay in order and belong to the     *)
(* first block of a window that is still buffered, whatever else happens   *)
(* between two of its engine calls.                                        *)
(***************************************************************************)
THEOREM DriverEpochInProgress == Spec => []EpochInProgress
<1>1. Inv => EpochInProgress
  BY DEF Inv
<1> QED  BY <1>1, DriverInvariant, PTL

-----------------------------------------------------------------------------
(* A mishap is counted. *)
LEMMA MishapCounted ==
  ASSUME TypeOK, NEW m \in Mishaps, Happens(m)
  PROVE  ~ Never({m})'
<1>1. used' = [used EXCEPT ![m] = used[m] + 1]
  BY DEF Happens, OneMore
<1>2. used \in [Mishaps -> Nat]
  BY DEF TypeOK
<1>3. used'[m] # 0
  BY <1>1, <1>2
<1> QED  BY <1>3 DEF Never

(* Origins by number. *)
LEMMA OriginByNumber ==
  ASSUME NEW b \in L2Block
  PROVE  /\ OriginAt(b, 0) = Genesis
         /\ \A n \in 1 .. Len(b) : OriginAt(b, n) = b[n].origin
<1>1. Len(b) \in Nat
  BY LenProperties DEF L2Block
<1>2. OriginAt(b, 0) = Genesis
  <2>1. Ancestor(b, 0) \in L2Block /\ Len(Ancestor(b, 0)) = 0
    BY <1>1, AncestorType DEF L2Block
  <2>2. Ancestor(b, 0) = Genesis
    BY <2>1, EmptySeq DEF Genesis, L2Block
  <2> QED  BY <2>2 DEF OriginAt, L1Origin
<1>3. ASSUME NEW n \in 1 .. Len(b)  PROVE OriginAt(b, n) = b[n].origin
  <2>1. PICK a : a = Ancestor(b, n)
    OBVIOUS
  <2>2. n \in 0 .. Len(b) /\ n \in 1 .. n
    BY <1>1
  <2>3. a \in L2Block /\ Len(a) = n /\ a[n] = b[n]
    BY <2>1, <2>2, AncestorType DEF L2Block
  <2>4. a # Genesis
    BY <1>1, <2>3, EmptySeq DEF Genesis
  <2> QED  BY <2>1, <2>3, <2>4 DEF OriginAt, L1Origin, Last
<1> QED  BY <1>2, <1>3

-----------------------------------------------------------------------------
(***************************************************************************)
(* The driver implements the abstract safe chain: a driver that runs       *)
(* through adds whole epochs, each derived from one window of L1 blocks,   *)
(* or goes back to the end of an epoch.                                    *)
(***************************************************************************)
(* While insertEpoch runs, the blocks it has inserted and those it has yet to insert are what *)
(* the window that is still buffered derives on the safe head.                                *)
EpochDerived ==
  epoch.busy =>
    epoch.safe \o epoch.todo =
      l2SafeHead \o EpochEntries(l2SafeHead, SubSeq(l1WindowBuf, 1, SeqWindowSize))

(* The safe chain has no block of the L1 genesis' epoch: a sequencer builds such blocks, but *)
(* no window derives them.                                                                   *)
StartsLater(block) == block # <<>> => block[1].origin # Genesis

(***************************************************************************)
(* The invariant for the refinement, of a driver that runs through: after  *)
(* a restart the safe head may be a block that was never derived.          *)
(***************************************************************************)
RefinementInv == Inv /\ EpochDerived /\ StartsLater(l2SafeHead)

(***************************************************************************)
(* A chained window of the full size is a window after its base: by the    *)
(* least number of a block of which that is not so.                        *)
(***************************************************************************)
LEMMA ChainedWindow ==
  ASSUME NEW origin \in L1Block, NEW window \in Seq(L1Block), Len(window) = SeqWindowSize,
         Chained(origin, window)
  PROVE  window \in WindowsAfter(origin)
<1>1. SeqWindowSize \in Nat /\ DOMAIN window = 1 .. SeqWindowSize
  BY SeqWindowSizeAssumption, LenProperties
<1> DEFINE payloads == [i \in 1 .. SeqWindowSize |-> Last(window[i])]
           Upto(i) == origin \o SubSeq(payloads, 1, i)
<1>2. ASSUME NEW i \in 1 .. SeqWindowSize
      PROVE  /\ window[i] \in Seq(Payload) /\ Last(window[i]) \in Payload
             /\ window[i] = Append(IF i = 1 THEN origin ELSE window[i - 1], Last(window[i]))
  <2>1. window[i] \in Seq(Payload)
    BY <1>1, ElementOfSeq DEF L1Block
  <2>2. window[i] # <<>> /\ Parent(window[i]) = IF i = 1 THEN origin ELSE window[i - 1]
    BY <1>1 DEF Chained, Genesis
  <2> QED  BY <2>1, <2>2, ParentAndLast, Zenon
<1>3. payloads \in [1 .. SeqWindowSize -> Payload]
  BY <1>2
<1>4. payloads \in Seq(Payload) /\ Len(payloads) = SeqWindowSize
  <2>1. payloads \in Seq(Payload)
    BY <1>1, <1>3, SeqDef
  <2> QED  BY <1>1, <2>1, LenProperties
<1>5. \A i \in 1 .. SeqWindowSize : payloads[i] = Last(window[i])
  OBVIOUS
<1> HIDE DEF payloads
<1>6. Upto(0) = origin
  <2>1. SubSeq(payloads, 1, 0) = <<>>
    BY <1>4, SubSeqEmpty
  <2> QED  BY <2>1, ConcatEmptySeq DEF L1Block
<1>7. ASSUME NEW i \in 1 .. SeqWindowSize  PROVE Upto(i) = Append(Upto(i - 1), payloads[i])
  <2>1. i \in 0 .. Len(payloads) /\ i - 1 \in 0 .. Len(payloads) /\ i - 1 \in 0 .. i
    BY <1>1, <1>4
  <2> DEFINE s == SubSeq(payloads, 1, i)
             r == SubSeq(payloads, 1, i - 1)
  <2>2. /\ s \in Seq(Payload) /\ Len(s) = i /\ \A j \in 1 .. i : s[j] = payloads[j]
        /\ r \in Seq(Payload)
    BY <1>4, <2>1, AncestorType DEF Ancestor
  <2>3. Parent(s) = r
    <3>1. Parent(s) = Ancestor(s, i - 1)
      BY <2>2 DEF Parent
    <3>2. Ancestor(Ancestor(payloads, i), i - 1) = Ancestor(payloads, i - 1)
      BY <1>4, <2>1, AncestorOfAncestor
    <3> QED  BY <3>1, <3>2 DEF Ancestor
  <2> HIDE DEF s, r
  <2>4. s # <<>> /\ Last(s) = payloads[i]
    <3>1. Len(s) # 0 /\ Len(s) = i /\ s[i] = payloads[i]
      BY <1>1, <2>2
    <3> QED  BY <3>1, EmptySeq DEF Last
  <2>5. s = Append(r, payloads[i]) /\ payloads[i] \in Payload
    BY <1>3, <2>2, <2>3, <2>4, ParentAndLast
  <2>6. origin \o Append(r, payloads[i]) = Append(origin \o r, payloads[i])
    <3>1. origin \in Seq(Payload) /\ r \in Seq(Payload)
      BY <2>2 DEF L1Block
    <3> QED  BY <2>5, <3>1, ConcatAppend
  <2> QED  BY <2>5, <2>6 DEF s, r
<1> DEFINE Other == {i \in 1 .. SeqWindowSize : window[i] # Upto(i)}
<1>8. Other = {}
  <2> SUFFICES ASSUME Other # {}  PROVE FALSE
    OBVIOUS
  <2>1. Other \in SUBSET Nat
    BY <1>1
  <2>2. PICK m \in Other : \A k \in Other : m <= k
    BY <2>1, LeastNumber, Zenon
  <2>3. m \in 1 .. SeqWindowSize /\ window[m] # Upto(m)
    OBVIOUS
  <2>4. m # 1 => window[m - 1] = Upto(m - 1)
    <3> SUFFICES ASSUME m # 1, window[m - 1] # Upto(m - 1)  PROVE FALSE
      OBVIOUS
    <3>1. m - 1 \in 1 .. SeqWindowSize /\ ~ (m <= m - 1)
      BY <1>1, <2>3
    <3>2. m - 1 \in Other
      BY <3>1
    <3> QED  BY <2>2, <3>1, <3>2
  <2> HIDE DEF Upto
  <2>5. (IF m = 1 THEN origin ELSE window[m - 1]) = Upto(m - 1)
    BY <1>6, <2>4
  <2>6. window[m] = Append(Upto(m - 1), payloads[m])
    BY <1>2, <1>5, <2>3, <2>5
  <2> QED  BY <1>7, <2>3, <2>6
<1>9. window = [i \in 1 .. SeqWindowSize |-> Upto(i)]
  <2>1. window = [i \in 1 .. SeqWindowSize |-> window[i]]
    BY <1>1
  <2>2. \A i \in 1 .. SeqWindowSize : window[i] = Upto(i)
    BY <1>8, Zenon
  <2> HIDE DEF Upto
  <2> QED  BY <2>1, <2>2
<1> QED  BY <1>3, <1>9, Zenon DEF WindowsAfter

-----------------------------------------------------------------------------
(* What FindL2Heads takes for the safe head is the end of an epoch, or the L2 genesis. *)
LEMMA SafeHeadIsEnd ==
  ASSUME NEW start \in L2Block, NEW l \in L1Block
  PROVE  \E n \in 0 .. Len(start) :
           SafeHead(start, l) = Ancestor(start, n) /\ (n = 0 \/ n \in EpochEnds(start))
<1> DEFINE top == HighestCanonical(start, l)
           Depth(n) == Cardinality({m \in EpochEnds(start) : n <= m /\ m <= top})
           reached == {n \in EpochEnds(start) : n <= top /\ Depth(n) = SeqWindowSize}
<1>1. SafeHead(start, l) = IF reached = {} THEN Genesis ELSE Ancestor(start, Max(reached))
  BY DEF SafeHead
<1>2. Len(start) \in Nat
  BY LenProperties DEF L2Block
<1>3. reached \subseteq EpochEnds(start) /\ EpochEnds(start) \subseteq 0 .. Len(start)
  BY DEF EpochEnds, Number
<1> HIDE DEF reached
<1>4. CASE reached = {}
  <2>1. Ancestor(start, 0) \in L2Block /\ Len(Ancestor(start, 0)) = 0
    BY <1>2, AncestorType DEF L2Block
  <2>2. Ancestor(start, 0) = Genesis
    BY <2>1, EmptySeq DEF Genesis, L2Block
  <2>3. 0 \in 0 .. Len(start)
    BY <1>2
  <2> QED  BY <1>1, <1>4, <2>2, <2>3
<1>5. CASE reached # {}
  <2>1. Max(reached) \in reached
    BY <1>2, <1>3, <1>5, MaxOfBounded, Zenon
  <2> QED  BY <1>1, <1>3, <1>5, <2>1
<1> QED  BY <1>4, <1>5

-----------------------------------------------------------------------------
(* The steps that leave a running insertEpoch alone, or end it. *)
LEMMA NotRunning ==
  ASSUME EpochDerived, ~ epoch'.busy \/ UNCHANGED <<refVars, epoch>>
  PROVE  EpochDerived'
BY Zenon DEF EpochDerived, refVars

(* Every step keeps EpochDerived. *)
LEMMA EpochDerivedStep ==
  ASSUME Inv, EpochDerived, [Next]_vars
  PROVE  EpochDerived'
<1>1. ASSUME epoch' = Idle  PROVE EpochDerived'
  BY <1>1, IdleType, NotRunning
<1>2. CASE L1Extend \/ L1Reorg \/ L1HeadLost \/ L1HeadOvertakes \/ Tick \/ UNCHANGED vars
  <2>1. UNCHANGED <<refVars, epoch>>
    BY <1>2 DEF L1Extend, L1Reorg, L1HeadLost, L1HeadOvertakes, Tick, vars
  <2> QED  BY <2>1, NotRunning
<1>3. CASE HandleNewL1Block \/ HandleBlockRequest \/ HandleUnsafeL2Payload
  <2>1. ~ epoch.busy /\ epoch' = epoch
    BY <1>3, Zenon DEF HandleNewL1Block, HandleBlockRequest, HandleUnsafeL2Payload
  <2> QED  BY <2>1, NotRunning
<1>4. CASE HandleStepRequest
  <2>1. ~ epoch.busy
    BY <1>4 DEF HandleStepRequest
  <2>2. CASE epoch' = epoch
    BY <2>1, <2>2, NotRunning
  <2>3. ASSUME NEW buf, WindowAvailable(buf)  PROVE EpochDerived'
    <3>1. CASE WindowTooShort(buf)
      BY <2>2, <3>1 DEF WindowTooShort
    <3>2. CASE InsertEpochRefused(buf)
      BY <1>1, <3>2 DEF InsertEpochRefused, GiveUpEpoch
    <3>3. CASE InsertEpoch(buf)
      <4> DEFINE entries == EpochEntries(l2SafeHead, SubSeq(buf, 1, SeqWindowSize))
      <4>1. /\ epoch' = [busy |-> TRUE, todo |-> entries, head |-> l2Head, safe |-> l2SafeHead,
                         reorg |-> FALSE]
            /\ l1WindowBuf' = buf /\ l2SafeHead' = l2SafeHead
        BY <3>3 DEF InsertEpoch
      <4>2. EpochEntries(l2SafeHead', SubSeq(l1WindowBuf', 1, SeqWindowSize)) = entries
        BY <4>1
      <4> HIDE DEF entries
      <4>3. epoch'.safe = l2SafeHead' /\ epoch'.todo = entries
        BY <4>1
      <4> QED  BY <4>2, <4>3 DEF EpochDerived
    <3> QED  BY <2>3, <3>1, <3>2, <3>3 DEF WindowAvailable
  <2>4. CASE WindowNotExtended
    BY <2>2, <2>4 DEF WindowNotExtended
  <2> QED  BY <1>4, <2>3, <2>4 DEF HandleStepRequest
<1>5. CASE InsertEpochBlock
  <2>1. epoch.busy /\ epoch.todo # <<>> /\ epoch.todo \in L2Block /\ epoch.safe \in L2Block
    BY <1>5 DEF InsertEpochBlock, Inv, TypeOK
  <2>2. ASSUME NEW reorg, BlockInserted(reorg), UNCHANGED refVars  PROVE EpochDerived'
    <3>1. epoch'.safe = NextSafe /\ epoch'.todo = Tail(epoch.todo)
      BY <2>2 DEF BlockInserted, Inv, TypeOK
    <3>2. NextSafe \o Tail(epoch.todo) = epoch.safe \o epoch.todo
      BY <2>1, MovedOver, Zenon DEF NextSafe, L2Block
    <3>3. UNCHANGED <<l2SafeHead, l1WindowBuf>>
      BY <2>2 DEF refVars
    <3> QED  BY <2>1, <3>1, <3>2, <3>3, Zenon DEF EpochDerived
  <2>3. ASSUME NEW outcomes, NEW reorg, EngineStep(outcomes, reorg)  PROVE EpochDerived'
    <3>1. (BlockInserted(reorg) /\ UNCHANGED refVars) \/ GiveUpEpoch
      BY <2>3 DEF EngineStep
    <3>2. CASE GiveUpEpoch
      BY <1>1, <3>2 DEF GiveUpEpoch
    <3> QED  BY <2>2, <3>1, <3>2
  <2>4. CASE GiveUpEpoch
    BY <1>1, <2>4 DEF GiveUpEpoch
  <2> QED  BY <1>5, <2>3, <2>4, Zenon DEF InsertEpochBlock, VerifySafeBlock, InsertSafeBlock
<1>6. CASE EpochDone \/ Restart
  BY <1>1, <1>6, Zenon DEF EpochDone, Restart
<1> QED  BY <1>2, <1>3, <1>4, <1>5, <1>6 DEF Next, Loop

-----------------------------------------------------------------------------
(***************************************************************************)
(* The end of an epoch is a step of the abstract specification that adds   *)
(* one, and what it adds does not start with the L1 genesis.               *)
(***************************************************************************)
LEMMA EpochDoneRefines ==
  ASSUME Inv, EpochDerived, EpochDone
  PROVE  /\ Abstract!AddEpoch
         /\ StartsLater(l2SafeHead) => StartsLater(l2SafeHead')
<1> DEFINE window == SubSeq(l1WindowBuf, 1, SeqWindowSize)
           entries == EpochEntries(l2SafeHead, window)
<1>1. /\ l2SafeHead \in L2Block /\ epoch.safe \in L2Block /\ l1WindowBuf \in Seq(L1Block)
      /\ Chained(L1Origin(l2SafeHead), l1WindowBuf)
  BY DEF Inv, TypeOK, WindowContiguous
<1>2. epoch.busy /\ epoch.todo = <<>> /\ l2SafeHead' = epoch.safe
  BY DEF EpochDone
<1>3. SeqWindowSize \in 0 .. Len(l1WindowBuf) /\ SeqWindowSize \in Nat /\ SeqWindowSize > 1
  BY <1>1, <1>2, SeqWindowSizeAssumption, LenProperties, SMTT(30) DEF Inv, EpochInProgress
<1>4. /\ window \in Seq(L1Block) /\ Len(window) = SeqWindowSize
      /\ \A i \in 1 .. SeqWindowSize : window[i] = l1WindowBuf[i]
  BY <1>1, <1>3, AncestorType DEF Ancestor
<1>5. l2SafeHead' = l2SafeHead \o entries
  <2>1. epoch.safe \o <<>> = epoch.safe
    BY <1>1, ConcatEmptySeq DEF L2Block
  <2> QED  BY <1>2, <2>1 DEF EpochDerived
<1> HIDE DEF window
<1>6. DOMAIN window = 1 .. SeqWindowSize /\ DOMAIN l1WindowBuf = 1 .. Len(l1WindowBuf)
  BY <1>1, <1>4, LenProperties
<1>7. Chained(L1Origin(l2SafeHead), window)
  <2>1. ASSUME NEW i \in 1 .. SeqWindowSize
        PROVE  /\ window[i] # Genesis
               /\ Parent(window[i]) = IF i = 1 THEN L1Origin(l2SafeHead) ELSE window[i - 1]
    <3>1. i \in DOMAIN l1WindowBuf /\ window[i] = l1WindowBuf[i]
      BY <1>3, <1>4, <1>6
    <3>2. i # 1 => window[i - 1] = l1WindowBuf[i - 1]
      <4>1. i # 1 => i - 1 \in 1 .. SeqWindowSize
        BY <1>3
      <4> QED  BY <1>4, <4>1
    <3> QED  BY <1>1, <3>1, <3>2, Zenon DEF Chained
  <2> QED  BY <1>6, <2>1 DEF Chained
<1>8. \A i \in DOMAIN window : window[i] # Genesis
  BY <1>7 DEF Chained
<1>9. window \in WindowsAfter(L1Origin(l2SafeHead))
  BY <1>1, <1>4, <1>7, L2OriginType, ChainedWindow
<1>10. /\ entries \in L2Block /\ entries # <<>>
       /\ \A i \in DOMAIN entries : entries[i].origin = window[1]
  BY <1>1, <1>3, <1>4, <1>8, EpochEntriesType, Zenon
<1>11. entries \in DerivableEpochs(l2SafeHead)
  BY <1>9 DEF DerivableEpochs
<1> HIDE DEF entries
<1>12. /\ Len(l2SafeHead) \in Nat /\ Len(entries) \in Nat /\ Len(entries) # 0
       /\ Len(l2SafeHead') = Len(l2SafeHead) + Len(entries)
  BY <1>1, <1>5, <1>10, LenProperties, EmptySeq, ConcatProperties, Zenon DEF L2Block
<1>13. Abstract!AddEpoch
  <2>1. Abstract!Number(l2SafeHead') > Abstract!Number(l2SafeHead)
    BY <1>12 DEF Abstract!Number
  <2> QED  BY <1>5, <1>11, <2>1, Zenon DEF Abstract!AddEpoch
<1>14. StartsLater(l2SafeHead) => StartsLater(l2SafeHead')
  <2> SUFFICES ASSUME StartsLater(l2SafeHead)  PROVE l2SafeHead'[1].origin # Genesis
    BY DEF StartsLater
  <2>1. \A i \in 1 .. Len(l2SafeHead) + Len(entries) :
          (l2SafeHead \o entries)[i] = IF i <= Len(l2SafeHead) THEN l2SafeHead[i]
                                       ELSE entries[i - Len(l2SafeHead)]
    BY <1>1, <1>10, ConcatProperties, Zenon DEF L2Block
  <2>2. 1 \in 1 .. Len(l2SafeHead) + Len(entries)
    BY <1>12
  <2>3. CASE l2SafeHead = <<>>
    <3>1. Len(l2SafeHead) = 0
      BY <2>3, EmptySeq
    <3>2. l2SafeHead'[1] = entries[1]
      BY <1>5, <2>1, <2>2, <3>1
    <3>3. 1 \in DOMAIN entries /\ 1 \in DOMAIN window
      BY <1>3, <1>6, <1>10, <1>12, LenProperties DEF L2Block
    <3> QED  BY <1>8, <1>10, <3>2, <3>3
  <2>4. CASE l2SafeHead # <<>>
    <3>1. 1 <= Len(l2SafeHead)
      BY <1>1, <1>12, <2>4, EmptySeq DEF L2Block
    <3>2. l2SafeHead'[1] = l2SafeHead[1]
      BY <1>5, <2>1, <2>2, <3>1
    <3> QED  BY <2>4, <3>2 DEF StartsLater
  <2> QED  BY <2>3, <2>4
<1> QED  BY <1>13, <1>14

(* The abstract specification speaks of blocks in the same words. *)
LEMMA SameWords ==
  ASSUME NEW a, NEW b, NEW n
  PROVE  /\ Abstract!Number(a) = Number(a) /\ Abstract!IsAncestor(a, b) = IsAncestor(a, b)
         /\ Abstract!OriginAt(a, n) = OriginAt(a, n) /\ Abstract!Genesis = Genesis
<1>1. \A c : Abstract!L1Origin(c) = L1Origin(c)
  BY DEF Abstract!L1Origin, L1Origin, Abstract!Genesis, Genesis, Abstract!Last, Last
<1> QED  BY <1>1 DEF Abstract!Number, Number, Abstract!IsAncestor, IsAncestor, Abstract!OriginAt,
                     OriginAt, Abstract!Ancestor, Ancestor, Abstract!Genesis, Genesis

(* Heads that are searched again leave the safe head, or take it back to the end of an epoch. *)
LEMMA ResetHeadsRefines ==
  ASSUME Inv, StartsLater(l2SafeHead), NEW new,
         ResetHeads(new, UnsafeHead(l2Head, l1), SafeHead(l2Head, l1))
  PROVE  (l2SafeHead' = l2SafeHead \/ Abstract!Rewind) /\ StartsLater(l2SafeHead')
<1>1. /\ l2Head \in L2Block /\ l2SafeHead \in L2Block /\ l1 \in L1Block
      /\ IsAncestor(l2SafeHead, l2Head)
  BY DEF Inv, TypeOK, SafeBehindUnsafe
<1>2. PICK n \in 0 .. Len(l2Head) :
        SafeHead(l2Head, l1) = Ancestor(l2Head, n) /\ (n = 0 \/ n \in EpochEnds(l2Head))
  BY <1>1, SafeHeadIsEnd
<1>3. PICK k : k = Len(l2SafeHead)
  OBVIOUS
<1>4. k \in 0 .. Len(l2Head) /\ l2SafeHead = Ancestor(l2Head, k) /\ Len(l2Head) \in Nat
  BY <1>1, <1>3, LenProperties DEF IsAncestor, L2Block
<1>5. Len(SafeHead(l2Head, l1)) = n
  BY <1>1, <1>2, AncestorType, Zenon DEF L2Block
<1>6. l2SafeHead' = IF k >= n THEN Ancestor(l2Head, n) ELSE l2SafeHead
  BY <1>2, <1>3, <1>5 DEF ResetHeads, Number
<1>7. \A m \in 0 .. k : Ancestor(l2SafeHead, m) = Ancestor(l2Head, m)
  BY <1>1, <1>4, AncestorOfAncestor DEF L2Block
<1>8. CASE n >= k
  <2>1. l2SafeHead' = l2SafeHead
    <3>1. CASE n = k
      BY <1>4, <1>6, <3>1
    <3>2. CASE n # k
      <4>1. ~ (k >= n)
        BY <1>4, <1>8, <3>2
      <4> QED  BY <1>6, <4>1
    <3> QED  BY <3>1, <3>2
  <2> QED  BY <2>1
<1>9. CASE ~ (n >= k)
  <2>1. n < k /\ n \in 0 .. k /\ n + 1 \in 1 .. k /\ n + 1 \in 0 .. k /\ n \in Nat
    BY <1>4, <1>9
  <2>2. l2SafeHead' = Ancestor(l2SafeHead, n)
    BY <1>4, <1>6, <1>7, <2>1
  <2>3. Len(l2SafeHead') = n /\ l2SafeHead' \in L2Block
    BY <1>1, <1>3, <2>1, <2>2, AncestorType, Zenon DEF L2Block
  <2>4. Number(l2SafeHead') < Number(l2SafeHead) /\ IsAncestor(l2SafeHead', l2SafeHead)
    BY <1>3, <2>1, <2>2, <2>3 DEF Number, IsAncestor
  <2>5. OriginAt(l2SafeHead, n) # OriginAt(l2SafeHead, n + 1)
    <3>1. CASE n = 0
      <4>1. OriginAt(l2SafeHead, 0) = Genesis /\ OriginAt(l2SafeHead, 1) = l2SafeHead[1].origin
        BY <1>1, <1>3, <2>1, <3>1, OriginByNumber
      <4>2. l2SafeHead # <<>>
        BY <1>3, <2>1, EmptySeq
      <4> QED  BY <3>1, <4>1, <4>2 DEF StartsLater
    <3>2. CASE n \in EpochEnds(l2Head)
      <4>1. n < Number(l2Head)
        BY <1>4, <2>1 DEF Number
      <4>2. OriginAt(l2Head, n) # OriginAt(l2Head, n + 1)
        BY <3>2, <4>1 DEF EpochEnds
      <4> QED  BY <1>7, <2>1, <4>2 DEF OriginAt
    <3> QED  BY <1>2, <3>1, <3>2
  <2>6. Abstract!Rewind
    <3>1. /\ Abstract!Number(l2SafeHead') < Abstract!Number(l2SafeHead)
          /\ Abstract!IsAncestor(l2SafeHead', l2SafeHead)
      BY <2>4, SameWords
    <3>2. /\ Abstract!OriginAt(l2SafeHead, Abstract!Number(l2SafeHead'))
               = OriginAt(l2SafeHead, n)
          /\ Abstract!OriginAt(l2SafeHead, Abstract!Number(l2SafeHead') + 1)
               = OriginAt(l2SafeHead, n + 1)
      BY <2>3, SameWords DEF Number
    <3> QED  BY <2>5, <3>1, <3>2 DEF Abstract!Rewind
  <2>7. StartsLater(l2SafeHead')
    <3> SUFFICES ASSUME l2SafeHead' # <<>>  PROVE l2SafeHead'[1].origin # Genesis
      BY DEF StartsLater
    <3>1. n # 0
      BY <2>3, EmptySeq DEF L2Block
    <3>2. 1 \in 1 .. n /\ n \in 0 .. Len(l2SafeHead)
      BY <1>3, <2>1, <3>1
    <3>3. l2SafeHead'[1] = l2SafeHead[1]
      BY <1>1, <2>2, <3>2, AncestorType DEF L2Block
    <3>4. l2SafeHead # <<>>
      BY <1>3, <2>1, EmptySeq
    <3> QED  BY <3>3, <3>4 DEF StartsLater
  <2> QED  BY <2>6, <2>7
<1> QED  BY <1>8, <1>9

(* All steps but a restart. *)
LEMMA StepRefines ==
  ASSUME Inv, EpochDerived, StartsLater(l2SafeHead), [Next]_vars, ~ Restart
  PROVE  /\ l2SafeHead' = l2SafeHead \/ Abstract!AddEpoch \/ Abstract!Rewind
         /\ StartsLater(l2SafeHead')
<1>1. CASE L1Extend \/ L1Reorg \/ L1HeadLost \/ L1HeadOvertakes \/ Tick \/ UNCHANGED vars
  <2>1. l2SafeHead' = l2SafeHead
    BY <1>1, Zenon DEF L1Extend, L1Reorg, L1HeadLost, L1HeadOvertakes, Tick, vars, refVars
  <2> QED  BY <2>1
<1>2. CASE HandleNewL1Block
  <2>1. PICK new : SameHead(new) \/ LinearExtension(new) \/ L1HeadJump(new)
    BY <1>2 DEF HandleNewL1Block
  <2>2. l2SafeHead' = l2SafeHead \/ ResetHeads(new, UnsafeHead(l2Head, l1), SafeHead(l2Head, l1))
    BY <2>1, Zenon DEF SameHead, LinearExtension, L1HeadJump, refVars
  <2> QED  BY <2>2, ResetHeadsRefines
<1>3. CASE HandleBlockRequest \/ HandleUnsafeL2Payload
  BY <1>3 DEF HandleBlockRequest, HandleUnsafeL2Payload
<1>4. CASE HandleStepRequest
  <2>1. l2SafeHead' = l2SafeHead
    BY <1>4, Zenon
       DEF HandleStepRequest, WindowNotExtended, WindowAvailable, WindowTooShort, InsertEpoch,
                InsertEpochRefused, GiveUpEpoch, refVars
  <2> QED  BY <2>1
<1>5. CASE InsertEpochBlock
  <2>1. l2SafeHead' = l2SafeHead
    BY <1>5, Zenon
       DEF InsertEpochBlock, VerifySafeBlock, InsertSafeBlock, EngineStep, GiveUpEpoch, refVars
  <2> QED  BY <2>1
<1>6. CASE EpochDone
  BY <1>6, EpochDoneRefines
<1> QED  BY <1>1, <1>2, <1>3, <1>4, <1>5, <1>6 DEF Next, Loop

(* The invariant of the refinement, while there is no restart. *)
LEMMA RefinementInvariant == Spec /\ []Never({"restarts"}) => []RefinementInv
<1>1. Init => RefinementInv
  <2> SUFFICES ASSUME Init  PROVE EpochDerived /\ StartsLater(l2SafeHead)
    BY InitInv DEF RefinementInv
  <2>1. ~ epoch.busy /\ l2SafeHead = <<>>
    BY IdleType DEF Init, Genesis
  <2> QED  BY <2>1, Zenon DEF EpochDerived, StartsLater
<1>2. ASSUME RefinementInv, [Next]_vars, Inv', Never({"restarts"})'
      PROVE  RefinementInv'
  <2>1. Inv /\ TypeOK /\ EpochDerived /\ StartsLater(l2SafeHead)
    BY <1>2 DEF RefinementInv, Inv
  <2>2. ~ Restart
    BY <1>2, <2>1, MishapCounted DEF Restart, Mishaps
  <2>3. EpochDerived'
    BY <1>2, <2>1, EpochDerivedStep
  <2>4. StartsLater(l2SafeHead')
    BY <1>2, <2>1, <2>2, StepRefines
  <2> QED  BY <1>2, <2>3, <2>4 DEF RefinementInv
<1> QED  BY <1>1, <1>2, DriverInvariant, PTL DEF Spec

(***************************************************************************)
(* A driver that is not restarted implements the abstract safe chain: its  *)
(* safe head moves forward by whole epochs, each derived from one window   *)
(* of L1 blocks, and back to ends of epochs, whatever L1, the network and  *)
(* the engine do.                                                          *)
(***************************************************************************)
THEOREM DriverImplementsSafeChain == Spec /\ []Never({"restarts"}) => ImplementsSafeChain
<1>1. Init => Abstract!Init
  BY SameWords DEF Init, Abstract!Init
<1>2. ASSUME RefinementInv, [Next]_vars, Never({"restarts"})'
      PROVE  [Abstract!Next]_l2SafeHead
  <2>1. Inv /\ TypeOK /\ EpochDerived /\ StartsLater(l2SafeHead)
    BY <1>2 DEF RefinementInv, Inv
  <2>2. ~ Restart
    BY <1>2, <2>1, MishapCounted DEF Restart, Mishaps
  <2> QED  BY <1>2, <2>1, <2>2, StepRefines DEF Abstract!Next
<1> QED  BY <1>1, <1>2, RefinementInvariant, PTL DEF Spec, ImplementsSafeChain, Abstract!Spec
=============================================================================
