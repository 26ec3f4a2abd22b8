-------------------------------- MODULE Driver --------------------------------
(***************************************************************************)
(* The rollup driver of the op-node: the event loop in                     *)
(* op-node/rollup/driver/state.go and the block building and derivation    *)
(* steps it drives in op-node/rollup/driver/step.go, together with the L1  *)
(* chain it follows, the channel on which it hears of new L1 heads, and    *)
(* the execution engine it commands.                                       *)
(*                                                                         *)
(* The loop handles one event at a time, so an event is one action, except *)
(* for the derivation of an epoch: insertEpoch makes one round of engine   *)
(* calls per L2 block, and L1 moves on meanwhile, so each of its blocks is *)
(* a step.  The L1 data insertEpoch uses is fetched by hash and cannot     *)
(* change; the queries by number (findL1Origin, L1Range, FindL2Heads) see  *)
(* the L1 chain of the moment.                                             *)
(***************************************************************************)
EXTENDS Derivation, SyncHeads

CONSTANTS
  Sequencer,    \* BOOLEAN: whether the node also builds L2 blocks
  L1BlockTime,  \* seconds between L1 blocks
  Payload,      \* what an L1 block may carry
  BatchesOf,    \* the batches decoded from an L1 block that carries it, in order
  MaxL1,        \* bound: length of the L1 chain
  MaxL2,        \* bound: length of the L2 chain the sequencer builds
  Allowed       \* bounds: how many reorgs, faults, ... a behaviour may have had

Mishaps == {"reorgs", "losses", "overtakes", "faults", "restarts", "payloads", "ticks"}

ASSUME DriverAssumption ==
  /\ Sequencer \in BOOLEAN
  /\ L1BlockTime \in Nat
  /\ BatchesOf \in [Payload -> Seq(Batch)]
  /\ MaxL1 \in Nat /\ MaxL2 \in Nat
  /\ Allowed \subseteq [Mishaps -> Nat]

VARIABLES
  l1,           \* head of the canonical L1 chain
  l1Heads,      \* head signals sent to the driver and not yet handled
  l1Head, l2Head, l2SafeHead, l1WindowBuf,  \* state.go: the fields of state
  stepReq, blockReq,                        \* the two request channels of loop
  epoch,        \* local variables of a running insertEpoch
  eng,          \* the engine: its head and its safe block
  used          \* how many reorgs, faults, ... there have been

l1Vars == <<l1, l1Heads>>
refVars == <<l1Head, l2Head, l2SafeHead, l1WindowBuf>>
reqVars == <<stepReq, blockReq>>
vars == <<l1Vars, refVars, reqVars, epoch, eng, used>>

L1Block == Seq(Payload)
L2Block == Seq([origin : L1Block, txs : Txs])

Idle == [busy |-> FALSE, todo |-> <<>>, head |-> Genesis, safe |-> Genesis,
         reorg |-> FALSE]

(* The types of all variables. *)
TypeOK ==
  /\ l1 \in L1Block /\ l1Heads \in Seq(L1Block)
  /\ l1Head \in L1Block /\ l2Head \in L2Block /\ l2SafeHead \in L2Block
  /\ l1WindowBuf \in Seq(L1Block)
  /\ stepReq \in BOOLEAN /\ blockReq \in BOOLEAN
  /\ epoch \in [busy : BOOLEAN, todo : L2Block, head : L2Block, safe : L2Block,
                reorg : BOOLEAN]
  /\ eng \in [head : L2Block, safe : L2Block]
  /\ used \in [Mishaps -> Nat]

OneMore(count, m) == [count EXCEPT ![m] = @ + 1]

Happens(m) == used' = OneMore(used, m) /\ used' \in Allowed

L1Time(block) == L1BlockTime * Number(block)
L2Time(block) == BlockTime * Number(block)

-----------------------------------------------------------------------------
(***************************************************************************)
(* The L1 chain and its head signals.  A reorg replaces everything after   *)
(* block n by one block; longer branches are that and extensions.  A       *)
(* signal is lost when OnL1Head times out on a full channel, when the      *)
(* subscription is being re-established, and when L1 announces only the    *)
(* last of several blocks.  It is overtaken when two OnL1Head callbacks     *)
(* race for the channel.                                                   *)
(***************************************************************************)
Announce(block) == l1' = block /\ l1Heads' = Append(l1Heads, block)

L1Extend ==
  /\ Len(l1) < MaxL1
  /\ \E p \in Payload : Announce(Append(l1, p))
  /\ UNCHANGED <<refVars, reqVars, epoch, eng, used>>

L1Reorg ==
  /\ \E n \in 0 .. Len(l1) - 1, p \in Payload :
       /\ p # l1[n + 1]
       /\ Announce(Append(Ancestor(l1, n), p))
  /\ Happens("reorgs")
  /\ UNCHANGED <<refVars, reqVars, epoch, eng>>

RemoveAt(q, i) == SubSeq(q, 1, i - 1) \o SubSeq(q, i + 1, Len(q))

L1HeadLost ==
  /\ \E i \in DOMAIN l1Heads : l1Heads' = RemoveAt(l1Heads, i)
  /\ Happens("losses")
  /\ UNCHANGED <<l1, refVars, reqVars, epoch, eng>>

L1HeadOvertakes ==
  /\ \E i \in DOMAIN l1Heads :
       /\ i > 1
       /\ l1Heads' = <<l1Heads[i]>> \o RemoveAt(l1Heads, i)
  /\ Happens("overtakes")
  /\ UNCHANGED <<l1, refVars, reqVars, epoch, eng>>

-----------------------------------------------------------------------------
(***************************************************************************)
(* The engine.  A call takes a state [eng, ok, used] to the set of         *)
(* states it may leave behind.  A forkchoice update to an ancestor of the  *)
(* current head may rewind the engine or leave its head alone; one whose   *)
(* safe block is not on the chain of its head is refused, possibly after   *)
(* the head has been set.  Any call may fail before it takes effect, or    *)
(* take effect and have its answer lost.                                   *)
(***************************************************************************)
EngineNow == [eng |-> eng, ok |-> TRUE, used |-> used]

ForkchoiceUpdate(s, head, safe) ==
  LET heads == IF IsAncestor(head, s.eng.head) THEN {head, s.eng.head} ELSE {head}
      applied == {[s EXCEPT !.eng = [head |-> h, safe |-> safe]] :
                    h \in {g \in heads : IsAncestor(safe, g)}}
      refused == {[s EXCEPT !.eng.head = h, !.ok = FALSE] :
                    h \in {g \in heads \cup {s.eng.head} : ~ IsAncestor(safe, head)}}
      faulty == {[t EXCEPT !.ok = FALSE, !.used = OneMore(s.used, "faults")] :
                   t \in {s} \cup applied \cup refused}
  IN  applied \cup refused \cup {t \in faulty : t.used \in Allowed}

(***************************************************************************)
(* insertHeadBlock: start building on fcHead, get the payload, execute it, *)
(* make it the head.  GetPayload and NewPayload leave the engine's head    *)
(* and safe block alone, so their failures look like a lost answer to the  *)
(* first update.                                                           *)
(***************************************************************************)
InsertHeadBlock(s, fcHead, fcSafe, block, updateSafe) ==
  UNION {IF t.ok
         THEN ForkchoiceUpdate(t, block, IF updateSafe THEN block ELSE fcSafe)
         ELSE {t} : t \in ForkchoiceUpdate(s, fcHead, fcSafe)}

Leave(s) == eng' = s.eng /\ used' = s.used

(* A failed query of the L1 or L2 source, which changes nothing by itself. *)
QueryFails == Happens("faults") /\ UNCHANGED eng

-----------------------------------------------------------------------------
(***************************************************************************)
(* The condition under which loop asks for another derivation step.  The   *)
(* subtraction is on uint64; 2^30 stands for 2^64, which TLC's integers    *)
(* cannot hold and which is as far beyond any block number.                *)
(***************************************************************************)
Word == 2^30

StepDue(head, safe) ==
  (Number(head) - Number(L1Origin(safe))) % Word >= SeqWindowSize

(* reqStep and reqL2BlockCreation: a channel of capacity 1 that never blocks. *)
RequestStep == stepReq' = (stepReq \/ StepDue(l1Head', l2SafeHead'))

l1WindowBufEnd(buf) == IF buf = <<>> THEN L1Origin(l2SafeHead) ELSE Last(buf)

-----------------------------------------------------------------------------
(***************************************************************************)
(* case newL1Head := <-s.l1Heads: handleNewL1Block, then maybe a step      *)
(* request.                                                                *)
(***************************************************************************)
SameHead(new) ==
  /\ new = l1Head
  /\ UNCHANGED <<refVars, eng, used>>

(* Mutant: appends without looking where the buffer ends. *)
LinearExtensionUnchecked(new) ==
  /\ new # l1Head /\ new # Genesis /\ Parent(new) = l1Head
  /\ l1Head' = new
  /\ l1WindowBuf' = Append(l1WindowBuf, new)
  /\ UNCHANGED <<l2Head, l2SafeHead, eng, used>>

LinearExtension(new) ==
  /\ new # l1Head /\ new # Genesis /\ Parent(new) = l1Head
  /\ l1Head' = new
  /\ l1WindowBuf' = IF l1WindowBufEnd(l1WindowBuf) = Parent(new)
                    THEN Append(l1WindowBuf, new) ELSE l1WindowBuf
  /\ UNCHANGED <<l2Head, l2SafeHead, eng, used>>

(* A jump ahead or a reorg: look for the heads again and reset the engine to them. *)
ResetHeads(new, unsafe, safe) ==
  /\ l1Head' = new
  /\ l1WindowBuf' = <<>>
  /\ l2Head' = unsafe
  /\ l2SafeHead' = IF Number(l2SafeHead) >= Number(safe) THEN safe ELSE l2SafeHead

L1HeadJump(new) ==
  /\ new # l1Head /\ (new = Genesis \/ Parent(new) # l1Head)
  /\ \/ QueryFails /\ UNCHANGED refVars
     \/ ReorgTooDeep(l2Head, l1) /\ UNCHANGED <<refVars, eng, used>>
     \/ LET unsafe == UnsafeHead(l2Head, l1)
            safe == SafeHead(l2Head, l1)
        IN  /\ ~ ReorgTooDeep(l2Head, l1)
            /\ \E s \in ForkchoiceUpdate(EngineNow, unsafe, safe) :
                 /\ Leave(s)
                 /\ \/ s.ok /\ ResetHeads(new, unsafe, safe)
                    \/ ~ s.ok /\ UNCHANGED refVars

(* Mutant: does not wait for a running insertEpoch. *)
HandleNewL1BlockConcurrently ==
  /\ l1Heads # <<>>
  /\ l1Heads' = Tail(l1Heads)
  /\ \/ SameHead(Head(l1Heads))
     \/ LinearExtension(Head(l1Heads))
     \/ L1HeadJump(Head(l1Heads))
  /\ RequestStep
  /\ UNCHANGED <<l1, blockReq, epoch>>

HandleNewL1Block ==
  /\ ~ epoch.busy
  /\ l1Heads # <<>>
  /\ l1Heads' = Tail(l1Heads)
  /\ \/ SameHead(Head(l1Heads))
     \/ LinearExtension(Head(l1Heads))
     \/ L1HeadJump(Head(l1Heads))
  /\ RequestStep
  /\ UNCHANGED <<l1, blockReq, epoch>>

-----------------------------------------------------------------------------
(***************************************************************************)
(* Sequencing.  findL1Origin takes the next origin by number, and falls    *)
(* back to the current one when that query fails.                          *)
(***************************************************************************)
(* Mutant: goes straight to the newest L1 head. *)
findL1OriginNewest ==
  IF L2Time(l2Head) + BlockTime >= L1Time(l1Head) THEN l1Head ELSE L1Origin(l2Head)

findL1Origin ==
  LET current == L1Origin(l2Head)
      next == L1BlockRefByNumber(l1, Number(current) + 1)
  IN  IF current = l1Head THEN l1Head
      ELSE IF /\ HasL1Block(l1, Number(current) + 1)
              /\ L2Time(l2Head) + BlockTime >= L1Time(next)
           THEN next ELSE current

(***************************************************************************)
(* createNewL2Block.  No query precedes the block when the head's origin   *)
(* is l1Head; the by-number query failing makes the block stay on the      *)
(* current origin.  Publishing the block on the p2p network, whose failure *)
(* is only logged, is left out.                                            *)
(***************************************************************************)
NextL2Time == L2Time(l2Head) + BlockTime

(* Mutant: makes the new block safe as well. *)
CreateNewL2BlockSafe(origin, s) ==
  \/ /\ NextL2Time < L1Time(origin)
     /\ Leave(s)
     /\ UNCHANGED l2Head
  \/ /\ NextL2Time >= L1Time(origin)
     /\ \E txs \in Txs \ ForbiddenTxs :
          LET block == Append(l2Head, [origin |-> origin, txs |-> txs])
          IN  \E t \in InsertHeadBlock(s, l2Head, l2SafeHead, block, TRUE) :
                /\ Leave(t)
                /\ l2Head' = IF t.ok THEN block ELSE l2Head

CreateNewL2Block(origin, s) ==
  \/ /\ NextL2Time < L1Time(origin)
     /\ Leave(s)
     /\ UNCHANGED l2Head
  \/ /\ NextL2Time >= L1Time(origin)
     /\ \E txs \in IF NextL2Time >= L1Time(origin) + MaxSequencerDrift
                   THEN {NoTxs} ELSE Txs \ ForbiddenTxs :
          LET block == Append(l2Head, [origin |-> origin, txs |-> txs])
          IN  \E t \in InsertHeadBlock(s, l2Head, l2SafeHead, block, FALSE) :
                /\ Leave(t)
                /\ l2Head' = IF t.ok THEN block ELSE l2Head

After(m) == [EngineNow EXCEPT !.used = OneMore(used, m)]

HandleBlockRequest ==
  /\ ~ epoch.busy /\ blockReq
  /\ Number(l2Head) < MaxL2
  /\ \/ CreateNewL2Block(findL1Origin, EngineNow)
     \/ /\ L1Origin(l2Head) # l1Head
        /\ OneMore(used, "faults") \in Allowed
        /\ CreateNewL2Block(L1Origin(l2Head), After("faults"))
     \/ QueryFails /\ UNCHANGED l2Head
  /\ blockReq' = (Number(l1Head) > Number(L1Origin(l2Head')))
  /\ UNCHANGED <<l1Vars, l1Head, l2SafeHead, l1WindowBuf, stepReq, epoch>>

(* The ticker asks for a block every BlockTime seconds. *)
Tick ==
  /\ Sequencer /\ ~ epoch.busy /\ ~ blockReq
  /\ blockReq' = TRUE
  /\ Happens("ticks")
  /\ UNCHANGED <<l1Vars, refVars, stepReq, epoch, eng>>

-----------------------------------------------------------------------------
(***************************************************************************)
(* Derivation.  The entries insertEpoch derives from a window on top of a  *)
(* safe head; at least one.                                                *)
(***************************************************************************)
EpochEntries(safe, window) ==
  LET txs == EpochTxs(Number(window[1]), L2Time(safe), L1Time(window[1]),
                      L1Time(window[2]),
                      [i \in DOMAIN window |-> BatchesOf[Last(window[i])]])
  IN  [i \in DOMAIN txs |-> [origin |-> window[1], txs |-> txs[i]]]

Extended == l1WindowBuf \o L1Range(l1, l1WindowBufEnd(l1WindowBuf), 2 * SeqWindowSize)

(* case <-stepReqCh, handleEpoch up to the loop of insertEpoch. *)
WindowNotExtended ==
  /\ Len(l1WindowBuf) < SeqWindowSize
  /\ \/ QueryFails
     \/ L1RangeFails(l1, l1WindowBufEnd(l1WindowBuf)) /\ UNCHANGED <<eng, used>>
  /\ UNCHANGED <<refVars, epoch>>
  /\ stepReq' = StepDue(l1Head, l2SafeHead)

InsertEpoch(buf) ==
  LET window == SubSeq(buf, 1, SeqWindowSize)
  IN  /\ Parent(window[1]) = L1Origin(l2SafeHead)
      /\ epoch' = [busy |-> TRUE, todo |-> EpochEntries(l2SafeHead, window),
                   head |-> l2Head, safe |-> l2SafeHead, reorg |-> FALSE]
      /\ l1WindowBuf' = buf
      /\ stepReq' = FALSE
      /\ UNCHANGED <<l1Head, l2Head, l2SafeHead, eng, used>>

(* Mutant: keeps the blocks inserted before the error. *)
GiveUpEpochHalfWay ==
  /\ l1WindowBuf' = <<>>
  /\ epoch' = Idle
  /\ stepReq' = StepDue(l1Head, l2SafeHead)
  /\ l2Head' = IF epoch.busy THEN epoch.head ELSE l2Head
  /\ l2SafeHead' = IF epoch.busy THEN epoch.safe ELSE l2SafeHead
  /\ UNCHANGED l1Head

(* Mutant: forgets to ask for another attempt. *)
GiveUpEpochForGood ==
  /\ l1WindowBuf' = <<>>
  /\ epoch' = Idle
  /\ stepReq' = FALSE
  /\ UNCHANGED <<l1Head, l2Head, l2SafeHead>>

(* An error from insertEpoch: clear the buffer and try again later. *)
GiveUpEpoch ==
  /\ l1WindowBuf' = <<>>
  /\ epoch' = Idle
  /\ stepReq' = StepDue(l1Head, l2SafeHead)
  /\ UNCHANGED <<l1Head, l2Head, l2SafeHead>>

InsertEpochRefused(buf) ==
  /\ \/ QueryFails
     \/ Parent(buf[1]) # L1Origin(l2SafeHead) /\ UNCHANGED <<eng, used>>
  /\ GiveUpEpoch

WindowTooShort(buf) ==
  /\ Len(buf) < SeqWindowSize
  /\ l1WindowBuf' = buf
  /\ stepReq' = StepDue(l1Head, l2SafeHead)
  /\ UNCHANGED <<l1Head, l2Head, l2SafeHead, epoch, eng, used>>

WindowAvailable(buf) ==
  \/ WindowTooShort(buf)
  \/ Len(buf) >= SeqWindowSize /\ (InsertEpoch(buf) \/ InsertEpochRefused(buf))

HandleStepRequest ==
  /\ ~ epoch.busy /\ stepReq
  /\ \/ WindowNotExtended
     \/ /\ Len(l1WindowBuf) < SeqWindowSize
        /\ ~ L1RangeFails(l1, l1WindowBufEnd(l1WindowBuf))
        /\ WindowAvailable(Extended)
     \/ /\ Len(l1WindowBuf) >= SeqWindowSize
        /\ WindowAvailable(l1WindowBuf)
  /\ UNCHANGED <<l1Vars, blockReq>>

-----------------------------------------------------------------------------
(***************************************************************************)
(* One block of the running epoch: verifySafeBlock when the engine may     *)
(* already have unsafe blocks above the safe head, insertHeadBlock when it *)
(* has none.                                                               *)
(***************************************************************************)
NextSafe == Append(epoch.safe, Head(epoch.todo))

Verifying == epoch.head # epoch.safe

(* PayloadByNumber on the engine's canonical chain. *)
EngineBlock == Ancestor(eng.head, Number(epoch.safe) + 1)

EngineHasBlock == Number(eng.head) > Number(epoch.safe)

Mismatch == Verifying /\ EngineBlock # NextSafe

(* Mutant: leaves the head on the abandoned branch after a mismatch. *)
BlockInsertedOldHead(reorg) ==
  epoch' = [epoch EXCEPT
    !.todo = Tail(@),
    !.head = IF ~ Verifying THEN NextSafe ELSE @,
    !.safe = NextSafe,
    !.reorg = @ \/ reorg]

BlockInserted(reorg) ==
  epoch' = [epoch EXCEPT
    !.todo = Tail(@),
    !.head = IF epoch.reorg \/ reorg \/ ~ Verifying THEN NextSafe ELSE @,
    !.safe = NextSafe,
    !.reorg = @ \/ reorg]

EngineStep(outcomes, reorg) ==
  \E s \in outcomes :
    /\ Leave(s)
    /\ \/ /\ s.ok
          /\ BlockInserted(reorg)
          /\ UNCHANGED <<refVars, stepReq>>
       \/ ~ s.ok /\ GiveUpEpoch

VerifySafeBlock ==
  /\ Verifying
  /\ \/ /\ ~ EngineHasBlock
        /\ GiveUpEpoch
        /\ UNCHANGED <<eng, used>>
     \/ QueryFails /\ GiveUpEpoch
     \/ /\ EngineHasBlock /\ ~ Mismatch
        /\ EngineStep(ForkchoiceUpdate(EngineNow, epoch.head, NextSafe), FALSE)
     \/ /\ EngineHasBlock /\ Mismatch
        /\ EngineStep(InsertHeadBlock(EngineNow, epoch.safe, epoch.safe, NextSafe, TRUE),
                      TRUE)

InsertSafeBlock ==
  /\ ~ Verifying
  /\ EngineStep(InsertHeadBlock(EngineNow, epoch.head, epoch.safe, NextSafe, TRUE), FALSE)

InsertEpochBlock ==
  /\ epoch.busy /\ epoch.todo # <<>>
  /\ VerifySafeBlock \/ InsertSafeBlock
  /\ UNCHANGED <<l1Vars, blockReq>>

(* The end of handleEpoch and of its case in loop. *)
EpochDone ==
  /\ epoch.busy /\ epoch.todo = <<>>
  /\ l2Head' = epoch.head
  /\ l2SafeHead' = epoch.safe
  /\ l1WindowBuf' = Tail(l1WindowBuf)
  /\ epoch' = Idle
  /\ blockReq' = (blockReq \/ (Sequencer /\ epoch.reorg))
  /\ UNCHANGED <<l1Vars, l1Head, eng, used>>
  /\ RequestStep

-----------------------------------------------------------------------------
(***************************************************************************)
(* case payload := <-s.unsafeL2Payloads.  The payload is a block some      *)
(* sequencer built on a block this node knows; any other makes NewPayload  *)
(* fail and changes nothing.  Its origin is what findL1Origin gave that    *)
(* sequencer: the parent's, the next on L1, or, after a reorg, a block     *)
(* that was the next one and has been re-orged away since.                 *)
(***************************************************************************)
NextOrigins(parent) ==
  LET next == Number(L1Origin(parent)) + 1
      reorged == {Append(L1Origin(parent), p) : p \in Payload}
  IN  {L1Origin(parent)}
        \cup (IF HasL1Block(l1, next) THEN {L1BlockRefByNumber(l1, next)} ELSE {})
        \cup (IF used["reorgs"] > 0 /\ next <= MaxL1 THEN reorged ELSE {})

Children(parent) ==
  {Append(parent, [origin |-> origin, txs |-> txs]) :
     origin \in NextOrigins(parent), txs \in Txs \ ForbiddenTxs}

UnsafePayloads ==
  UNION {Children(parent) : parent \in Prefixes(eng.head) \cup Prefixes(l2SafeHead)}

ProcessBlock(payload) ==
  \E s \in ForkchoiceUpdate(After("payloads"), payload, l2SafeHead) :
    /\ Leave(s)
    /\ l2Head' = IF s.ok THEN payload ELSE l2Head

HandleUnsafeL2Payload ==
  /\ ~ epoch.busy /\ OneMore(used, "payloads") \in Allowed
  /\ \E payload \in UnsafePayloads :
       /\ Number(payload) <= MaxL2
       /\ Number(l2SafeHead) <= Number(payload)
       /\ ProcessBlock(payload)
  /\ UNCHANGED <<l1Vars, l1Head, l2SafeHead, l1WindowBuf, reqVars, epoch>>

(***************************************************************************)
(* The node stops at any point and Start runs again: everything but the    *)
(* engine is lost, the heads are searched from the engine's head, and the  *)
(* loop begins with a step request.  Start fails, and the node stays down, *)
(* when the search does.                                                   *)
(***************************************************************************)
Restart ==
  /\ ~ ReorgTooDeep(eng.head, l1)
  /\ l1Head' = l1
  /\ l2Head' = IF l1 = Genesis THEN Genesis ELSE UnsafeHead(eng.head, l1)
  /\ l2SafeHead' = IF l1 = Genesis THEN Genesis ELSE SafeHead(eng.head, l1)
  /\ l1WindowBuf' = <<>> /\ l1Heads' = <<>>
  /\ stepReq' = TRUE /\ blockReq' = FALSE
  /\ epoch' = Idle
  /\ Happens("restarts")
  /\ UNCHANGED <<l1, eng>>

-----------------------------------------------------------------------------
Init ==
  /\ l1 = Genesis /\ l1Heads = <<>>
  /\ l1Head = Genesis /\ l2Head = Genesis /\ l2SafeHead = Genesis
  /\ l1WindowBuf = <<>>
  /\ stepReq = TRUE /\ blockReq = FALSE
  /\ epoch = Idle
  /\ eng = [head |-> Genesis, safe |-> Genesis]
  /\ used = [m \in Mishaps |-> 0]

Loop ==
  \/ HandleNewL1Block
  \/ HandleBlockRequest
  \/ HandleUnsafeL2Payload
  \/ HandleStepRequest
  \/ InsertEpochBlock
  \/ EpochDone

Next ==
  \/ L1Extend
  \/ L1Reorg
  \/ L1HeadLost
  \/ L1HeadOvertakes
  \/ Loop
  \/ Tick
  \/ Restart

Spec == Init /\ [][Next]_vars

(***************************************************************************)
(* The loop is one goroutine whose select takes every ready case in time:  *)
(* Go picks among ready cases at random, so none is starved.               *)
(***************************************************************************)
Fairness ==
  /\ WF_vars(HandleNewL1Block)
  /\ WF_vars(HandleStepRequest)
  /\ WF_vars(InsertEpochBlock)
  /\ WF_vars(EpochDone)

FairSpec == Spec /\ Fairness
=============================================================================
