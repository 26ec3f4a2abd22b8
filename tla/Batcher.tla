------------------------------- MODULE Batcher -------------------------------
(***************************************************************************)
(* The batch submitter: the event loop of proposer.Service with the driver *)
(* of op-batcher/sequencer, its history file, the GetBatchBundle call to   *)
(* the rollup node, and L1.  The L2 chain may re-org while the call walks  *)
(* it block by block, calls may fail, and the submitter may be restarted.  *)
(***************************************************************************)
EXTENDS Bundles, FiniteSets

CONSTANTS
  Sizes,    \* sizes of batches
  MaxL2,    \* bound: height of L2
  Allowed   \* bound: how often each mishap may happen, alternatives of counts

Mishaps == {"reorgs", "callReorgs", "faults", "overlaps", "restarts"}

ASSUME BatcherAssumption == Sizes \subseteq Nat /\ MaxL2 \in Nat /\ Allowed \subseteq [Mishaps -> Nat]

VARIABLES
  l2,       \* the canonical L2 chain, that is its head block
  history,  \* the history file, Torn when it does not parse
  pc,       \* where the event loop is
  call,     \* the GetBatchBundle call
  batch,    \* currentBatch, and the nonce of its transaction
  pool,     \* transactions L1 nodes know: bundles, by nonce
  inbox,    \* the submitter's transactions on L1, in the order of their nonces
  used      \* how often each mishap happened

l2Vars == <<l2>>
l1Vars == <<pool, inbox>>
vars == <<l2Vars, history, pc, call, batch, l1Vars, used>>

Torn == <<>>
NoCall == [found |-> Genesis, next |-> 0, candidates |-> <<>>, total |-> 0]
NoBatch == [last |-> Genesis, bundle |-> <<>>, nonce |-> 0]

(* Mutant: any known block will do. *)
IsCanonicalUnchecked(block) == Len(block) <= Len(l2)

IsCanonical(block) == IsPrefix(block, l2)

OneMore(m) == [used EXCEPT ![m] = @ + 1]
Happens(m) == used' = OneMore(m) /\ OneMore(m) \in Allowed

-----------------------------------------------------------------------------
(* L2 grows, or falls back to an earlier block. *)
Forks == used["reorgs"] + used["callReorgs"]

L2Extend ==
  /\ Len(l2) < MaxL2
  /\ \E s \in Sizes \cup {0} : l2' = Append(l2, [size |-> s, fork |-> Forks])
  /\ UNCHANGED used

L2Reorg ==
  /\ \E n \in 0 .. Len(l2) - 1 : l2' = SubSeq(l2, 1, n)
  /\ Happens(IF pc \in {"find", "fetch"} THEN "callReorgs" ELSE "reorgs")

L2 == (L2Extend \/ L2Reorg) /\ UNCHANGED <<history, pc, call, batch, l1Vars>>

(* L1 includes one of the transactions with the next nonce; the others are void. *)
L1Include ==
  /\ \E tx \in pool : tx.nonce = Len(inbox) /\ inbox' = Append(inbox, tx.bundle)
  /\ pool' = {}
  /\ UNCHANGED <<l2Vars, history, pc, call, batch, used>>

-----------------------------------------------------------------------------
(* GetBlockRange, up to the call; an unreadable history is an error. *)
Poll ==
  /\ pc = "poll"
  /\ batch' = NoBatch
  /\ IF history = Torn THEN UNCHANGED <<pc, call>>
     ELSE pc' = "find" /\ call' = [NoCall EXCEPT !.next = 1]
  /\ UNCHANGED <<history, pool, used>>

(* GetBatchBundle: the first block of the history that is canonical. *)
FindCommon ==
  LET ancestors == Ancestors(history)
      block == ancestors[call.next]
  IN  /\ pc = "find"
      /\ \/ /\ call.next > Len(ancestors)
            /\ pc' = "poll" /\ call' = NoCall
         \/ /\ call.next <= Len(ancestors) /\ IsCanonical(block)
            /\ pc' = "fetch" /\ call' = [NoCall EXCEPT !.found = block, !.next = Len(block) + 1]
         \/ /\ call.next <= Len(ancestors) /\ ~ IsCanonical(block)
            /\ call' = [call EXCEPT !.next = @ + 1] /\ UNCHANGED pc
      /\ UNCHANGED <<history, batch, pool, used>>

(* The next block becomes a candidate if there is one and its batch fits. *)
MoreBlocks ==
  call.next <= Len(l2) /\ call.next <= Len(call.found) + MaxL2BlocksPerBatchResponse

NextBlock == SubSeq(l2, 1, call.next)

NextTooLarge == MoreBlocks /\ ~ IsEmpty(NextBlock) /\ TooLarge(call.total, NextBlock)

FetchBlock ==
  /\ pc = "fetch" /\ MoreBlocks /\ ~ NextTooLarge
  /\ call' = [call EXCEPT !.next = @ + 1, !.candidates = Append(@, NextBlock),
                          !.total = IF IsEmpty(NextBlock) THEN @
                                    ELSE @ + EncodedSize(BatchSize(NextBlock))]
  /\ UNCHANGED <<history, pc, batch, pool, used>>

(* The answer, and the rest of GetBlockRange: no work, only empty blocks, or a bundle. *)
Answer ==
  LET large == NextTooLarge /\ call.total < MinSize
      response == Response(call.found, call.candidates)
  IN  /\ pc = "fetch" /\ (~ MoreBlocks \/ NextTooLarge)
      /\ call' = NoCall
      /\ \/ /\ Undersized(call.candidates, large) \/ response.last = call.found
            /\ pc' = "poll" /\ UNCHANGED <<history, batch>>
         \/ /\ ~ Undersized(call.candidates, large) /\ response.last # call.found
            /\ response.bundle = <<>>
            /\ history' = AppendEntry(history, response.last)
            /\ pc' = "poll" /\ UNCHANGED batch
         \/ /\ ~ Undersized(call.candidates, large) /\ response.bundle # <<>>
            /\ batch' = [last |-> response.last, bundle |-> response.bundle, nonce |-> 0]
            /\ pc' = "craft" /\ UNCHANGED history
      /\ UNCHANGED <<pool, used>>

(* The nonce of the transaction is the number of those on L1 already. *)
Craft ==
  /\ pc = "craft"
  /\ batch' = [batch EXCEPT !.nonce = Len(inbox)]
  /\ pc' = "append"
  /\ UNCHANGED <<history, call, pool, used>>

(* SendTransaction: first the history.  A publication that overlaps with another one's *)
(* write may find the file empty.                                                       *)
AppendHistory ==
  /\ pc = "append"
  /\ \/ history' = AppendEntry(history, batch.last) /\ UNCHANGED used
     \/ history' = AppendEntry(<<Genesis>>, batch.last) /\ Happens("overlaps")
  /\ pc' = "send"
  /\ UNCHANGED <<call, batch, pool>>

(* Then L1, which refuses a used nonce and may refuse a replacement. *)
SendL1 ==
  LET tx == [nonce |-> batch.nonce, bundle |-> batch.bundle]
  IN  /\ pc = "send" /\ pc' = "wait"
      /\ \/ batch.nonce = Len(inbox) /\ pool' = pool \cup {tx} /\ UNCHANGED used
         \/ batch.nonce # Len(inbox) /\ UNCHANGED <<pool, used>>
         \/ pool # {} /\ UNCHANGED <<pool, used>>
         \/ UNCHANGED pool /\ Happens("faults")
      /\ UNCHANGED <<history, call, batch>>

(* TxManager.Send: publishes again, ends with a receipt, or gives up a nonce that is gone *)
(* (publishing under it is refused, and changes nothing).                                  *)
NonceUsed == batch.nonce < Len(inbox)
Mined == NonceUsed /\ inbox[batch.nonce + 1] = batch.bundle

Republish == pc = "wait" /\ ~ NonceUsed /\ pc' = "append" /\ UNCHANGED batch
Confirmed == pc = "wait" /\ Mined /\ pc' = "poll" /\ batch' = NoBatch
GiveUp == pc = "wait" /\ NonceUsed /\ ~ Mined /\ pc' = "poll" /\ batch' = NoBatch

AwaitSend == (Republish \/ Confirmed \/ GiveUp) /\ UNCHANGED <<history, call, pool, used>>

(* A call fails and the loop starts over. *)
CallFails ==
  /\ pc \in {"find", "fetch", "craft"} /\ Happens("faults")
  /\ pc' = "poll" /\ call' = NoCall /\ batch' = NoBatch
  /\ UNCHANGED <<history, pool>>

(* The submitter is stopped or crashes; a write it was about to make may have truncated the *)
(* file, since Stop does not wait for the publications of the transaction manager.          *)
Stop ==
  /\ pc # "down" /\ Happens("restarts")
  /\ history' \in {history} \cup (IF pc = "append" THEN {Torn, <<Genesis>>} ELSE {})
  /\ pc' = "down" /\ call' = NoCall /\ batch' = NoBatch
  /\ UNCHANGED pool

(* It is started: with the keys and addresses of its configuration, after dialling L1, L2 and *)
(* the rollup node, opening the history, which does not read it, and asking L1 for its chain  *)
(* ID.  When one of these fails the process ends.                                             *)
NewBatchSubmitter ==
  /\ pc = "down"
  /\ \/ pc' = "poll" /\ UNCHANGED used
     \/ Happens("faults") /\ UNCHANGED pc
  /\ UNCHANGED <<history, call, batch, pool>>

Main == NewBatchSubmitter \/ Stop

Submitter ==
  \/ Poll \/ FindCommon \/ FetchBlock \/ Answer \/ Craft \/ AppendHistory \/ SendL1
  \/ AwaitSend

Init ==
  /\ l2 = Genesis /\ history = <<Genesis>>
  /\ pc = "down" /\ call = NoCall /\ batch = NoBatch
  /\ pool = {} /\ inbox = <<>>
  /\ used = [m \in Mishaps |-> 0]

Next ==
  \/ L2
  \/ L1Include
  \/ (Submitter \/ CallFails \/ Main) /\ UNCHANGED <<l2Vars, inbox>>

Spec == Init /\ [][Next]_vars

(***************************************************************************)
(* The loop goes on, and L1 includes a transaction with the next nonce.    *)
(***************************************************************************)
Fairness == WF_vars(Submitter /\ UNCHANGED <<l2Vars, inbox>>) /\ WF_vars(L1Include)

FairSpec == Spec /\ Fairness

-----------------------------------------------------------------------------
Blocks == {b \in Seq([size : Nat, fork : Nat]) : Len(b) <= MaxL2}

(* The types of all variables. *)
TypeOK ==
  /\ l2 \in Blocks /\ history \in Seq(Blocks) /\ Len(history) <= MaxEntries
  /\ pc \in {"down", "poll", "find", "fetch", "craft", "append", "send", "wait"}
  /\ call \in [found : Blocks, next : Nat, candidates : Seq(Blocks), total : Nat]
  /\ batch \in [last : Blocks, bundle : Seq(Blocks), nonce : Nat]
  /\ pool \subseteq [nonce : Nat, bundle : Seq(Blocks)] /\ inbox \in Seq(Seq(Blocks))
  /\ used \in [Mishaps -> Nat]

Submitted ==
  Range(inbox) \cup {tx.bundle : tx \in pool}
    \cup (IF pc \in {"append", "send", "wait"} THEN {batch.bundle} ELSE {})

(***************************************************************************)
(* The history names blocks that are in flight or confirmed: the batch of  *)
(* every block it builds on is on L1, known to L1 nodes, or in the hands   *)
(* of a Send that goes on trying.  BatchBundleRequest relies on it, since  *)
(* the next bundle starts after the newest of them.                        *)
(***************************************************************************)
HistorySubmitted ==
  \A i \in DOMAIN history : \A n \in 1 .. Len(history[i]) :
    LET block == SubSeq(history[i], 1, n)
    IN  IsEmpty(block) \/ \E bundle \in Submitted : Contains(bundle, block)

Never(ms) == \A m \in ms : used[m] = 0

(***************************************************************************)
(* HistorySubmitted as far as it holds: for a submitter that is never      *)
(* restarted, when L2 does not re-org in the middle of a GetBatchBundle    *)
(* call; whatever calls fail, publications overlap and L2 does otherwise.  *)
(***************************************************************************)
NoBlockSkipped == Never({"restarts", "callReorgs"}) => HistorySubmitted

(***************************************************************************)
(* Limits are kept: the greedy size estimate of GetBatchBundle never is    *)
(* too low, so that the bundle it has selected never needs pruning, and    *)
(* the history file, written again by every AppendEntry, never exceeds     *)
(* MaxEntries (in TypeOK).                                                 *)
(***************************************************************************)
LimitsKept == TypeOK /\ Pruned(call.candidates) = call.candidates

(* Whether GetBatchBundle stops with batches whose estimate reaches the minimum (api.go:206) *)
(* while their bundle does not (line 263), because the next batch does not fit.               *)
Misjudged(window) ==
  \E n \in 1 .. Len(window) - 1 :
    LET chosen == SubSeq(window, 1, n)
        total == FoldLeft(LAMBDA sum, b : sum + EncodedSize(BatchSize(b)), 0, Batches(chosen))
    IN  /\ ~ IsEmpty(window[n + 1]) /\ TooLarge(total, window[n + 1])
        /\ MinSize <= total /\ total <= MaxSize
        /\ BundleSize(chosen) < MinSize

(* Blocks wait that a bundle could hold and that reach the minimum. *)
Overdue ==
  \E i \in DOMAIN history :
    LET found == history[i]
        last == IF Len(l2) <= Len(found) + MaxL2BlocksPerBatchResponse THEN Len(l2)
                ELSE Len(found) + MaxL2BlocksPerBatchResponse
        window == [k \in 1 .. last - Len(found) |-> SubSeq(l2, 1, Len(found) + k)]
    IN  /\ IsCanonical(found) /\ \A j \in i + 1 .. Len(history) : ~ IsCanonical(history[j])
        /\ Batches(window) # <<>> /\ BundleSize(window) >= MinSize
        /\ \A k \in DOMAIN window : EncodedSize(BatchSize(window[k])) <= MaxSize
        /\ ~ Misjudged(window)

(***************************************************************************)
(* No live lock: blocks whose batches together reach the minimum size, and *)
(* each of which fits into a bundle, do not stay unsubmitted for ever (if  *)
(* the history still names a canonical block to continue from, and the     *)
(* submitter is not down).  The comment at api.go:200-205 claims it for    *)
(* all of them, but compares an estimate where the bundle's own size       *)
(* counts: the batches it misjudges stay for ever, and no others do.       *)
(***************************************************************************)
NoLiveLock == []<>(~ Overdue \/ pc = "down")
=============================================================================
