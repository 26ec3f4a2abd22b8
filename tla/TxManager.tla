------------------------------ MODULE TxManager ------------------------------
(***************************************************************************)
(* SimpleTxManager.Send and SendState (op-proposer/txmgr): one logical     *)
(* transaction, published again and again with other gas prices under one  *)
(* nonce until one version confirms.  Every publication is a goroutine;    *)
(* they share SendState, the cancellation of their context and a channel   *)
(* for one receipt with the event loop of Send.                            *)
(***************************************************************************)
EXTENDS Naturals, Sequences

CONSTANTS
  NumConfirmations,
  SafeAbortNonceTooLowCount,
  NotFoundAnswers, \* how clients answer when there is no receipt: ethclient with "error"
  Versions,        \* the versions of the transaction, one per gas price
  Rivals,          \* transactions of others that may take the nonce
  NoTx,
  MaxSends,        \* bound: publications at a time
  MaxEmpty,        \* bound: L1 blocks before the nonce is used
  MaxMishaps       \* bound: L1 reorgs and failed calls to L1

(* NewSimpleTxManager and NewSendState panic on zero. *)
ASSUME TxManagerAssumption ==
  /\ NumConfirmations \in Nat \ {0} /\ SafeAbortNonceTooLowCount \in Nat \ {0}
  /\ NotFoundAnswers \subseteq {"error", "nil"}
  /\ NoTx \notin Versions \cup Rivals /\ Versions \cap Rivals = {}
  /\ MaxSends \in Nat /\ MaxEmpty \in Nat /\ MaxMishaps \in Nat

Sends == 1 .. MaxSends

VARIABLES
  chain,       \* per L1 block, the transaction with our nonce it holds, or NoTx
  pool,        \* versions that L1 nodes know and may include
  reorgs, faults,
  pubs,        \* per publication where its goroutine is, what it publishes, and the
               \* receipt's block between the two queries of waitMined
  minedTxs, nonceTooLowCount,  \* SendState
  canceled,    \* whether ctxc is done
  shutdown,    \* whether the caller canceled it
  receiptChan, \* the receipt in the channel, or NoTx
  main,        \* Send: "loop", "return" (deferred cancel and Wait) or "done"
  result       \* what Send returns: a transaction, or NoTx for ctxc.Err()

l1Vars == <<chain, pool, reorgs>>
sendState == <<minedTxs, nonceTooLowCount>>
loopVars == <<main, result>>
vars == <<l1Vars, faults, pubs, sendState, canceled, shutdown, receiptChan, loopVars>>

Idle == [at |-> "idle", tx |-> NoTx, height |-> 0]

(* The types of all variables. *)
TypeOK ==
  /\ chain \in Seq({NoTx} \cup Rivals \cup Versions) /\ pool \subseteq Versions
  /\ reorgs \in Nat /\ faults \in Nat /\ reorgs + faults <= MaxMishaps
  /\ pubs \in [Sends -> [at : {"idle", "price", "send", "abort?", "receipt", "tip", "tick",
                               "report"},
                         tx : Versions \cup {NoTx}, height : Nat]]
  /\ minedTxs \subseteq Versions /\ nonceTooLowCount \in 0 .. SafeAbortNonceTooLowCount
  /\ canceled \in BOOLEAN /\ shutdown \in BOOLEAN
  /\ receiptChan \in Versions \cup {NoTx}
  /\ main \in {"loop", "return", "done"} /\ result \in Versions \cup {NoTx}

-----------------------------------------------------------------------------
(* L1. *)
NonceUsed == \E h \in DOMAIN chain : chain[h] # NoTx
IsMined(tx) == \E h \in DOMAIN chain : chain[h] = tx
MinedAt(tx) == CHOOSE h \in DOMAIN chain : chain[h] = tx
Confirmed(tx) == IsMined(tx) /\ Len(chain) >= MinedAt(tx) + NumConfirmations - 1

Include ==
  /\ ~ NonceUsed
  /\ \E tx \in pool \cup Rivals : chain' = Append(chain, tx)
  /\ pool' = {} /\ UNCHANGED reorgs

Extend ==
  /\ \/ Len(chain) < MaxEmpty
     \/ \E h \in DOMAIN chain : chain[h] # NoTx /\ Len(chain) < h + NumConfirmations
  /\ chain' = Append(chain, NoTx)
  /\ UNCHANGED <<pool, reorgs>>

(* The last blocks are replaced by empty ones; what they held may be forgotten. *)
Reorg ==
  /\ reorgs + faults < MaxMishaps /\ reorgs' = reorgs + 1
  /\ \E n \in 0 .. Len(chain) - 1 :
       /\ chain' = [h \in DOMAIN chain |-> IF h <= n THEN chain[h] ELSE NoTx]
       /\ pool' \in {pool, pool \cup ({chain[h] : h \in n + 1 .. Len(chain)} \cap Versions)}

L1 ==
  /\ Include \/ Extend \/ Reorg
  /\ UNCHANGED <<faults, pubs, sendState, canceled, shutdown, receiptChan, loopVars>>

(* A call to L1 fails. *)
Fault == reorgs + faults < MaxMishaps /\ faults' = faults + 1

-----------------------------------------------------------------------------
(* sendTxAsync of publication i, from one call or lock to the next. *)
At(i, label) == pubs[i].at = label
Goto(i, label) == pubs' = [pubs EXCEPT ![i].at = label]
Exit(i) == pubs' = [pubs EXCEPT ![i] = Idle]

(* updateGasPrice: the version depends on the prices at that time, which may not have moved. *)
UpdateGasPrice(i) ==
  /\ At(i, "price")
  /\ \/ Exit(i) /\ Fault
     \/ Exit(i) /\ canceled /\ UNCHANGED faults
     \/ /\ \E tx \in Versions : pubs' = [pubs EXCEPT ![i] = [@ EXCEPT !.at = "send", !.tx = tx]]
        /\ UNCHANGED faults
  /\ UNCHANGED <<pool, sendState, canceled, receiptChan>>

(* Mutant: counts every error. *)
ProcessSendErrorAny(nonceTooLow) ==
  nonceTooLowCount' = IF nonceTooLowCount < SafeAbortNonceTooLowCount
                      THEN nonceTooLowCount + 1 ELSE nonceTooLowCount

(* Only whether the threshold is reached matters, so the count stops there. *)
ProcessSendError(nonceTooLow) ==
  nonceTooLowCount' = IF nonceTooLow /\ nonceTooLowCount < SafeAbortNonceTooLowCount
                      THEN nonceTooLowCount + 1 ELSE nonceTooLowCount

(* L1 refuses a used nonce, and may refuse a version when it has one already (known, or *)
(* priced too low to replace it).                                                        *)
SendTx(i) ==
  /\ At(i, "send")
  /\ \/ /\ canceled
        /\ Exit(i) /\ UNCHANGED <<pool, nonceTooLowCount, faults>>
     \/ /\ Fault /\ pool' \in {pool, IF NonceUsed THEN pool ELSE pool \cup {pubs[i].tx}}
        /\ ProcessSendError(FALSE) /\ Goto(i, "abort?")
     \/ /\ NonceUsed \/ pool # {}
        /\ ProcessSendError(NonceUsed) /\ Goto(i, "abort?")
        /\ UNCHANGED <<pool, faults>>
     \/ /\ ~ NonceUsed /\ pubs[i].tx \notin pool
        /\ pool' = pool \cup {pubs[i].tx}
        /\ Goto(i, "receipt") /\ UNCHANGED <<nonceTooLowCount, faults>>
  /\ UNCHANGED <<minedTxs, canceled, receiptChan>>

ShouldAbortImmediately == minedTxs = {} /\ nonceTooLowCount >= SafeAbortNonceTooLowCount

CheckAbort(i) ==
  /\ At(i, "abort?")
  /\ canceled' = (canceled \/ ShouldAbortImmediately)
  /\ Exit(i)
  /\ UNCHANGED <<pool, faults, sendState, receiptChan>>

-----------------------------------------------------------------------------
(* waitMined. *)
TxMined(tx) == minedTxs' = minedTxs \cup {tx} /\ UNCHANGED nonceTooLowCount

TxNotMined(tx) ==
  /\ minedTxs' = minedTxs \ {tx}
  /\ nonceTooLowCount' = IF minedTxs = {tx} THEN 0 ELSE nonceTooLowCount

QueryReceipt(i) ==
  LET tx == pubs[i].tx
  IN  /\ At(i, "receipt")
      /\ \/ /\ IsMined(tx) /\ TxMined(tx)
            /\ pubs' = [pubs EXCEPT ![i] = [@ EXCEPT !.at = "tip", !.height = MinedAt(tx)]]
            /\ UNCHANGED faults
         \/ /\ ~ IsMined(tx) /\ "nil" \in NotFoundAnswers /\ TxNotMined(tx)
            /\ Goto(i, "tick")
            /\ UNCHANGED faults
         \/ /\ Fault \/ (~ IsMined(tx) /\ "error" \in NotFoundAnswers /\ UNCHANGED faults)
            /\ Goto(i, "tick")
            /\ UNCHANGED sendState
      /\ UNCHANGED <<pool, canceled, receiptChan>>

(* Mutant: one confirmation too few. *)
EnoughConfirmationsOneLess(height) == height + NumConfirmations <= Len(chain) + 2

EnoughConfirmations(height) == height + NumConfirmations <= Len(chain) + 1

QueryTip(i) ==
  LET done == EnoughConfirmations(pubs[i].height)
      next(label) == pubs' = [pubs EXCEPT ![i] = [@ EXCEPT !.at = label, !.height = 0]]
  IN  /\ At(i, "tip")
      /\ \/ next("tick") /\ Fault
         \/ next(IF done THEN "report" ELSE "tick") /\ UNCHANGED faults
      /\ UNCHANGED <<pool, sendState, canceled, receiptChan>>

(* The select at the end of the loop: the ticker, or the canceled context. *)
AwaitTick(i) ==
  /\ At(i, "tick")
  /\ Goto(i, "receipt")
  /\ UNCHANGED <<pool, faults, sendState, canceled, receiptChan>>

AwaitCancel(i) ==
  /\ At(i, "tick") /\ canceled
  /\ Exit(i)
  /\ UNCHANGED <<pool, faults, sendState, canceled, receiptChan>>

(* Mutant: a send on the channel that blocks. *)
ReportBlocking(i) ==
  /\ At(i, "report") /\ receiptChan = NoTx
  /\ receiptChan' = pubs[i].tx
  /\ Exit(i)
  /\ UNCHANGED <<pool, faults, sendState, canceled>>

(* A send on the channel that does not block when it is full. *)
Report(i) ==
  /\ At(i, "report")
  /\ receiptChan' = IF receiptChan = NoTx THEN pubs[i].tx ELSE receiptChan
  /\ Exit(i)
  /\ UNCHANGED <<pool, faults, sendState, canceled>>

Publication(i) ==
  /\ \/ UpdateGasPrice(i) \/ SendTx(i) \/ CheckAbort(i)
     \/ QueryReceipt(i) \/ QueryTip(i) \/ AwaitTick(i) \/ AwaitCancel(i)
     \/ Report(i)
  /\ UNCHANGED <<chain, reorgs, shutdown, loopVars>>

-----------------------------------------------------------------------------
(* The event loop of Send.  A publication starts at once, and after every timeout *)
(* unless a version is known to be mined.                                         *)
IsWaitingForConfirmation == minedTxs # {}

Resubmit ==
  /\ main = "loop" /\ ~ IsWaitingForConfirmation
  /\ \E i \in Sends :
       /\ At(i, "idle") /\ \A j \in 1 .. i - 1 : ~ At(j, "idle")
       /\ Goto(i, "price")
  /\ UNCHANGED <<l1Vars, faults, sendState, canceled, shutdown, receiptChan, loopVars>>

ReturnCanceled ==
  /\ main = "loop" /\ canceled
  /\ main' = "return" /\ result' = NoTx
  /\ UNCHANGED <<canceled, receiptChan>>

ReturnReceipt ==
  /\ main = "loop" /\ receiptChan # NoTx
  /\ main' = "return" /\ result' = receiptChan
  /\ receiptChan' = NoTx
  /\ canceled' = TRUE

(* wg.Wait() *)
Wait ==
  /\ main = "return" /\ \A i \in Sends : At(i, "idle")
  /\ main' = "done"
  /\ UNCHANGED <<canceled, receiptChan, result>>

EventLoop ==
  /\ ReturnCanceled \/ ReturnReceipt \/ Wait
  /\ UNCHANGED <<l1Vars, faults, pubs, sendState, shutdown>>

(* The service stops. *)
Shutdown ==
  /\ main = "loop" /\ ~ shutdown
  /\ shutdown' = TRUE /\ canceled' = TRUE
  /\ UNCHANGED <<l1Vars, faults, pubs, sendState, receiptChan, loopVars>>

Init ==
  /\ chain = <<>> /\ pool = {} /\ reorgs = 0 /\ faults = 0
  /\ pubs = [i \in Sends |-> IF i = 1 THEN [Idle EXCEPT !.at = "price"] ELSE Idle]
  /\ minedTxs = {} /\ nonceTooLowCount = 0
  /\ canceled = FALSE /\ shutdown = FALSE
  /\ receiptChan = NoTx
  /\ main = "loop" /\ result = NoTx

Next ==
  \/ L1
  \/ \E i \in Sends : Publication(i)
  \/ Resubmit
  \/ EventLoop
  \/ Shutdown

Spec == Init /\ [][Next]_vars

(***************************************************************************)
(* Goroutines and the loop go on, timeouts elapse, a select does not       *)
(* ignore a ready case for ever, a transaction that L1 nodes know is       *)
(* included in the end, and L1 grows until it confirms.                    *)
(***************************************************************************)
Fairness ==
  /\ \A i \in Sends : WF_vars(Publication(i)) /\ SF_vars(AwaitCancel(i) /\ Publication(i))
  /\ WF_vars(Resubmit) /\ WF_vars(EventLoop)
  /\ WF_vars(Include /\ L1) /\ WF_vars(Extend /\ L1)

FairSpec == Spec /\ Fairness

-----------------------------------------------------------------------------
(***************************************************************************)
(* A receipt that Send returns belongs to a transaction with the required  *)
(* confirmations on L1, unless L1 re-orged meanwhile (and the state keeps  *)
(* its types).                                                             *)
(***************************************************************************)
ReceiptConfirmed ==
  /\ TypeOK
  /\ main # "loop" /\ result # NoTx /\ reorgs = 0 => Confirmed(result)

(***************************************************************************)
(* Send gives up on its own only when the nonce is gone: a publication     *)
(* that fails for another reason, or was answered once too often, does not *)
(* make it drop a transaction that L1 could still include.                 *)
(***************************************************************************)
GivesUpOnlyUsedNonce ==
  canceled /\ ~ shutdown /\ main = "loop" /\ reorgs = 0 => NonceUsed

(* A reorg removed every version that SendState counts as mined. *)
Orphaned == minedTxs # {} /\ \A tx \in minedTxs : ~ IsMined(tx)

(***************************************************************************)
(* Send returns, with all its goroutines ended, or waits for ever for      *)
(* versions that a reorg removed, and publishes nothing meanwhile.  Its    *)
(* comment promises the first alone (txmgr.go:107, "until the transaction  *)
(* eventually confirms"), and TxNotMined is there to get it out of the     *)
(* second; but a client that answers NotFound with an error, as ethclient  *)
(* does, never takes waitMined to that call.                               *)
(***************************************************************************)
SendReturns == <>(main = "done") \/ <>[]Orphaned
=============================================================================
