------------------------------- MODULE MCDriver -------------------------------
(***************************************************************************)
(* Small instances of the driver.  An L1 block that carries "b" holds      *)
(* batches for every epoch; derivation picks those of the window's epoch.  *)
(***************************************************************************)
EXTENDS DriverRefinement

(* The counts of mishaps that stay within the bounds given for some of them. *)
Within(bounds) ==
  {c \in [Mishaps -> 0 .. 2] :
     \A m \in Mishaps : c[m] <= IF m \in DOMAIN bounds THEN bounds[m] ELSE 0}

(***************************************************************************)
(* Signals out of order, or failing engine calls, around a reorg; and a    *)
(* node that sequences and whose engine calls fail.                        *)
(***************************************************************************)
DriverAllowed ==
  Within([reorgs |-> 1, losses |-> 1]) \cup Within([reorgs |-> 1, overtakes |-> 1])
    \cup Within([reorgs |-> 1, faults |-> 1, payloads |-> 1])
    \cup Within([faults |-> 1, ticks |-> 2])

(* What a verifier must recover from. *)
RecoveryAllowed == Within([reorgs |-> 1]) \cup Within([faults |-> 2, restarts |-> 1])

(* A single reorg, and a peer's block that arrives before its signal. *)
ReorgAndPayloadAllowed == Within([reorgs |-> 1, payloads |-> 1])

(* Two batches for each epoch, which start at the epoch's own L1 time. *)
AllBatches ==
  [i \in 1 .. 2 * MaxL1 |->
     [epoch |-> (i + 1) \div 2, time |-> i - (i - 1) \div 2, txs |-> "u"]]

MCBatchesOf == [p \in Payload |-> IF p = "b" THEN AllBatches ELSE <<>>]
=============================================================================
