------------------------------ MODULE Derivation ------------------------------
(***************************************************************************)
(* The pure part of L2 derivation: which L2 blocks one sequencing window   *)
(* of L1 blocks stands for (op-node/rollup/derive/payload_attributes.go    *)
(* and the middle of insertEpoch in op-node/rollup/driver/step.go).        *)
(*                                                                         *)
(* A batch is [epoch, time, txs].  Times are seconds since the L2 genesis. *)
(* A list of transactions is a single opaque value: the code looks inside  *)
(* it only to reject a list that holds an empty or a deposit-typed         *)
(* transaction, and ForbiddenTxs is the set of such lists.                 *)
(***************************************************************************)
EXTENDS Naturals, Sequences, FiniteSetsExt

CONSTANTS
  BlockTime,          \* rollup.Config.BlockTime: seconds between L2 blocks
  MaxSequencerDrift,  \* rollup.Config.MaxSequencerDrift
  Txs,                \* the transaction lists an L2 block or a batch may hold
  NoTxs,              \* the empty list
  ForbiddenTxs        \* lists with an empty or deposit-typed transaction

ASSUME BlockTimeAssumption == BlockTime \in Nat \ {0}
ASSUME MaxSequencerDriftAssumption == MaxSequencerDrift \in Nat
ASSUME TxsAssumption == NoTxs \in Txs /\ ForbiddenTxs \subseteq Txs \ {NoTxs}

Batch == [epoch : Nat, time : Nat, txs : Txs]

(***************************************************************************)
(* ValidBatch.  The epoch is an L1 block NUMBER: nothing ties a batch to   *)
(* the hash of its epoch's L1 block.                                       *)
(***************************************************************************)
ValidBatch(batch, epoch, minL2Time, maxL2Time) ==
  /\ batch.epoch = epoch
  /\ batch.time % BlockTime = 0
  /\ minL2Time <= batch.time
  /\ batch.time < maxL2Time
  /\ batch.txs \notin ForbiddenTxs

(***************************************************************************)
(* FilterBatches.  lists holds, for each L1 block of the window in order,  *)
(* the batches decoded from it in order; of the valid ones the first for   *)
(* each timestamp is kept.  The result is a set since its only consumer    *)
(* indexes it by timestamp.                                                *)
(***************************************************************************)
FilterBatches(lists, epoch, minL2Time, maxL2Time) ==
  LET places == UNION {{<<i, j>> : j \in DOMAIN lists[i]} : i \in DOMAIN lists}
      At(p) == lists[p[1]][p[2]]
      Before(p, q) == p[1] < q[1] \/ (p[1] = q[1] /\ p[2] < q[2])
      valid == {p \in places : ValidBatch(At(p), epoch, minL2Time, maxL2Time)}
  IN  {At(p) : p \in {q \in valid :
         \A r \in valid : Before(r, q) => At(r).time # At(q).time}}

(***************************************************************************)
(* The last L2 timestamp of the epoch: at least one block, keep up with    *)
(* the next L1 block's time, keep up with the last valid batch.            *)
(***************************************************************************)
NewHeadL2Timestamp(batches, minL2Time, nextL1Time) ==
  Max({minL2Time}
        \cup (IF nextL1Time > minL2Time + BlockTime
              THEN {nextL1Time - BlockTime} ELSE {})
        \cup {b.time : b \in batches})

(***************************************************************************)
(* FillMissingBatches: one transaction list per BlockTime from minL2Time   *)
(* on, empty where no batch claims the slot.                               *)
(***************************************************************************)
FillMissingBatches(batches, minL2Time, nextL1Time) ==
  LET span == NewHeadL2Timestamp(batches, minL2Time, nextL1Time) - minL2Time
      InSlot(i) == {b \in batches : b.time = minL2Time + (i - 1) * BlockTime}
  IN  [i \in 1 .. (span \div BlockTime + 1) |->
         IF InSlot(i) = {} THEN NoTxs ELSE (CHOOSE b \in InSlot(i) : TRUE).txs]

(***************************************************************************)
(* The upper bound on batch timestamps, lifted so that an epoch that       *)
(* starts beyond the drift limit can still hold one batch.                 *)
(***************************************************************************)
MaxL2Time(minL2Time, l1Time) ==
  Max({l1Time + MaxSequencerDrift, minL2Time + BlockTime})

(***************************************************************************)
(* The transaction lists of the L2 blocks of one epoch, on top of a safe   *)
(* head at time safeTime, for an L1 origin with number epoch and time      *)
(* l1Time whose successor has time nextL1Time.                             *)
(***************************************************************************)
EpochTxs(epoch, safeTime, l1Time, nextL1Time, lists) ==
  LET minL2Time == safeTime + BlockTime
  IN  FillMissingBatches(
        FilterBatches(lists, epoch, minL2Time, MaxL2Time(minL2Time, l1Time)),
        minL2Time, nextL1Time)
=============================================================================
