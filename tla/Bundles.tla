------------------------------- MODULE Bundles -------------------------------
(***************************************************************************)
(* The pure part of batch submission: which L2 blocks go into a bundle     *)
(* (BundleBuilder and GetBatchBundle in op-node/node) and what the batch   *)
(* submitter remembers of them (History in op-batcher/db).                 *)
(*                                                                         *)
(* An L2 block is the sequence of the entries from the first block after   *)
(* genesis to itself, an entry holds the size of the block's batch (0 when *)
(* it has none) and the L2 fork that built it.  A candidate is a block.    *)
(***************************************************************************)
EXTENDS Naturals, SequencesExt

CONSTANTS
  MinSize, MaxSize,             \* of a bundle
  MaxL2BlocksPerBatchResponse,
  MaxEntries,                   \* of the history
  ShortList                     \* the longest RLP payload with a one-byte header

ASSUME BundlesAssumption ==
  /\ MinSize \in Nat /\ MaxSize \in Nat /\ ShortList \in Nat
  /\ MaxL2BlocksPerBatchResponse \in Nat \ {0} /\ MaxEntries \in Nat \ {0}

Genesis == <<>>
BatchSize(block) == IF block = Genesis THEN 0 ELSE Last(block).size
IsEmpty(block) == BatchSize(block) = 0

(* EncodeBatches: the bundle type, the RLP header of the list, and the batches. *)
EncodedSize(sum) == 1 + (IF sum <= ShortList THEN 1 ELSE 2) + sum
Batches(candidates) == SelectSeq(candidates, LAMBDA b : ~ IsEmpty(b))
BundleSize(candidates) ==
  EncodedSize(FoldLeft(LAMBDA sum, b : sum + BatchSize(b), 0, candidates))

(* Mutant: the estimate leaves out the candidate. *)
TooLargeWithoutNext(total, block) == total > MaxSize

(* The size estimate of GetBatchBundle with one more batch. *)
TooLarge(total, block) == total + EncodedSize(BatchSize(block)) > MaxSize

(* What PruneLastNonEmpty can make of the candidates, and the first of it that fits. *)
Prunings(candidates) ==
  {candidates} \cup
  {SubSeq(candidates, 1, i - 1) : i \in {j \in DOMAIN candidates : ~ IsEmpty(candidates[j])}}

Pruned(candidates) ==
  LET fit == {p \in Prunings(candidates) : Batches(p) = <<>> \/ BundleSize(p) <= MaxSize}
  IN  CHOOSE p \in fit : \A q \in fit : Len(q) <= Len(p)

LastOf(prev, candidates) == IF candidates = <<>> THEN prev ELSE Last(candidates)

(* Mutant: only pruning lifts the minimum. *)
IgnoreMinSizePruned(candidates, hasLargeNextBatch) == Pruned(candidates) # candidates

IgnoreMinSize(candidates, hasLargeNextBatch) ==
  Pruned(candidates) # candidates \/ hasLargeNextBatch

(* Whether GetBatchBundle answers nil: a bundle that is not worth submitting yet. *)
Undersized(candidates, hasLargeNextBatch) ==
  /\ Batches(Pruned(candidates)) # <<>>
  /\ ~ IgnoreMinSize(candidates, hasLargeNextBatch)
  /\ BundleSize(candidates) < MinSize

(* Otherwise its response; a bundle is the blocks whose batches it holds. *)
Response(prev, candidates) ==
  [last |-> LastOf(prev, Pruned(candidates)), bundle |-> Batches(Pruned(candidates))]

-----------------------------------------------------------------------------
AppendEntry(history, block) ==
  LET longer == Append(history, block)
      excess == IF Len(longer) > MaxEntries THEN Len(longer) - MaxEntries ELSE 0
  IN  IF Contains(history, block) THEN history ELSE SubSeq(longer, excess + 1, Len(longer))

(* Newest first: the code sorts a copy by number and then does not use it. *)
Ancestors(history) == Reverse(history)
=============================================================================
