-------------------------------- MODULE Blocks --------------------------------
(***************************************************************************)
(* L1 and L2 blocks as the rollup node sees them.                          *)
(*                                                                         *)
(* A block is identified with its whole history, the way a block hash      *)
(* commits to it: an L1 block is the sequence of what each L1 block since  *)
(* the rollup's L1 genesis carries, an L2 block is the sequence of         *)
(* [origin, txs] entries since the L2 genesis.  Equality of hashes is      *)
(* equality of sequences, the number of a block is its length, its parent  *)
(* is its longest proper prefix, and both genesis blocks are the empty     *)
(* sequence.  An L2 entry's sequence number and its deposits are functions *)
(* of the history (they restart at the first block of an epoch and come    *)
(* from the L1 origin), so they need no field of their own.                *)
(***************************************************************************)
EXTENDS Naturals, Sequences

Genesis == <<>>

Number(block) == Len(block)

Ancestor(block, n) == SubSeq(block, 1, n)

Parent(block) == Ancestor(block, Len(block) - 1)

Prefixes(block) == {Ancestor(block, n) : n \in 0 .. Len(block)}

(* What the block itself adds to its history. *)
Last(block) == block[Len(block)]

IsAncestor(a, b) == Len(a) <= Len(b) /\ a = Ancestor(b, Len(a))

(* L2BlockRef.L1Origin: the L1 block whose epoch an L2 block belongs to. *)
L1Origin(block) == IF block = Genesis THEN Genesis ELSE Last(block).origin

OriginAt(block, n) == L1Origin(Ancestor(block, n))

(* A run of consecutive blocks, the first of which is a child of base. *)
Chained(base, run) ==
  \A i \in DOMAIN run :
    /\ run[i] # Genesis
    /\ Parent(run[i]) = IF i = 1 THEN base ELSE run[i - 1]

(***************************************************************************)
(* What the L1 source answers, l1 being the head of the canonical L1 chain.*)
(***************************************************************************)
IsCanonical(block, l1) == IsAncestor(block, l1)

(* NotFound when n is beyond the head. *)
HasL1Block(l1, n) == n <= Len(l1)

L1BlockRefByNumber(l1, n) == Ancestor(l1, n)

(***************************************************************************)
(* Source.L1Range: up to max canonical blocks after begin.  It fails when  *)
(* the block that follows begin by number is not a child of begin; when    *)
(* there is no such block, the range is empty.                             *)
(***************************************************************************)
L1RangeFails(l1, begin) ==
  /\ HasL1Block(l1, Number(begin) + 1)
  /\ ~ IsCanonical(begin, l1)

L1Range(l1, begin, max) ==
  [i \in 1 .. (IF Len(l1) <= Number(begin) THEN 0
               ELSE IF Len(l1) - Number(begin) < max THEN Len(l1) - Number(begin)
               ELSE max) |-> L1BlockRefByNumber(l1, Number(begin) + i)]
=============================================================================
