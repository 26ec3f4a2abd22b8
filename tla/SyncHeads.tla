------------------------------ MODULE SyncHeads ------------------------------
(***************************************************************************)
(* What FindL2Heads (op-node/rollup/sync/start.go) returns when the L1     *)
(* chain does not move during the search.  The module SyncStart models the *)
(* two loops query by query and is compared with these definitions.        *)
(***************************************************************************)
EXTENDS Blocks, FiniteSets, FiniteSetsExt

CONSTANTS
  SeqWindowSize,  \* rollup.Config.SeqWindowSize: L1 blocks per sequencing window
  MaxReorgDepth   \* sync.MaxReorgDepth

(* Config.Check refuses smaller windows. *)
ASSUME SeqWindowSizeAssumption == SeqWindowSize \in Nat /\ SeqWindowSize >= 2
ASSUME MaxReorgDepthAssumption == MaxReorgDepth \in Nat \ {0}

(***************************************************************************)
(* Both loops act only where the origin changes on the way back from       *)
(* start: at start itself and at the last block of every earlier epoch.    *)
(***************************************************************************)
EpochEnds(start) ==
  {n \in 0 .. Number(start) :
     n < Number(start) => OriginAt(start, n) # OriginAt(start, n + 1)}

(***************************************************************************)
(* Loop 1 stops at the first of these whose origin is canonical.  The L2   *)
(* genesis is one, unless L1 itself is not the configured chain            *)
(* (WrongChainErr, which cannot happen when L1 extends the L1 genesis).    *)
(***************************************************************************)
HighestCanonical(start, l1) ==
  Max({n \in EpochEnds(start) : IsCanonical(OriginAt(start, n), l1)})

(* isAheadOrCanonical, its first result. *)
Plausible(origin, l1) == Number(origin) > Len(l1) \/ IsCanonical(origin, l1)

(* highestPlausibleCanonicalOrigin: reset by every implausible origin on the way. *)
UnsafeHead(start, l1) ==
  LET ends == {n \in EpochEnds(start) : n >= HighestCanonical(start, l1)}
  IN  Ancestor(start, Max({n \in ends :
        \A m \in ends : m <= n => Plausible(OriginAt(start, m), l1)}))

(* Mutant: counts one epoch too few. *)
SafeHeadTooHigh(start, l1) ==
  LET top == HighestCanonical(start, l1)
      Depth(n) == Cardinality({m \in EpochEnds(start) : n <= m /\ m <= top})
      reached == {n \in EpochEnds(start) : n <= top /\ Depth(n) = SeqWindowSize - 1}
  IN  IF reached = {} THEN Genesis ELSE Ancestor(start, Max(reached))

(***************************************************************************)
(* Loop 2 counts epochs back from there, its own epoch being the first, up *)
(* to the SeqWindowSize-th; the L2 genesis if there are fewer.             *)
(***************************************************************************)
SafeHead(start, l1) ==
  LET top == HighestCanonical(start, l1)
      Depth(n) == Cardinality({m \in EpochEnds(start) : n <= m /\ m <= top})
      reached == {n \in EpochEnds(start) : n <= top /\ Depth(n) = SeqWindowSize}
  IN  IF reached = {} THEN Genesis ELSE Ancestor(start, Max(reached))

(* TooDeepReorgErr. *)
ReorgTooDeep(start, l1) ==
  Number(start) - HighestCanonical(start, l1) >= MaxReorgDepth
=============================================================================
