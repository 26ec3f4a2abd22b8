--------------------------- MODULE DriverProperties ---------------------------
(***************************************************************************)
(* What the driver promises, stated over the module Driver.                *)
(***************************************************************************)
EXTENDS Driver

(***************************************************************************)
(* The L2 chain that a node which only ever saw the L1 chain l would call  *)
(* safe: one epoch per complete sequencing window, in order.               *)
(***************************************************************************)
DerivedChain(l) ==
  LET Window(e) == [i \in 1 .. SeqWindowSize |-> Ancestor(l, e + i - 1)]
      complete == IF Len(l) < SeqWindowSize THEN 0 ELSE Len(l) - SeqWindowSize + 1
      derived[e \in 0 .. complete] ==
        IF e = 0 THEN Genesis
        ELSE derived[e - 1] \o EpochEntries(derived[e - 1], Window(e))
  IN  derived[complete]

(***************************************************************************)
(* The buffered L1 window is an unbroken chain of L1 blocks on top of the  *)
(* safe head's origin, whatever signals, reorgs, failures and restarts     *)
(* have happened.  So the check of insertEpoch that the window extends the *)
(* origin of the safe head, which handleEpoch says it cannot easily make   *)
(* itself, never fails.                                                    *)
(***************************************************************************)
WindowContiguous == Chained(L1Origin(l2SafeHead), l1WindowBuf)

(***************************************************************************)
(* The safe head is an ancestor of the unsafe head, although the two are   *)
(* moved by different handlers and the engine may have gone elsewhere.     *)
(***************************************************************************)
SafeBehindUnsafe == IsAncestor(l2SafeHead, l2Head)

(***************************************************************************)
(* While insertEpoch runs, its local heads are in order, the window it     *)
(* reads from is still in the buffer, and every block it has yet to insert *)
(* or has inserted belongs to the first L1 block of that window.           *)
(***************************************************************************)
EpochInProgress ==
  epoch.busy =>
    /\ IsAncestor(epoch.safe, epoch.head)
    /\ Len(l1WindowBuf) >= SeqWindowSize
    /\ \A i \in DOMAIN epoch.todo : epoch.todo[i].origin = l1WindowBuf[1]
    /\ epoch.todo = <<>> => L1Origin(epoch.safe) = l1WindowBuf[1]

UpToDate == l1Heads = <<>> /\ l1Head = l1

(***************************************************************************)
(* Once every head signal has been handled, the safe head is on the chain  *)
(* that the present L1 chain derives, however the node got there.          *)
(***************************************************************************)
SafeDerived == UpToDate => IsAncestor(l2SafeHead, DerivedChain(l1))

Never(ms) == \A m \in ms : used[m] = 0

(***************************************************************************)
(* SafeDerived as far as it holds: for a verifier that runs through, gets  *)
(* every head signal in order, hears of no unsafe blocks and has no call   *)
(* fail, whatever one reorg does, at any depth and at any moment.          *)
(***************************************************************************)
SafeDerivedAfterReorg ==
  used["reorgs"] <= 1 /\ Never(Mishaps \ {"reorgs"}) => SafeDerived

(***************************************************************************)
(* When L1 settles, the node ends up with every complete window derived.   *)
(***************************************************************************)
CatchesUp == <>[](l2SafeHead = DerivedChain(l1))

(***************************************************************************)
(* As long as L1 does not re-org, every L2 block's origin is its parent's  *)
(* origin or a child of it, as findL1Origin intends.  It asks for the next *)
(* origin by number, so after a reorg it may get one that is not a child.  *)
(***************************************************************************)
OriginsContinuous ==
  Never({"reorgs"}) =>
    \A n \in 1 .. Number(l2Head) :
      \/ OriginAt(l2Head, n) = OriginAt(l2Head, n - 1)
      \/ Parent(OriginAt(l2Head, n)) = OriginAt(l2Head, n - 1)

(***************************************************************************)
(* The engine of a sequencer that runs through is told that a block is     *)
(* safe only when L1 derives that block, also when calls fail and epochs   *)
(* are given up half-way.                                                  *)
(***************************************************************************)
EngineSafeDerived ==
  Never({"reorgs", "losses", "overtakes", "restarts"})
    => IsAncestor(eng.safe, DerivedChain(l1))
=============================================================================
