------------------------------ MODULE SafeChain ------------------------------
(***************************************************************************)
(* What the driver promises about its safe head, without saying how it     *)
(* finds it: the safe L2 chain grows by whole epochs, each for the L1      *)
(* block after the last epoch's, and shrinks only back to the end of an    *)
(* earlier epoch.  It never jumps to another branch in one step, and       *)
(* nobody sees half an epoch.                                              *)
(***************************************************************************)
EXTENDS Blocks

CONSTANT EpochsOn(_)  \* the epochs that windows of L1 blocks derive on top of a safe block

VARIABLE safe

Init == safe = Genesis

AddEpoch ==
  /\ Number(safe') > Number(safe)
  /\ \E epoch \in EpochsOn(safe) : safe' = safe \o epoch

Rewind ==
  /\ Number(safe') < Number(safe) /\ IsAncestor(safe', safe)
  /\ OriginAt(safe, Number(safe')) # OriginAt(safe, Number(safe') + 1)

Next == AddEpoch \/ Rewind

Spec == Init /\ [][Next]_safe
=============================================================================
