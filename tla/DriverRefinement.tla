--------------------------- MODULE DriverRefinement ---------------------------
(***************************************************************************)
(* The driver against the abstract safe chain.                             *)
(***************************************************************************)
EXTENDS DriverProperties

(* All windows of L1 blocks that begin after an L1 block. *)
WindowsAfter(origin) ==
  {[i \in 1 .. SeqWindowSize |-> origin \o SubSeq(payloads, 1, i)] :
     payloads \in [1 .. SeqWindowSize -> Payload]}

DerivableEpochs(safe) ==
  {EpochEntries(safe, window) : window \in WindowsAfter(L1Origin(safe))}

Abstract == INSTANCE SafeChain WITH safe <- l2SafeHead, EpochsOn <- DerivableEpochs

(***************************************************************************)
(* A driver that runs through implements SafeChain: its safe head moves    *)
(* forward by whole epochs, each derived from one window, and back to ends *)
(* of epochs, even when insertEpoch fails half-way.                        *)
(***************************************************************************)
ImplementsSafeChain == Abstract!Spec
=============================================================================
