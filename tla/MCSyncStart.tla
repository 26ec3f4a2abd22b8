----------------------------- MODULE MCSyncStart -----------------------------
(***************************************************************************)
(* All L2 chains of up to MaxL2 blocks whose origins advance along one L1  *)
(* branch of up to MaxL1 blocks, against all L1 chains of that length.     *)
(***************************************************************************)
EXTENDS SyncStart

CONSTANTS MaxL1, MaxL2

MCL1Chains == UNION {[1 .. k -> Payload] : k \in 0 .. MaxL1}

(* The epoch number of each block of an L2 chain, rising by at most one. *)
Epochs ==
  UNION {{f \in [1 .. k -> 0 .. MaxL1] :
            \A i \in 1 .. k : LET p == IF i = 1 THEN 0 ELSE f[i - 1]
                              IN  f[i] \in {p, p + 1}} : k \in 0 .. MaxL2}

L2Chain(branch, f) == [i \in DOMAIN f |-> [origin |-> Ancestor(branch, f[i])]]

MCInputs ==
  {L2Chain(b, f) : b \in [1 .. MaxL1 -> Payload], f \in Epochs} \X MCL1Chains \X BOOLEAN
=============================================================================
