----------------------------- MODULE MCProposer -----------------------------
(* Instances of Proposer for TLC. *)
EXTENDS Proposer

Within(bounds) == {u \in [Mishaps -> 0 .. 1] : \A m \in Mishaps : u[m] <= bounds[m]}
Counts(r, f, d, s) ==
  [m \in Mishaps |-> CASE m = "reorgs" -> r [] m = "faults" -> f [] m = "deletes" -> d
                       [] OTHER -> s]

(* A reorg and a restart, or a failed call, a deletion and a restart. *)
MCAllowed == Within(Counts(1, 0, 0, 1)) \cup Within(Counts(0, 1, 1, 1))
=============================================================================
