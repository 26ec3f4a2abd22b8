----------------------------- MODULE MCBatcher -----------------------------
(* Instances of Batcher for TLC. *)
EXTENDS Batcher

Within(bounds) == {u \in [Mishaps -> 0 .. 1] : \A m \in Mishaps : u[m] <= bounds[m]}
Counts(r, c, f, o, s) ==
  [m \in Mishaps |-> CASE m = "reorgs" -> r [] m = "callReorgs" -> c [] m = "faults" -> f
                       [] m = "overlaps" -> o [] OTHER -> s]

SomeAllowed == Within(Counts(1, 0, 1, 0, 0)) \cup Within(Counts(1, 0, 0, 1, 0))
                 \cup Within(Counts(0, 1, 0, 0, 0)) \cup Within(Counts(0, 0, 0, 0, 1))
=============================================================================
