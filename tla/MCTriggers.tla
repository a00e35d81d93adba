----------------------------- MODULE MCTriggers -----------------------------
(* Triggers on small instances. *)
EXTENDS Triggers, TLC

CONSTANTS r1, r2, hook, work, k1, k2

Symmetry == Permutations({r1, r2}) \cup Permutations({k1, k2})
=============================================================================
