--------------------------- MODULE MCCredentials ---------------------------
(* One credential on small instances. *)
EXTENDS Credentials, TLC

CONSTANTS a1, a2

Symmetry == Permutations({a1, a2})
=============================================================================
