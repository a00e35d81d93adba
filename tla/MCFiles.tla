------------------------------- MODULE MCFiles -------------------------------
(***************************************************************************)
(* Model-checking instance of Files.                                       *)
(***************************************************************************)
EXTENDS Files

CONSTANTS f1, f2, o1, o2, q1, q2, c1, c2

=============================================================================
