------------------------------ MODULE MCFanout ------------------------------
(* The for-each state on a small instance. *)
EXTENDS Fanout, TLC

CONSTANTS w1, w2

MCWorkers == {w1, w2}
=============================================================================
