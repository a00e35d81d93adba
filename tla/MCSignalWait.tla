----------------------------- MODULE MCSignalWait -----------------------------
(***************************************************************************)
(* Model-checking instances of SignalWait.                                 *)
(***************************************************************************)
EXTENDS SignalWait, TLC

CONSTANTS i1, r1, r2, r3, c1, c2, w1, w2, k

\* Requests that share one semantic key, save r3 that has its own.
SharedKey == [r \in Requests |-> IF r = r3 THEN r3 ELSE k]

Symmetry == Permutations(Consumers) \cup Permutations(Workers)
               \cup Permutations(Requests \ {r3})

===============================================================================
