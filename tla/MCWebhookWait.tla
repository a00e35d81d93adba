---------------------------- MODULE MCWebhookWait ----------------------------
(* Webhook waits on small instances. *)
EXTENDS WebhookWait, TLC

CONSTANTS i1, i2, e1, e2, r1, r2, w1, w2

Symmetry == Permutations({i1, i2}) \cup Permutations({e1, e2}) \cup
            Permutations({r1, r2}) \cup Permutations({w1, w2})
=============================================================================
