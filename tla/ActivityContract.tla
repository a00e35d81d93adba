-------------------------- MODULE ActivityContract --------------------------
(***************************************************************************)
(* What a Process may believe of one at-most-once connector activity       *)
(* (ADR 063), with no workers, leases, deadlines or tables: the provider   *)
(* may carry the request out once, and the verdict the Process routes on   *)
(* is never contradicted by what the provider has done or does later.      *)
(***************************************************************************)
CONSTANT Jobs

VARIABLES
    verdict,   \* what the Process is told: open, succeeded, failed, unknown
    done       \* the provider carried the request out

Init ==
    /\ verdict = [j \in Jobs |-> "open"]
    /\ done = [j \in Jobs |-> FALSE]

\* The provider acts at most once, and not any more once the Process has been
\* told of a success or of a failure.
Perform(j) ==
    /\ verdict[j] \in {"open", "unknown"}
    /\ ~done[j]
    /\ done' = [done EXCEPT ![j] = TRUE]
    /\ UNCHANGED verdict

Succeed(j) ==
    /\ verdict[j] = "open"
    /\ done[j]
    /\ verdict' = [verdict EXCEPT ![j] = "succeeded"]
    /\ UNCHANGED done

Fail(j) ==
    /\ verdict[j] = "open"
    /\ ~done[j]
    /\ verdict' = [verdict EXCEPT ![j] = "failed"]
    /\ UNCHANGED done

GiveUp(j) ==
    /\ verdict[j] = "open"
    /\ verdict' = [verdict EXCEPT ![j] = "unknown"]
    /\ UNCHANGED done

Next == \E j \in Jobs : Perform(j) \/ Succeed(j) \/ Fail(j) \/ GiveUp(j)

Spec == Init /\ [][Next]_<<verdict, done>>

=============================================================================
