----------------------------- MODULE RateBucket -----------------------------
(***************************************************************************)
(* The token bucket of a connector operation, as claim_one_activity in the *)
(* server's activity.rs refills it and takes from it under the lock of its *)
(* row.  The instant a claim calls now is read by its first statement,     *)
(* before it waits for that lock.  A token is Interval units, so that the  *)
(* fractions of the numeric column are whole numbers.                      *)
(***************************************************************************)
EXTENDS Integers, Sequences

CONSTANTS
    Burst,      \* rate.burst
    Interval    \* rate.refill_interval_ms

ASSUME RateBucketAssumption == {Burst, Interval} \subseteq Nat \ {0}

Lesser(a, b) == IF a <= b THEN a ELSE b
Greater(a, b) == IF a >= b THEN a ELSE b

NewBucket(now) == [tokens |-> Burst * Interval, last |-> now]

\* Mutation of Refilled: the bucket forgets when it was refilled.
RefilledAgain(bucket, now) ==
    [bucket EXCEPT !.tokens = Lesser(Burst * Interval,
                                     @ + Greater(0, now - bucket.last))]

\* UPDATE donat.process_capacity_buckets
Refilled(bucket, now) ==
    [tokens |-> Lesser(Burst * Interval,
                       bucket.tokens + Greater(0, now - bucket.last)),
     last |-> now]

BucketHasToken(bucket) == bucket.tokens >= Interval
Taken(bucket) == [bucket EXCEPT !.tokens = @ - Interval]

\* next_token_at, of the refilled bucket.
NextTokenAt(bucket, now) == now + Greater(0, Interval - bucket.tokens)

\* A claim at this instant gets the row.  One deferred for lack of room takes
\* no token.
Claimed(state, claim) ==
    LET bucket == Refilled(state.bucket, claim.now)
    IN  IF BucketHasToken(bucket) /\ ~claim.busy
        THEN [bucket |-> Taken(bucket), taken |-> state.taken + 1]
        ELSE [bucket |-> bucket, taken |-> state.taken]

\* The bucket and the tokens taken after these claims, in the order they got
\* the row.
AfterClaims(claims) ==
    LET run[n \in 0..Len(claims)] ==
            IF n = 0 THEN [bucket |-> NewBucket(claims[1].now), taken |-> 0]
            ELSE Claimed(run[n - 1], claims[n])
    IN  run[Len(claims)]

=============================================================================
