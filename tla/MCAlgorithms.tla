---------------------------- MODULE MCAlgorithms ----------------------------
(***************************************************************************)
(* The pure algorithms, each against its reference definition over small   *)
(* inputs: the retry horizon, the next occurrence in a timezone and the    *)
(* rate bucket.  A state is one input of one of them; Next goes to the     *)
(* next attempt budget, the next instant or one more claim.                *)
(***************************************************************************)
EXTENDS RetryHorizon, CronZone, RateBucket

CONSTANTS
    MaxAttemptsChecked, MaxDuration,    \* of retry policies
    MaxWidth,                           \* of a transition
    MaxClaims, MaxNow                   \* of a bucket

ASSUME AlgorithmsAssumption ==
    {MaxAttemptsChecked, MaxDuration, MaxWidth, MaxClaims, MaxNow} \subseteq Nat

\* No repeated span is wider than the back-off, a day holds every offset, and the
\* walk has as many candidates as a schedule up to the first of its later times.
ASSUME ZoneAssumption ==
    /\ MaxWidth <= BackOff
    /\ MaxWidth <= Window
    /\ 2 * MaxWidth + 4 <= MaxCandidates

VARIABLE input

-----------------------------------------------------------------------------
TakeoverDelay == 2
Durations == 1..MaxDuration

Policies ==
    {p \in [about : {"retry"}, attempts : {1}, initial : Durations,
            maximum : 1..MaxInt, scheduleToStart : Durations,
            startToClose : Durations] : p.initial <= p.maximum}

\* One transition at instant 0; a schedule around it, with two later times for
\* the ones that never end.
Far == {4 * MaxWidth, 4 * MaxWidth + 1}
Zones == {z \in [at : {0}, before : {0}, after : -MaxWidth..MaxWidth] :
             z.after # 0}
Schedules == {s \cup Far : s \in SUBSET (-MaxWidth..(MaxWidth + 1))}
DstPolicies == [skipped : {"fire_after_gap", "skip"},
                repeated : {"fire_at_first", "fire_at_second"}]
FirstAfter == -(MaxWidth + 1)
LastAfter == 2 * MaxWidth

Occurrences == [about : {"zone"}, schedule : Schedules, zone : Zones,
                dst : DstPolicies, after : {FirstAfter}]

Claims == [now : 0..MaxNow, busy : BOOLEAN]
Buckets == [about : {"bucket"}, claims : {<<c>> : c \in Claims}]

Init == input \in Policies \cup Occurrences \cup Buckets

MoreAttempts ==
    /\ input.about = "retry"
    /\ input.attempts < MaxAttemptsChecked
    /\ input' = [input EXCEPT !.attempts = @ + 1]

Later ==
    /\ input.about = "zone"
    /\ input.after < LastAfter
    /\ input' = [input EXCEPT !.after = @ + 1]

OneMoreClaim ==
    /\ input.about = "bucket"
    /\ Len(input.claims) < MaxClaims
    /\ \E c \in Claims : input' = [input EXCEPT !.claims = Append(@, c)]

Next == MoreAttempts \/ Later \/ OneMoreClaim

Spec == Init /\ [][Next]_input

-----------------------------------------------------------------------------
\* compile_retry_horizon returns exactly the horizon of specification 005, and
\* rejects the policy exactly when that number does not fit an integer: no
\* intermediate product or shortcut of the loop loses or adds a retry.  The delay
\* bound the runtime computes for a retry, shifts and saturation included, is the
\* bound the compiler charged for it.
HorizonIsExact ==
    input.about = "retry" =>
        LET exact == HorizonOf(input.attempts, input.initial, input.maximum,
                               input.scheduleToStart, input.startToClose,
                               TakeoverDelay)
        IN  /\ CompileRetryHorizon(input.attempts, input.initial, input.maximum,
                                   input.scheduleToStart, input.startToClose,
                                   TakeoverDelay)
                 = IF exact > MaxInt THEN Overflow ELSE exact
            /\ RetryDelayUpperMs(input.initial, input.maximum, input.attempts)
                 = BoundOf(input.initial, input.maximum, input.attempts)

Answer == NextInZone(input.schedule, input.zone, input.dst, input.after)

\* next_in_zone returns the earliest run after `after` that decisions 039 and
\* 060 promise: over a gap and over a repeated span, for a named time and for a
\* cadence, no run is lost, repeated or made up, and all the local times a gap
\* swallows have one instant.  `skip` "is explicit, and it is loud": exactly the
\* matching local times of a gap between `after` and that run are reported.
NextIsEarliestRun ==
    input.about = "zone" =>
        /\ Answer.at = {Min({i \in Runs(input.schedule, input.zone, input.dst) :
                                i > input.after})}
        /\ Answer.skipped =
               {c \in input.schedule \cap Swallowed(input.zone) :
                   /\ input.dst.skipped = "skip"
                   /\ input.after < input.zone.at
                   /\ \A i \in Answer.at : input.zone.at <= i}

\* How far each claim's instant lies before that of the claim before it.
SteppedBack(claims) ==
    LET back[n \in 0..Len(claims)] ==
            IF n <= 1 THEN 0
            ELSE back[n - 1] + Greater(0, claims[n - 1].now - claims[n].now)
    IN  back[Len(claims)]

Latest(claims) == Max({claims[n].now : n \in 1..Len(claims)})

\* Claims that get the row in the order of their instants start no more
\* activities than the burst and the time that has passed allow; a claim whose
\* instant is older than the last refill adds no more than the time it waited.
NotTooMany(claims) ==
    AfterClaims(claims).taken * Interval
      <= Burst * Interval + (Latest(claims) - claims[1].now) + SteppedBack(claims)

\* A claim that waited for the row takes nothing from the others: they get at
\* least the tokens they would have had if its instant had been the current one.
CreditNotLost(claims) ==
    LET current == [n \in 1..Len(claims) |->
                       [claims[n] EXCEPT !.now = Latest(SubSeq(claims, 1, n))]]
    IN  AfterClaims(claims).taken >= AfterClaims(current).taken

\* A claim refused for the rate wakes up at the first instant at which there is
\* a token, neither before it, to be refused again, nor after it.
WakesWithToken(bucket, now) ==
    ~BucketHasToken(bucket) =>
        LET wake == NextTokenAt(bucket, now)
        IN  /\ BucketHasToken(Refilled(bucket, wake))
            /\ ~BucketHasToken(Refilled(bucket, wake - 1))

\* The bucket keeps its rate, "maximum `burst`" and "refill rate", although each
\* claim reads the clock before it waits for the row: not too many activities
\* start, no credit is lost, and who is refused comes back when there is a token.
RateKept ==
    input.about = "bucket" =>
        /\ NotTooMany(input.claims)
        /\ CreditNotLost(input.claims)
        /\ WakesWithToken(AfterClaims(input.claims).bucket,
                          input.claims[Len(input.claims)].now)

=============================================================================
