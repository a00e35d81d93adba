------------------------------ MODULE Activity ------------------------------
(***************************************************************************)
(* The durable connector activity of the Process runtime                   *)
(* (crates/server/src/processes/activity.rs): the claim protocol, the      *)
(* provider send authorization, the fenced completions, retries, lease     *)
(* takeover and its terminal grace, and the capacity bucket they share.    *)
(*                                                                         *)
(* Every table is shared by any number of engine replicas.  A worker is    *)
(* one execution of consume_one_activity; it may stall anywhere, or crash  *)
(* and lose its memory.  Database transactions are single steps where row  *)
(* locks make them so; the send authorization is two steps (statements,    *)
(* then commit), because what protects it is only the key-share lock its   *)
(* insert takes on the job row through the foreign key.                    *)
(*                                                                         *)
(* Time.  A timestamp column is kept as the ticks left until it; Tick lets *)
(* one unit pass for every column at once and stops each clock just below  *)
(* the last value some comparison tells apart.                             *)
(***************************************************************************)
EXTENDS Naturals, Integers, FiniteSets

CONSTANTS
    Jobs,              \* activity jobs of one connector operation (one bucket)
    Workers,           \* concurrent executions of consume_one_activity
    Effect,            \* OperationEffect of the operation
    RetryOn,           \* retry.retry_on: the classes worth another attempt
    MaxAttempts,       \* retry.max_attempts
    InitialInterval,   \* retry.initial_interval
    MaxInterval,       \* retry.max_interval
    ScheduleToStart,   \* schedule_to_start of the state
    StartToClose,      \* start_to_close of the state
    TakeoverGrace,     \* MAXIMUM_ACTIVITY_TAKEOVER_DELAY_MS
    UsableWindow,      \* provider retention minus the clock safety margin
    SendHorizon,       \* pinned maximum_send_horizon_ms
    MaxInFlight,       \* capacity.maximum_in_flight
    Burst,             \* rate.burst
    RefillInterval,    \* rate.refill_interval_ms
    Keys,              \* serialization keys
    SerialKey,         \* the serialization key of each job, or None
    None,              \* no serialization key; no job
    Classes,           \* the connector error classes the provider may produce
    RetryAfters,       \* the Retry-After values it may carry (0: none)
    MaxCrashes         \* bound on worker crashes

\* ConnectorErrorClass (external: the connector executor)
AmbiguousClasses == {"transport", "timeout", "http_429", "http_5xx"}
RefusalClasses   == {"authentication", "validation", "permanent"}
AllClasses       == AmbiguousClasses \cup RefusalClasses \cup {"invariant"}

AtMostOnce == Effect = "AtMostOnce"

ASSUME EffectAssumption ==
    Effect \in {"ReadOnly", "AtMostOnce", "ProviderIdempotent"}

\* What the Process compiler accepts (validate_at_most_once and
\* compile_retry_horizon in crates/processes).
ASSUME RetryAssumption ==
    /\ RetryOn \subseteq AmbiguousClasses
    /\ MaxAttempts \in Nat \ {0}
    /\ AtMostOnce => RetryOn = {} /\ MaxAttempts = 1
    /\ ~AtMostOnce => RetryOn # {}
    /\ InitialInterval \in Nat \ {0}
    /\ MaxInterval \in Nat \ {0}
    /\ InitialInterval <= MaxInterval

ASSUME TimeAssumption ==
    /\ ScheduleToStart \in Nat \ {0}
    /\ StartToClose \in Nat \ {0}
    /\ TakeoverGrace \in Nat \ {0}
    /\ SendHorizon \in Nat
    /\ UsableWindow \in Nat
    /\ SendHorizon <= UsableWindow

ASSUME CapacityAssumption ==
    /\ MaxInFlight \in Nat \ {0}
    /\ Burst \in Nat \ {0}
    /\ RefillInterval \in Nat \ {0}
    /\ SerialKey \in [Jobs -> Keys \cup {None}]
    /\ None \notin Jobs

ASSUME EnvironmentAssumption ==
    /\ Classes \subseteq AllClasses
    /\ RetryAfters \subseteq Nat
    /\ MaxCrashes \in Nat

VARIABLES
    job,        \* process_activity_jobs
    step,       \* process_activity_provider_steps
    reserved,   \* process_capacity_reservations with released_at IS NULL
    credit,     \* process_capacity_buckets.available_tokens * RefillInterval
    worker,     \* the memory of each consume_one_activity execution
    events,     \* process_events appended for the activities
    sends,      \* per job: how often the executor was entered (history)
    performed,  \* per job: the provider carried out a request (history)
    late,       \* per job: resolved past the takeover grace (history)
    crashes     \* worker crashes so far

vars == <<job, step, reserved, credit, worker, events, sends, performed,
          late, crashes>>

-----------------------------------------------------------------------------
Smaller(a, b) == IF a <= b THEN a ELSE b
Larger(a, b)  == IF a >= b THEN a ELSE b

Terminal == {"succeeded", "failed"}
Live     == {"scheduled", "running"}

NoJob  == [status |-> "absent", attempts |-> 0, generation |-> 0,
           available |-> 0, start |-> 0, close |-> 0, error |-> "none"]
NoStep == [row |-> "none", send |-> 0, window |-> 0]
Idle   == [pc |-> "idle", job |-> None, attempt |-> 0, generation |-> 0,
           left |-> 0, carried |-> FALSE, class |-> "none",
           send |-> "NotAttempted", after |-> 0]

\* Terminal rows keep their clocks in the database; nothing reads them again.
Resolved(j, status, error) ==
    [job[j] EXCEPT !.status = status, !.error = error,
                   !.available = 0, !.start = 0, !.close = 0]

Rescheduled(j, delay, error) ==
    [job[j] EXCEPT !.status = "scheduled", !.error = error,
                   !.available = delay, !.start = delay + ScheduleToStart,
                   !.close = 0]

EventOf(j, kind) ==
    [job |-> j, kind |-> kind, attempt |-> job[j].attempts,
     generation |-> job[j].generation]

RetryDelayUpper(attempt) ==
    Smaller(MaxInterval, InitialInterval * 2^(attempt - 1))

ReservationsOf(j) == {r \in reserved : r.job = j}
Unexpired         == {r \in reserved : r.left > 0}

-----------------------------------------------------------------------------
Init ==
    /\ job = [j \in Jobs |-> NoJob]
    /\ step = [j \in Jobs |-> NoStep]
    /\ reserved = {}
    /\ credit = Burst * RefillInterval
    /\ worker = [w \in Workers |-> Idle]
    /\ events = {}
    /\ sends = [j \in Jobs |-> 0]
    /\ performed = [j \in Jobs |-> FALSE]
    /\ late = [j \in Jobs |-> FALSE]
    /\ crashes = 0

\* A request state is entered: commit_request_schedule inserts its job.
Schedule(j) ==
    /\ job[j].status = "absent"
    /\ job' = [job EXCEPT ![j] = [NoJob EXCEPT !.status = "scheduled",
                                               !.start = ScheduleToStart]]
    /\ UNCHANGED <<step, reserved, credit, worker, events, sends, performed,
                   late, crashes>>

-----------------------------------------------------------------------------
(* claim_one_activity *)

\* Mutations of Due: no foreign key on the provider steps, hence no lock;
\* running jobs never claimed again; terminal jobs claimed as well.
DueUnlocked(j) ==
    /\ job[j].status \in Live
    /\ job[j].available <= 0
    /\ job[j].status = "running" => job[j].close <= 0

DueScheduledOnly(j) ==
    /\ job[j].status = "scheduled"
    /\ job[j].available <= 0

DueAnyStatus(j) ==
    /\ job[j].status # "absent"
    /\ job[j].available <= 0
    /\ job[j].status = "running" => job[j].close <= 0
    /\ step[j].row # "inserting"

\* FOR UPDATE OF job SKIP LOCKED: a job whose provider-step insert is still
\* open is key-share locked by the foreign key, and is skipped.  The instance is
\* taken to be running and a fan-out item to be scheduled, as the claim asks.
Due(j) ==
    /\ job[j].status \in Live
    /\ job[j].available <= 0
    /\ job[j].status = "running" => job[j].close <= 0
    /\ step[j].row # "inserting"

Expired(j)      == job[j].status = "scheduled" /\ job[j].start <= 0
PastGrace(j)    == job[j].status = "running" /\ job[j].close < -TakeoverGrace
Claimable(j)    == Due(j) /\ ~Expired(j) /\ ~PastGrace(j)
IsTakeover(j)   == job[j].status = "running"

\* Ticks left until the claim's completion deadline.
CompletionLeft(j) ==
    IF IsTakeover(j) THEN job[j].close + TakeoverGrace ELSE StartToClose

SameKey(j) == {r \in Unexpired : SerialKey[j] # None
                                 /\ SerialKey[r.job] = SerialKey[j]}
Full       == Cardinality(Unexpired) >= MaxInFlight
HasToken   == credit >= RefillInterval

\* Mutations of Admitted: the serialization key ignored; off by one; the rate
\* token not asked for.
AdmittedUnserialized(j) == ~Full /\ HasToken
AdmittedOneMore(j) ==
    Cardinality(Unexpired) <= MaxInFlight /\ SameKey(j) = {} /\ HasToken

AdmittedTokenless(j) == ~Full /\ SameKey(j) = {}

Admitted(j) ==
    /\ ~Full
    /\ SameKey(j) = {}
    /\ HasToken

Earliest(rs) == {r.left : r \in {s \in rs : \A t \in rs : s.left <= t.left}}

\* When a deferred claim wakes up (one value).
NextAvailable(j) ==
    IF SameKey(j) # {} THEN Earliest(SameKey(j))
    ELSE IF Full THEN Earliest(Unexpired)
    ELSE {RefillInterval - credit}

\* schedule_to_start elapsed before any worker started the attempt.
ClaimExpired(w, j) ==
    /\ worker[w].pc = "idle"
    /\ Due(j)
    /\ Expired(j)
    /\ job' = [job EXCEPT ![j] = Resolved(j, "failed", "schedule_to_start")]
    /\ events' = events \cup {EventOf(j, "activity_failed")}
    /\ UNCHANGED <<step, reserved, credit, worker, sends, performed, late,
                   crashes>>

\* resolve_late_running_activity.  The transaction rolls back, and nothing
\* changes, unless it releases exactly one abandoned reservation.
LateError(j) ==
    IF AtMostOnce /\ step[j].row = "committed" THEN "ambiguous" ELSE "timeout"
ReleasesAbandoned(j) == Cardinality(ReservationsOf(j)) = 1

ClaimLateRetry(w, j) ==
    /\ worker[w].pc = "idle"
    /\ Due(j)
    /\ PastGrace(j)
    /\ LateError(j) \in RetryOn
    /\ job[j].attempts < MaxAttempts
    /\ ReleasesAbandoned(j)
    /\ \E jitter \in 0..RetryDelayUpper(job[j].attempts) :
          job' = [job EXCEPT ![j] = Rescheduled(j, jitter, LateError(j))]
    /\ reserved' = reserved \ ReservationsOf(j)
    /\ late' = [late EXCEPT ![j] = TRUE]
    /\ UNCHANGED <<step, credit, worker, events, sends, performed, crashes>>

ClaimLateFail(w, j) ==
    /\ worker[w].pc = "idle"
    /\ Due(j)
    /\ PastGrace(j)
    /\ ~(LateError(j) \in RetryOn /\ job[j].attempts < MaxAttempts)
    /\ ReleasesAbandoned(j)
    /\ LET exhausted == LateError(j) \in RetryOn
       IN  /\ job' = [job EXCEPT ![j] = Resolved(j, "failed",
                         IF exhausted THEN "retry_exhausted" ELSE LateError(j))]
           /\ events' = events \cup {EventOf(j,
                         IF exhausted THEN "retry_exhausted"
                                      ELSE "activity_failed")}
    /\ reserved' = reserved \ ReservationsOf(j)
    /\ late' = [late EXCEPT ![j] = TRUE]
    /\ UNCHANGED <<step, credit, worker, sends, performed, crashes>>

\* No capacity, serialization slot or rate token: every expired reservation of
\* the bucket is released and the job sleeps until something may free up.
ClaimDeferred(w, j) ==
    /\ worker[w].pc = "idle"
    /\ Claimable(j)
    /\ ~Admitted(j)
    /\ reserved' = Unexpired
    /\ \E next \in NextAvailable(j) :
          job' = [job EXCEPT ![j].available =
                     Smaller(next, IF IsTakeover(j) THEN CompletionLeft(j)
                                                    ELSE job[j].start)]
    /\ UNCHANGED <<step, credit, worker, events, sends, performed, late,
                   crashes>>

\* A token is consumed and the lease rotates; only a fresh claim starts a new
\* attempt and a new start_to_close deadline.
ClaimLease(w, j) ==
    /\ worker[w].pc = "idle"
    /\ Claimable(j)
    /\ Admitted(j)
    /\ credit' = credit - RefillInterval
    /\ LET attempt == IF IsTakeover(j) THEN job[j].attempts
                                       ELSE job[j].attempts + 1
           lease   == job[j].generation + 1
           left    == CompletionLeft(j)
       IN  /\ job' = [job EXCEPT ![j].status = "running",
                                 ![j].attempts = attempt,
                                 ![j].generation = lease,
                                 ![j].available = left,
                                 ![j].start = 0,
                                 ![j].close = IF IsTakeover(j) THEN @
                                                               ELSE StartToClose]
           /\ reserved' = Unexpired \cup
                             {[job |-> j, generation |-> lease, left |-> left]}
           /\ worker' = [worker EXCEPT ![w] =
                             [Idle EXCEPT !.pc = "claimed", !.job = j,
                                          !.attempt = attempt,
                                          !.generation = lease,
                                          !.left = left]]
    /\ UNCHANGED <<step, events, sends, performed, late, crashes>>

-----------------------------------------------------------------------------
(* authorize_provider_send *)

\* The lease a worker believes it holds is still the job's lease.
HoldsLease(w) ==
    LET j == worker[w].job
    IN  /\ job[j].status = "running"
        /\ job[j].generation = worker[w].generation
        /\ job[j].attempts = worker[w].attempt

\* Mutation of StepRefusal: an existing at-most-once row does not refuse.
StepRefusalNever(j) == "none"

\* What the provider-step row says of one more send.
StepRefusal(j) ==
    CASE AtMostOnce /\ step[j].row = "committed" -> "ambiguous"
      [] Effect = "ProviderIdempotent" /\ step[j].row = "committed"
            /\ step[j].window < 0 -> "window_exhausted"
      [] Effect = "ProviderIdempotent" /\ step[j].row = "committed"
            /\ step[j].window >= 0 /\ step[j].send < 0 -> "horizon_exhausted"
      [] OTHER -> "none"

Refusal(w) ==
    IF StepRefusal(worker[w].job) # "none" THEN StepRefusal(worker[w].job)
    ELSE IF worker[w].left < 0 THEN "start_to_close"
    ELSE "none"

\* The statements of the transaction: insert the step row unless it is there,
\* then the fence.  An insert by another open transaction makes it wait.
AuthorizeOpen(w) ==
    /\ worker[w].pc = "claimed"
    /\ HoldsLease(w)
    /\ LET j       == worker[w].job
           inserts == Effect # "ReadOnly" /\ step[j].row = "none"
       IN  /\ step[j].row # "inserting"
           /\ step' = IF inserts
                      THEN [step EXCEPT ![j] = [row |-> "inserting",
                                                send |-> SendHorizon,
                                                window |-> UsableWindow]]
                      ELSE step
           /\ worker' = [worker EXCEPT
                  ![w].pc = IF inserts THEN "inserting" ELSE "checking",
                  ![w].class = Refusal(w)]
    /\ UNCHANGED <<job, reserved, credit, events, sends, performed, late,
                   crashes>>

\* The commit makes an inserted row visible to every other worker.
AuthorizeCommit(w) ==
    /\ worker[w].pc \in {"inserting", "checking"}
    /\ step' = IF worker[w].pc = "inserting"
               THEN [step EXCEPT ![worker[w].job].row = "committed"]
               ELSE step
    /\ worker' = [worker EXCEPT ![w].pc = IF worker[w].class = "none"
                                          THEN "authorized" ELSE "failed"]
    /\ UNCHANGED <<job, reserved, credit, events, sends, performed, late,
                   crashes>>

\* The fence finds the lease gone: the transaction rolls back.
AuthorizeLost(w) ==
    /\ worker[w].pc = "claimed"
    /\ ~HoldsLease(w)
    /\ step[worker[w].job].row # "inserting"
    /\ worker' = [worker EXCEPT ![w] = Idle]
    /\ UNCHANGED <<job, step, reserved, credit, events, sends, performed,
                   late, crashes>>

-----------------------------------------------------------------------------
(* The connector executor (external). *)

\* The executor is entered; whether the provider carries the request out is
\* its own business.
Send(w) ==
    /\ worker[w].pc = "authorized"
    /\ sends' = [sends EXCEPT ![worker[w].job] = @ + 1]
    /\ \E carried \in BOOLEAN :
          /\ performed' = [performed EXCEPT ![worker[w].job] = @ \/ carried]
          /\ worker' = [worker EXCEPT ![w].pc = "sent", ![w].carried = carried]
    /\ UNCHANGED <<job, step, reserved, credit, events, late, crashes>>

Replied(w, pc, class, send, after) ==
    worker' = [worker EXCEPT ![w].pc = pc, ![w].carried = FALSE,
                             ![w].class = class, ![w].send = send,
                             ![w].after = after]

\* The provider performed the request and its answer satisfies the contract.
AnswerSuccess(w) ==
    /\ worker[w].pc = "sent"
    /\ worker[w].carried
    /\ Replied(w, "succeeded", "none", "Answered", 0)
    /\ UNCHANGED <<job, step, reserved, credit, events, sends, performed,
                   late, crashes>>

\* A mismatched fingerprint or an output outside the declared contract.
AnswerUnusable(w) ==
    /\ worker[w].pc = "sent"
    /\ worker[w].carried
    /\ Replied(w, "failed", "invariant", "Answered", 0)
    /\ UNCHANGED <<job, step, reserved, credit, events, sends, performed,
                   late, crashes>>

\* The executor answers with a failure: an explicit refusal says the request
\* was not carried out, every other class says nothing about it.
AnswerFailure(w) ==
    /\ worker[w].pc = "sent"
    /\ \E class \in Classes, after \in RetryAfters :
          /\ class \in RefusalClasses => ~worker[w].carried
          /\ Replied(w, "failed", class, "Attempted", after)
    /\ UNCHANGED <<job, step, reserved, credit, events, sends, performed,
                   late, crashes>>

-----------------------------------------------------------------------------
(* complete_activity_success, complete_activity_failure_with_retry *)

\* lock_current_activity_lease
Fenced(w) == HoldsLease(w) /\ worker[w].left >= 0

OwnReservations(w) ==
    {r \in reserved : r.job = worker[w].job
                      /\ r.generation = worker[w].generation}
\* release_capacity: the completion rolls back otherwise.
ReleasesOwn(w) == Cardinality(OwnReservations(w)) = 1

SendOutcomeIsUnknown(send, class) ==
    \/ send = "Answered"
    \/ send = "Attempted" /\ class \in AmbiguousClasses

\* Mutation of RecordedClass: the connector's class is written verbatim.
RecordedClassVerbatim(w) == worker[w].class

\* The class recorded for a failure: ADR 063's ambiguous reclassification.
RecordedClass(w) ==
    IF /\ AtMostOnce
       /\ SendOutcomeIsUnknown(worker[w].send, worker[w].class)
       /\ step[worker[w].job].row = "committed"
    THEN "ambiguous"
    ELSE worker[w].class

Retryable(w) ==
    /\ worker[w].send \in {"Attempted", "Answered"}
    /\ RecordedClass(w) \in RetryOn

CompleteSuccess(w) ==
    /\ worker[w].pc = "succeeded"
    /\ Fenced(w)
    /\ ReleasesOwn(w)
    /\ job' = [job EXCEPT ![worker[w].job] =
                   Resolved(worker[w].job, "succeeded", "none")]
    /\ events' = events \cup {EventOf(worker[w].job, "activity_succeeded")}
    /\ reserved' = reserved \ OwnReservations(w)
    /\ worker' = [worker EXCEPT ![w] = Idle]
    /\ UNCHANGED <<step, credit, sends, performed, late, crashes>>

\* A retryable failure inside the attempt budget, unless Retry-After exceeds
\* the declared bound of this retry.
CompleteRetry(w) ==
    /\ worker[w].pc = "failed"
    /\ Fenced(w)
    /\ ReleasesOwn(w)
    /\ Retryable(w)
    /\ worker[w].attempt < MaxAttempts
    /\ worker[w].after <= RetryDelayUpper(worker[w].attempt)
    /\ \E jitter \in 0..RetryDelayUpper(worker[w].attempt) :
          job' = [job EXCEPT ![worker[w].job] =
                     Rescheduled(worker[w].job,
                                 Larger(jitter, worker[w].after),
                                 RecordedClass(w))]
    /\ reserved' = reserved \ OwnReservations(w)
    /\ worker' = [worker EXCEPT ![w] = Idle]
    /\ UNCHANGED <<step, credit, events, sends, performed, late, crashes>>

CompleteFailure(w) ==
    /\ worker[w].pc = "failed"
    /\ Fenced(w)
    /\ ReleasesOwn(w)
    /\ ~(/\ Retryable(w)
         /\ worker[w].attempt < MaxAttempts
         /\ worker[w].after <= RetryDelayUpper(worker[w].attempt))
    /\ LET exhausted == Retryable(w) /\ worker[w].attempt >= MaxAttempts
           error     == IF exhausted THEN "retry_exhausted"
                        ELSE IF Retryable(w) THEN "timeout"
                        ELSE RecordedClass(w)
       IN  /\ job' = [job EXCEPT ![worker[w].job] =
                          Resolved(worker[w].job, "failed", error)]
           /\ events' = events \cup {EventOf(worker[w].job,
                          IF exhausted THEN "retry_exhausted"
                                       ELSE "activity_failed")}
    /\ reserved' = reserved \ OwnReservations(w)
    /\ worker' = [worker EXCEPT ![w] = Idle]
    /\ UNCHANGED <<step, credit, sends, performed, late, crashes>>

\* The lease was lost, or the completion rolls back because another claim
\* released its reservation: nothing but the worker's memory changes.
CompleteStale(w) ==
    /\ worker[w].pc \in {"succeeded", "failed"}
    /\ ~Fenced(w) \/ ~ReleasesOwn(w)
    /\ worker' = [worker EXCEPT ![w] = Idle]
    /\ UNCHANGED <<job, step, reserved, credit, events, sends, performed,
                   late, crashes>>

-----------------------------------------------------------------------------
\* A worker's process dies; an open authorization rolls its insert back.
Crash(w) ==
    /\ worker[w].pc # "idle"
    /\ crashes < MaxCrashes
    /\ crashes' = crashes + 1
    /\ step' = IF worker[w].pc = "inserting"
               THEN [step EXCEPT ![worker[w].job] = NoStep]
               ELSE step
    /\ worker' = [worker EXCEPT ![w] = Idle]
    /\ UNCHANGED <<job, reserved, credit, events, sends, performed, late>>

Down(left, floor) == IF left > floor THEN left - 1 ELSE floor

\* One unit of database time passes.
Tick ==
    /\ job' = [j \in Jobs |->
          [job[j] EXCEPT
             !.available = Down(@, 0),
             !.start = Down(@, 0),
             !.close = IF job[j].status = "running"
                       THEN Down(@, -(TakeoverGrace + 1)) ELSE @]]
    /\ step' = [j \in Jobs |->
          IF Effect = "ProviderIdempotent" /\ step[j].row # "none"
          THEN [step[j] EXCEPT !.send = Down(@, -1), !.window = Down(@, -1)]
          ELSE step[j]]
    /\ reserved' = {[r EXCEPT !.left = Down(@, 0)] : r \in reserved}
    /\ credit' = Smaller(credit + 1, Burst * RefillInterval)
    /\ worker' = [w \in Workers |->
          IF worker[w].pc = "idle" THEN worker[w]
          ELSE [worker[w] EXCEPT !.left = Down(@, -1)]]
    /\ UNCHANGED <<events, sends, performed, late, crashes>>

-----------------------------------------------------------------------------
Claim(j) ==
    \E w \in Workers :
        \/ ClaimExpired(w, j)
        \/ ClaimLateRetry(w, j)
        \/ ClaimLateFail(w, j)
        \/ ClaimDeferred(w, j)
        \/ ClaimLease(w, j)

Work(w) ==
    \/ AuthorizeOpen(w)
    \/ AuthorizeCommit(w)
    \/ AuthorizeLost(w)
    \/ Send(w)
    \/ AnswerSuccess(w)
    \/ AnswerUnusable(w)
    \/ AnswerFailure(w)
    \/ CompleteSuccess(w)
    \/ CompleteRetry(w)
    \/ CompleteFailure(w)
    \/ CompleteStale(w)

Next ==
    \/ \E j \in Jobs : Schedule(j) \/ Claim(j)
    \/ \E w \in Workers : Work(w) \/ Crash(w)
    \/ Tick

Spec == Init /\ [][Next]_vars

\* The process loop polls for due work for as long as the engine is up, a
\* worker that has not crashed goes on, and time passes.
Fairness ==
    /\ \A j \in Jobs : WF_vars(Claim(j))
    /\ \A w \in Workers : WF_vars(Work(w))
    /\ WF_vars(Tick)

FairSpec == Spec /\ Fairness

-----------------------------------------------------------------------------
Delays    == 0..(MaxInterval + ScheduleToStart + StartToClose + TakeoverGrace
                 + RefillInterval)
Closes    == -(TakeoverGrace + 1)..StartToClose
Outcomes  == AllClasses \cup {"none", "ambiguous", "window_exhausted",
             "horizon_exhausted", "start_to_close", "schedule_to_start",
             "retry_exhausted"}
JobType   == [status : Live \cup Terminal \cup {"absent"},
              attempts : 0..MaxAttempts, generation : Nat,
              available : Delays, start : Delays,
              close : Closes, error : Outcomes]
StepType  == [row : {"none", "inserting", "committed"},
              send : -1..SendHorizon, window : -1..UsableWindow]
ReservationType ==
             [job : Jobs, generation : Nat, left : 0..(StartToClose + TakeoverGrace)]
WorkerType == [pc : {"idle", "claimed", "inserting", "checking", "authorized",
                     "sent", "succeeded", "failed"},
               job : Jobs \cup {None}, attempt : 0..MaxAttempts,
               generation : Nat, left : -1..(StartToClose + TakeoverGrace),
               carried : BOOLEAN, class : Outcomes,
               send : {"NotAttempted", "Attempted", "Answered"}, after : Nat]
EventType == [job : Jobs, attempt : 0..MaxAttempts, generation : Nat,
              kind : {"activity_succeeded", "activity_failed",
                      "retry_exhausted"}]

\* Every row and every worker's memory has its shape, the clocks stay in their
\* ranges, and no job starts more attempts than its retry policy allows.
TypeOK ==
    /\ job \in [Jobs -> JobType]
    /\ step \in [Jobs -> StepType]
    /\ reserved \subseteq ReservationType
    /\ credit \in 0..(Burst * RefillInterval)
    /\ worker \in [Workers -> WorkerType]
    /\ events \subseteq EventType
    /\ sends \in [Jobs -> Nat]
    /\ performed \in [Jobs -> BOOLEAN]
    /\ late \in [Jobs -> BOOLEAN]
    /\ crashes \in 0..MaxCrashes

\* An at-most-once activity enters the connector executor at most once,
\* whatever stalls, crashes and takeovers its workers go through (ADR 063).
AtMostOnceSend == AtMostOnce => \A j \in Jobs : sends[j] <= 1

\* What a failed at-most-once activity reports is true for ever: unless it says
\* "ambiguous", no request of it is or will be carried out by the provider.
\* (An executor's own `invariant` straddles request and response, as
\* send_outcome_is_unknown notes, and is not an answer about the send.)
OutcomeKnown ==
    AtMostOnce =>
        \A j \in Jobs :
            /\ job[j].status = "failed"
            /\ job[j].error \notin {"ambiguous", "invariant"}
            => ~performed[j]

\* An activity's record read as its contract.
Verdict(j) ==
    IF job[j].status = "succeeded" THEN "succeeded"
    ELSE IF job[j].status # "failed" THEN "open"
    ELSE IF job[j].error \in {"ambiguous", "invariant"} THEN "unknown"
    ELSE "failed"

Contract == INSTANCE ActivityContract WITH
    verdict <- [j \in Jobs |-> Verdict(j)], done <- performed

\* An at-most-once activity implements its contract: the provider acts once at
\* most, and never against a verdict the Process was given.
ImplementsContract == Contract!Spec

\* The Process learns of an activity exactly once: a terminal job has exactly
\* one event for the transition consumer, every other job has none.
OneTerminalEvent ==
    /\ \A j \in Jobs :
          job[j].status \in Terminal <=> \E e \in events : e.job = j
    /\ \A e, f \in events : e.job = f.job => e = f

\* A worker still inside its completion deadline.
Holding(w) == worker[w].pc # "idle" /\ worker[w].left > 0

\* The operation's capacity is never exceeded by workers inside their
\* completion deadline, however claims, expiries, releases and takeovers of
\* the bucket interleave.
InFlightBounded == Cardinality({w \in Workers : Holding(w)}) <= MaxInFlight

\* Two workers inside their completion deadline never share a serialization
\* key, not even across a takeover.
SerializedByKey ==
    \A v, w \in Workers :
        /\ v # w
        /\ Holding(v)
        /\ Holding(w)
        => \/ SerialKey[worker[v].job] = None
           \/ SerialKey[worker[v].job] # SerialKey[worker[w].job]

\* The compiled send horizon covers every retry and takeover the runtime makes
\* on time: an activity runs out of it only after some attempt sat past its
\* takeover grace with no worker to resolve it.
HorizonSuffices ==
    \A j \in Jobs :
        job[j].error \in {"window_exhausted", "horizon_exhausted"} => late[j]

\* A running job past its takeover grace whose reservation another claim has
\* already released: no claim can resolve it any more.
Stranded(j) == PastGrace(j) /\ ~ReleasesAbandoned(j)

\* Late work can be resolved: a worker that arrives past the takeover grace
\* finds the one reservation release_abandoned_capacity insists on, and
\* records the timeout.
LateWorkIsResolvable == \A j \in Jobs : ~Stranded(j)

\* Every scheduled activity is eventually reported to its Process, through
\* crashes, stalls, deferrals and retries; only a stranded one never is.
EveryActivityResolves ==
    \A j \in Jobs :
        job[j].status = "scheduled" ~> job[j].status \in Terminal \/ Stranded(j)

=============================================================================
