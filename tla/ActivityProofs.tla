--------------------------- MODULE ActivityProofs ---------------------------
(***************************************************************************)
(* Proofs about the durable connector activity, for any number of jobs and *)
(* workers and any timing: its type invariant, the at-most-once send, that *)
(* what a failed at-most-once activity reports is true for ever, the       *)
(* capacity bucket activities share, the one event each of them leaves,    *)
(* and that the compiled send horizon covers every retry made on time.     *)
(***************************************************************************)
EXTENDS Activity, FiniteSetTheorems, WellFoundedInduction, TLAPS


\* A busy worker works on a job, on an attempt its job has already started.
WorkersBusy ==
    \A w \in Workers :
        worker[w].pc # "idle" =>
            /\ worker[w].job \in Jobs
            /\ worker[w].attempt >= 1
            /\ job[worker[w].job].attempts >= worker[w].attempt

\* The attempt budget: a job waiting for a claim has an attempt left.
BudgetLeft ==
    \A j \in Jobs :
        /\ job[j].status = "absent" => job[j].attempts = 0
        /\ job[j].status = "scheduled" => job[j].attempts < MaxAttempts
        /\ job[j].status = "running" => job[j].attempts >= 1

\* What the provider-step row says of a send, and what the provider did.
RowsHonest ==
    \A j \in Jobs :
        /\ step[j].row # "committed" => sends[j] = 0
        /\ sends[j] = 0 => ~performed[j]
        /\ step[j].row # "none" => job[j].attempts >= 1
        /\ sends[j] <= 1

\* What a worker on its way to the provider and back may rely on.
Honest(w, j) ==
    /\ worker[w].pc = "inserting" => step[j].row = "inserting"
    /\ worker[w].pc = "checking" => worker[w].class # "none"
    /\ worker[w].pc = "authorized" => step[j].row = "committed" /\ sends[j] = 0
    /\ worker[w].pc \in {"sent", "succeeded"} =>
          step[j].row = "committed" /\ sends[j] = 1
    /\ worker[w].pc = "sent" => performed[j] = worker[w].carried
    /\ worker[w].pc = "succeeded" => performed[j]
WorkersHonest == \A w \in Workers : Honest(w, worker[w].job)

\* No two workers are about to send, or waiting for the answer to, one job.
Sending == {"inserting", "authorized", "sent"}
OneSender ==
    \A v, w \in Workers :
        /\ worker[v].job = worker[w].job
        /\ worker[v].pc = worker[w].pc
        /\ worker[v].pc \in Sending
        => v = w

SendDiscipline == RowsHonest /\ WorkersHonest /\ OneSender

\* What a worker knows when it records a failure is true.
Knows(w, j) ==
    /\ worker[w].class = "start_to_close" => worker[w].left < 0
    /\ worker[w].pc \notin {"failed", "succeeded"} =>
          worker[w].send = "NotAttempted"
    /\ worker[w].pc \in {"inserting", "checking"} =>
          worker[w].class \in {"none", "ambiguous", "start_to_close"}
    /\ worker[w].pc = "failed" /\ worker[w].send # "NotAttempted" =>
          step[j].row = "committed" /\ sends[j] = 1
    /\ worker[w].pc = "failed" /\ worker[w].send = "NotAttempted" =>
          worker[w].class \in {"ambiguous", "start_to_close"}
    /\ worker[w].pc = "failed" /\ worker[w].send = "Attempted" =>
          /\ worker[w].class \in AllClasses
          /\ worker[w].class \in RefusalClasses => ~performed[j]
FailuresKnown == \A w \in Workers : Knows(w, worker[w].job)

\* A job failed for a reason that is a statement about the send.
KnownFailed(j) ==
    job[j].status = "failed" /\ job[j].error \notin {"ambiguous", "invariant"}

\* Nothing can be sent any more for a job that reported a known failure, and a
\* reported success was carried out.
VerdictsHold ==
    \A j \in Jobs :
        /\ KnownFailed(j) => ~performed[j]
        /\ job[j].status = "succeeded" => performed[j]
        /\ KnownFailed(j) =>
              \A w \in Workers :
                  worker[w].job = j => worker[w].pc \notin {"inserting", "authorized"}

Safe == TypeOK /\ WorkersBusy /\ BudgetLeft

SendInv ==
    /\ Safe
    /\ AtMostOnce => SendDiscipline /\ FailuresKnown /\ VerdictsHold

-----------------------------------------------------------------------------
(* What the helpers return. *)

LEMMA ConstantsAreNumbers ==
    /\ MaxAttempts \in Nat /\ MaxAttempts >= 1
    /\ MaxInterval \in Nat /\ InitialInterval \in Nat
    /\ ScheduleToStart \in Nat /\ ScheduleToStart >= 1
    /\ StartToClose \in Nat /\ StartToClose >= 1
    /\ TakeoverGrace \in Nat /\ TakeoverGrace >= 1
    /\ SendHorizon \in Nat /\ UsableWindow \in Nat
    /\ Burst \in Nat /\ Burst >= 1
    /\ RefillInterval \in Nat /\ RefillInterval >= 1
    /\ MaxInFlight \in Nat /\ MaxInFlight >= 1
  BY TimeAssumption, RetryAssumption, CapacityAssumption

LEMMA RetryDelayBounded ==
    ASSUME NEW a \in Int, NEW d \in 0..RetryDelayUpper(a)
    PROVE  d \in 0..MaxInterval
  BY RetryAssumption DEF RetryDelayUpper, Smaller

LEMMA ResolvedType ==
    ASSUME TypeOK, NEW j \in Jobs, NEW st \in Terminal, NEW er \in Outcomes
    PROVE  /\ Resolved(j, st, er) \in JobType
           /\ Resolved(j, st, er).status = st
           /\ Resolved(j, st, er).error = er
           /\ Resolved(j, st, er).attempts = job[j].attempts
<1>1. job[j] \in JobType
  BY DEF TypeOK
<1>2. 0 \in Delays /\ 0 \in Closes
  BY ConstantsAreNumbers DEF Delays, Closes
<1>3. st \in Live \cup Terminal \cup {"absent"}
  OBVIOUS
<1> QED
  BY <1>1, <1>2, <1>3 DEF Resolved, JobType

LEMMA RescheduledType ==
    ASSUME TypeOK, NEW j \in Jobs, NEW d \in 0..MaxInterval,
           NEW er \in Outcomes
    PROVE  /\ Rescheduled(j, d, er) \in JobType
           /\ Rescheduled(j, d, er).status = "scheduled"
           /\ Rescheduled(j, d, er).error = er
           /\ Rescheduled(j, d, er).attempts = job[j].attempts
<1>1. job[j] \in JobType
  BY DEF TypeOK
<1>2. d \in Delays /\ d + ScheduleToStart \in Delays /\ 0 \in Closes
  BY ConstantsAreNumbers DEF Delays, Closes
<1>3. "scheduled" \in Live \cup Terminal \cup {"absent"}
  BY DEF Live
<1> QED
  BY <1>1, <1>2, <1>3 DEF Rescheduled, JobType

LEMMA EventOfType ==
    ASSUME TypeOK, NEW j \in Jobs,
           NEW kd \in {"activity_succeeded", "activity_failed",
                       "retry_exhausted"}
    PROVE  EventOf(j, kd) \in EventType
  BY DEF TypeOK, EventOf, JobType, EventType

-----------------------------------------------------------------------------
(* The type invariant, with what it needs: every busy worker has a job, and *)
(* a waiting job has an attempt left.                                       *)

LEMMA SafeInit == Init => Safe
<1> SUFFICES ASSUME Init PROVE Safe
  OBVIOUS
<1>1. NoJob \in JobType /\ NoStep \in StepType /\ Idle \in WorkerType
  BY ConstantsAreNumbers
  DEF NoJob, NoStep, Idle, JobType, StepType, WorkerType, Delays, Closes,
      Outcomes, Live, Terminal
<1>2. Burst * RefillInterval \in 0..(Burst * RefillInterval)
  BY ConstantsAreNumbers
<1>3. TypeOK
  BY <1>1, <1>2, EnvironmentAssumption DEF Init, TypeOK
<1>4. WorkersBusy
  BY DEF Init, WorkersBusy, Idle
<1>5. BudgetLeft
  BY ConstantsAreNumbers DEF Init, BudgetLeft, NoJob
<1> QED
  BY <1>3, <1>4, <1>5 DEF Safe

\* A step that resolves a job keeps the invariant.
LEMMA SafeResolve ==
    ASSUME Safe, NEW j \in Jobs, NEW st \in Terminal, NEW er \in Outcomes,
           NEW kd \in {"activity_succeeded", "activity_failed",
                       "retry_exhausted"},
           job' = [job EXCEPT ![j] = Resolved(j, st, er)],
           events' = events \cup {EventOf(j, kd)},
           reserved' \subseteq reserved,
           \A w \in Workers : worker'[w] \in {worker[w], Idle},
           worker' \in [Workers -> WorkerType],
           late' \in [Jobs -> BOOLEAN],
           UNCHANGED <<step, credit, sends, performed, crashes>>
    PROVE  Safe'
<1>1. /\ Resolved(j, st, er) \in JobType
      /\ Resolved(j, st, er).status = st
      /\ Resolved(j, st, er).attempts = job[j].attempts
  BY ResolvedType DEF Safe
<1>2. EventOf(j, kd) \in EventType
  BY EventOfType DEF Safe
<1>3. TypeOK'
  BY <1>1, <1>2 DEF Safe, TypeOK
<1>4. \A i \in Jobs : job'[i].attempts = job[i].attempts
  BY <1>1 DEF Safe, TypeOK
<1>5. WorkersBusy'
  BY <1>4 DEF Safe, WorkersBusy, Idle
<1>6. BudgetLeft'
  BY <1>1 DEF Safe, TypeOK, BudgetLeft, Terminal
<1> QED
  BY <1>3, <1>5, <1>6 DEF Safe

\* So does a step that reschedules one that has an attempt left.
LEMMA SafeReschedule ==
    ASSUME Safe, NEW j \in Jobs, NEW d \in 0..MaxInterval, NEW er \in Outcomes,
           job[j].attempts < MaxAttempts,
           job' = [job EXCEPT ![j] = Rescheduled(j, d, er)],
           reserved' \subseteq reserved,
           \A w \in Workers : worker'[w] \in {worker[w], Idle},
           worker' \in [Workers -> WorkerType],
           late' \in [Jobs -> BOOLEAN],
           UNCHANGED <<step, credit, events, sends, performed, crashes>>
    PROVE  Safe'
<1>1. /\ Rescheduled(j, d, er) \in JobType
      /\ Rescheduled(j, d, er).status = "scheduled"
      /\ Rescheduled(j, d, er).attempts = job[j].attempts
  BY RescheduledType DEF Safe
<1>3. TypeOK'
  BY <1>1 DEF Safe, TypeOK
<1>4. \A i \in Jobs : job'[i].attempts = job[i].attempts
  BY <1>1 DEF Safe, TypeOK
<1>5. WorkersBusy'
  BY <1>4 DEF Safe, WorkersBusy, Idle
<1>6. BudgetLeft'
  BY <1>1, <1>4 DEF Safe, TypeOK, BudgetLeft
<1> QED
  BY <1>3, <1>5, <1>6 DEF Safe

\* And a step that only changes what one worker remembers of its claim.
LEMMA SafeRemember ==
    ASSUME Safe, NEW w \in Workers, NEW m \in WorkerType,
           worker[w].pc # "idle" \/ m.pc = "idle",
           m.pc # "idle" => m.job = worker[w].job /\ m.attempt = worker[w].attempt,
           worker' = [worker EXCEPT ![w] = m],
           step' \in [Jobs -> StepType],
           sends' \in [Jobs -> Nat],
           performed' \in [Jobs -> BOOLEAN],
           crashes' \in 0..MaxCrashes,
           UNCHANGED <<job, reserved, credit, events, late>>
    PROVE  Safe'
<1>1. TypeOK'
  BY DEF Safe, TypeOK
<1>2. WorkersBusy'
  BY DEF Safe, TypeOK, WorkersBusy
<1>3. BudgetLeft'
  BY DEF Safe, BudgetLeft
<1> QED
  BY <1>1, <1>2, <1>3 DEF Safe

LEMMA IdleType == Idle \in WorkerType /\ Idle.pc = "idle"
  BY ConstantsAreNumbers DEF Idle, WorkerType, Outcomes

LEMMA OutcomesRecorded ==
    /\ {"none", "ambiguous", "timeout", "retry_exhausted", "schedule_to_start",
        "start_to_close", "window_exhausted", "horizon_exhausted",
        "invariant"} \subseteq Outcomes
    /\ Classes \subseteq Outcomes
    /\ RetryOn \subseteq Outcomes
  BY EnvironmentAssumption, RetryAssumption
  DEF Outcomes, AllClasses, AmbiguousClasses

LEMMA SafeStep == Safe /\ [Next]_vars => Safe'
<1> SUFFICES ASSUME Safe, [Next]_vars PROVE Safe'
  OBVIOUS
<1> USE DEF Safe
<1>1. ASSUME NEW j \in Jobs, Schedule(j) PROVE Safe'
  <2>1. [NoJob EXCEPT !.status = "scheduled", !.start = ScheduleToStart]
            \in JobType
    <3>1. NoJob \in JobType /\ ScheduleToStart \in Delays
      BY ConstantsAreNumbers
      DEF NoJob, JobType, Delays, Closes, Outcomes, Live, Terminal
    <3> QED BY <3>1 DEF JobType, Live
  <2>2. TypeOK'
    BY <1>1, <2>1 DEF Schedule, TypeOK
  <2>3. WorkersBusy'
    BY <1>1, ConstantsAreNumbers DEF Schedule, WorkersBusy, BudgetLeft, TypeOK,
       NoJob, WorkerType
  <2>4. BudgetLeft'
    BY <1>1, ConstantsAreNumbers DEF Schedule, BudgetLeft, NoJob, TypeOK
  <2> QED BY <2>2, <2>3, <2>4
<1>2. ASSUME NEW w \in Workers, NEW j \in Jobs, ClaimExpired(w, j) PROVE Safe'
  BY <1>2, SafeResolve, OutcomesRecorded DEF ClaimExpired, TypeOK, Terminal
<1>3. ASSUME NEW w \in Workers, NEW j \in Jobs, ClaimLateRetry(w, j) PROVE Safe'
  <2>1. LateError(j) \in Outcomes
    BY OutcomesRecorded DEF LateError
  <2>2. PICK d \in 0..RetryDelayUpper(job[j].attempts) :
            job' = [job EXCEPT ![j] = Rescheduled(j, d, LateError(j))]
    BY <1>3 DEF ClaimLateRetry
  <2>3. d \in 0..MaxInterval
    BY <2>2, RetryDelayBounded DEF TypeOK, JobType
  <2> QED
    BY <1>3, <2>1, <2>2, <2>3, SafeReschedule DEF ClaimLateRetry, TypeOK
<1>4. ASSUME NEW w \in Workers, NEW j \in Jobs, ClaimLateFail(w, j) PROVE Safe'
  <2> DEFINE exhausted == LateError(j) \in RetryOn
             er == IF exhausted THEN "retry_exhausted" ELSE LateError(j)
             kd == IF exhausted THEN "retry_exhausted" ELSE "activity_failed"
  <2>1. er \in Outcomes /\ "failed" \in Terminal
    BY OutcomesRecorded DEF LateError, Terminal
  <2>2. kd \in {"activity_succeeded", "activity_failed", "retry_exhausted"}
    OBVIOUS
  <2>3. /\ job' = [job EXCEPT ![j] = Resolved(j, "failed", er)]
        /\ events' = events \cup {EventOf(j, kd)}
        /\ reserved' \subseteq reserved
        /\ worker' = worker
        /\ late' \in [Jobs -> BOOLEAN]
        /\ UNCHANGED <<step, credit, sends, performed, crashes>>
    BY <1>4 DEF ClaimLateFail, TypeOK
  <2> HIDE DEF exhausted, er, kd
  <2> QED
    BY <2>1, <2>2, <2>3, SafeResolve DEF TypeOK
<1>5. ASSUME NEW w \in Workers, NEW j \in Jobs, ClaimDeferred(w, j) PROVE Safe'
  <2>1. job[j] \in JobType
    BY DEF TypeOK
  <2>2. PICK next \in NextAvailable(j) :
            job' = [job EXCEPT ![j].available =
                       Smaller(next, IF IsTakeover(j) THEN CompletionLeft(j)
                                                      ELSE job[j].start)]
    BY <1>5 DEF ClaimDeferred
  <2>3. next \in Delays
    <3>1. \A r \in Unexpired : r.left \in Delays
      BY ConstantsAreNumbers DEF TypeOK, Unexpired, ReservationType, Delays
    <3>2. ASSUME SameKey(j) # {} \/ Full
          PROVE  next \in Delays
      BY <2>2, <3>1, <3>2 DEF NextAvailable, Earliest, SameKey
    <3>3. ASSUME SameKey(j) = {}, ~Full PROVE next \in Delays
      <4>1. next = RefillInterval - credit
        BY <2>2, <3>3 DEF NextAvailable
      <4>2. ~HasToken
        BY <1>5, <3>3 DEF ClaimDeferred, Admitted
      <4>3. credit \in Int /\ credit >= 0 /\ credit < RefillInterval
        BY <4>2, ConstantsAreNumbers DEF TypeOK, HasToken
      <4> QED BY <4>1, <4>3, ConstantsAreNumbers DEF Delays
    <3> QED BY <3>2, <3>3
  <2>4. (IF IsTakeover(j) THEN CompletionLeft(j) ELSE job[j].start) \in Delays
    BY <1>5, <2>1, ConstantsAreNumbers
    DEF ClaimDeferred, Claimable, PastGrace, CompletionLeft, IsTakeover,
        JobType, Delays, Closes
  <2>5. \A i \in Jobs : /\ job'[i] \in JobType
                        /\ job'[i].status = job[i].status
                        /\ job'[i].attempts = job[i].attempts
    BY <2>1, <2>2, <2>3, <2>4 DEF TypeOK, JobType, Smaller
  <2>6. TypeOK'
    BY <1>5, <2>2, <2>5 DEF ClaimDeferred, TypeOK, Unexpired
  <2>7. WorkersBusy' /\ BudgetLeft'
    BY <1>5, <2>5 DEF ClaimDeferred, WorkersBusy, BudgetLeft
  <2> QED BY <2>6, <2>7
<1>6. ASSUME NEW w \in Workers, NEW j \in Jobs, ClaimLease(w, j) PROVE Safe'
  <2> DEFINE attempt == IF IsTakeover(j) THEN job[j].attempts
                                         ELSE job[j].attempts + 1
             lease   == job[j].generation + 1
             left    == CompletionLeft(j)
             close   == IF IsTakeover(j) THEN job[j].close ELSE StartToClose
             row     == [job[j] EXCEPT !.status = "running",
                                       !.attempts = attempt,
                                       !.generation = lease,
                                       !.available = left,
                                       !.start = 0,
                                       !.close = close]
             memory  == [Idle EXCEPT !.pc = "claimed", !.job = j,
                                     !.attempt = attempt,
                                     !.generation = lease, !.left = left]
  <2>1. job[j] \in JobType
    BY DEF TypeOK
  <2>2. Due(j) /\ ~Expired(j) /\ ~PastGrace(j) /\ HasToken
    BY <1>6 DEF ClaimLease, Claimable, Admitted
  <2>3. /\ attempt \in 0..MaxAttempts
        /\ attempt >= job[j].attempts
    BY <2>1, <2>2, ConstantsAreNumbers
    DEF IsTakeover, JobType, BudgetLeft, Due, Live
  <2>4. ASSUME IsTakeover(j) PROVE job[j].close \in Closes
                                   /\ left \in 0..TakeoverGrace
    BY <2>1, <2>2, <2>4, ConstantsAreNumbers
    DEF IsTakeover, JobType, Closes, PastGrace, CompletionLeft, Due
  <2>5. left \in 0..(StartToClose + TakeoverGrace) /\ close \in Closes
    BY <2>4, ConstantsAreNumbers DEF CompletionLeft, Closes
  <2>6. left \in Delays /\ 0 \in Delays
    BY <2>5, ConstantsAreNumbers DEF Delays
  <2>7. lease \in Nat
    BY <2>1 DEF JobType
  <2>8. row \in JobType /\ row.status = "running" /\ row.attempts = attempt
    <3> HIDE DEF attempt, lease, left, close
    <3> QED BY <2>1, <2>3, <2>5, <2>6, <2>7 DEF JobType, Live
  <2>9. /\ memory \in WorkerType
        /\ memory.job = j /\ memory.attempt = attempt
    <3>1. left \in -1..(StartToClose + TakeoverGrace)
      BY <2>5, ConstantsAreNumbers
    <3> HIDE DEF attempt, lease, left, close
    <3> QED BY <2>3, <2>7, <3>1, IdleType DEF WorkerType, Idle
  <2>10. [job |-> j, generation |-> lease, left |-> left] \in ReservationType
    <3> HIDE DEF left, lease
    <3> QED BY <2>5, <2>7 DEF ReservationType
  <2>11. /\ job' = [job EXCEPT ![j] = row]
         /\ worker' = [worker EXCEPT ![w] = memory]
         /\ reserved' = Unexpired \cup
                {[job |-> j, generation |-> lease, left |-> left]}
         /\ credit' = credit - RefillInterval
         /\ UNCHANGED <<step, events, sends, performed, late, crashes>>
    BY <1>6 DEF ClaimLease, TypeOK
  <2> HIDE DEF attempt, lease, left, close, row, memory
  <2>12. credit - RefillInterval \in 0..(Burst * RefillInterval)
    BY <2>2, ConstantsAreNumbers DEF TypeOK, HasToken
  <2>13. TypeOK'
    BY <2>8, <2>9, <2>10, <2>11, <2>12 DEF TypeOK, Unexpired
  <2>14. \A i \in Jobs : job'[i].attempts >= job[i].attempts
    BY <2>3, <2>8, <2>11, ConstantsAreNumbers DEF TypeOK, JobType
  <2>15. attempt >= 1
    BY <2>1, <2>2, ConstantsAreNumbers
    DEF attempt, BudgetLeft, IsTakeover, JobType, Due, Live
  <2>16. WorkersBusy'
    BY <2>8, <2>9, <2>11, <2>13, <2>14, <2>15, ConstantsAreNumbers
    DEF WorkersBusy, TypeOK, WorkerType, JobType
  <2>17. BudgetLeft'
    BY <2>8, <2>11, <2>15 DEF BudgetLeft, TypeOK
  <2> QED BY <2>13, <2>16, <2>17
<1>7. ASSUME NEW w \in Workers, AuthorizeOpen(w) PROVE Safe'
  <2> DEFINE j == worker[w].job
             inserts == Effect # "ReadOnly" /\ step[j].row = "none"
             m == [worker[w] EXCEPT !.pc = IF inserts THEN "inserting"
                                                      ELSE "checking",
                                    !.class = Refusal(w)]
  <2>1. worker[w] \in WorkerType /\ j \in Jobs
    BY <1>7 DEF AuthorizeOpen, TypeOK, WorkersBusy
  <2>2. Refusal(w) \in Outcomes
    BY OutcomesRecorded DEF Refusal, StepRefusal
  <2>3. /\ m \in WorkerType /\ m.job = j /\ m.attempt = worker[w].attempt
        /\ m.pc # "idle"
    BY <2>1, <2>2 DEF WorkerType
  <2>4. step' \in [Jobs -> StepType]
    BY <1>7, <2>1, ConstantsAreNumbers DEF AuthorizeOpen, TypeOK, StepType
  <2>5. worker' = [worker EXCEPT ![w] = m]
    BY <1>7 DEF AuthorizeOpen, TypeOK
  <2> HIDE DEF m
  <2> QED
    BY <1>7, <2>3, <2>4, <2>5, SafeRemember DEF AuthorizeOpen, TypeOK
<1>8. ASSUME NEW w \in Workers, AuthorizeCommit(w) PROVE Safe'
  <2> DEFINE m == [worker[w] EXCEPT !.pc = IF worker[w].class = "none"
                                           THEN "authorized" ELSE "failed"]
  <2>1. worker[w] \in WorkerType /\ worker[w].job \in Jobs
    BY <1>8 DEF AuthorizeCommit, TypeOK, WorkersBusy
  <2>2. /\ m \in WorkerType /\ m.job = worker[w].job
        /\ m.attempt = worker[w].attempt /\ m.pc # "idle"
    BY <2>1 DEF WorkerType
  <2>3. step' \in [Jobs -> StepType]
    BY <1>8, <2>1 DEF AuthorizeCommit, TypeOK, StepType
  <2>4. worker' = [worker EXCEPT ![w] = m]
    BY <1>8 DEF AuthorizeCommit, TypeOK
  <2> HIDE DEF m
  <2> QED
    BY <1>8, <2>2, <2>3, <2>4, SafeRemember DEF AuthorizeCommit, TypeOK
<1>9. ASSUME NEW w \in Workers, AuthorizeLost(w) \/ CompleteStale(w) PROVE Safe'
  BY <1>9, IdleType, SafeRemember DEF AuthorizeLost, CompleteStale, TypeOK
<1>10. ASSUME NEW w \in Workers, Send(w) PROVE Safe'
  <2>1. PICK carried \in BOOLEAN :
          /\ performed' = [performed EXCEPT ![worker[w].job] = @ \/ carried]
          /\ worker' = [worker EXCEPT ![w].pc = "sent", ![w].carried = carried]
    BY <1>10 DEF Send
  <2> DEFINE m == [worker[w] EXCEPT !.pc = "sent", !.carried = carried]
  <2>2. worker[w] \in WorkerType /\ worker[w].job \in Jobs
    BY <1>10 DEF Send, TypeOK, WorkersBusy
  <2>3. /\ m \in WorkerType /\ m.job = worker[w].job
        /\ m.attempt = worker[w].attempt /\ m.pc # "idle"
    BY <2>2 DEF WorkerType
  <2>4. worker' = [worker EXCEPT ![w] = m]
    BY <2>1 DEF TypeOK
  <2>5. performed' \in [Jobs -> BOOLEAN]
    BY <2>1, <2>2 DEF TypeOK
  <2>6. sends' \in [Jobs -> Nat]
    BY <1>10, <2>2 DEF Send, TypeOK
  <2> HIDE DEF m
  <2> QED
    BY <1>10, <2>3, <2>4, <2>5, <2>6, SafeRemember DEF Send, TypeOK
<1>11. ASSUME NEW w \in Workers,
              AnswerSuccess(w) \/ AnswerUnusable(w) \/ AnswerFailure(w)
       PROVE Safe'
  <2>1. PICK pc \in {"succeeded", "failed"}, class \in Outcomes,
             send \in {"Attempted", "Answered"}, after \in Nat :
            Replied(w, pc, class, send, after)
    BY <1>11, OutcomesRecorded, EnvironmentAssumption
    DEF AnswerSuccess, AnswerUnusable, AnswerFailure
  <2> DEFINE m == [worker[w] EXCEPT !.pc = pc, !.carried = FALSE,
                                    !.class = class, !.send = send,
                                    !.after = after]
  <2>2. worker[w] \in WorkerType /\ worker[w].pc = "sent"
    BY <1>11 DEF AnswerSuccess, AnswerUnusable, AnswerFailure, TypeOK
  <2>3. /\ m \in WorkerType /\ m.job = worker[w].job
        /\ m.attempt = worker[w].attempt /\ m.pc # "idle"
    BY <2>2 DEF WorkerType
  <2>4. worker' = [worker EXCEPT ![w] = m]
    BY <2>1 DEF Replied, TypeOK
  <2>5. UNCHANGED <<job, step, reserved, credit, events, sends, performed,
                    late, crashes>>
    BY <1>11 DEF AnswerSuccess, AnswerUnusable, AnswerFailure
  <2> HIDE DEF m
  <2> QED
    BY <2>2, <2>3, <2>4, <2>5, SafeRemember DEF TypeOK
<1>12. ASSUME NEW w \in Workers, CompleteSuccess(w) PROVE Safe'
  <2>1. worker[w].job \in Jobs
    BY <1>12 DEF CompleteSuccess, WorkersBusy
  <2>2. worker' \in [Workers -> WorkerType]
    BY <1>12, IdleType DEF CompleteSuccess, TypeOK
  <2> QED
    BY <1>12, <2>1, <2>2, SafeResolve, OutcomesRecorded
    DEF CompleteSuccess, TypeOK, Terminal
<1>13. ASSUME NEW w \in Workers, CompleteRetry(w) PROVE Safe'
  <2>1. worker[w].job \in Jobs /\ worker[w] \in WorkerType
    BY <1>13 DEF CompleteRetry, WorkersBusy, TypeOK
  <2>2. worker' \in [Workers -> WorkerType]
    BY <1>13, IdleType DEF CompleteRetry, TypeOK
  <2>3. RecordedClass(w) \in Outcomes
    BY <2>1, OutcomesRecorded DEF RecordedClass, WorkerType
  <2>4. PICK jitter \in 0..RetryDelayUpper(worker[w].attempt) :
            job' = [job EXCEPT ![worker[w].job] =
                       Rescheduled(worker[w].job,
                                   Larger(jitter, worker[w].after),
                                   RecordedClass(w))]
    BY <1>13 DEF CompleteRetry
  <2>5. worker[w].after \in 0..RetryDelayUpper(worker[w].attempt)
    BY <1>13, <2>1, ConstantsAreNumbers
    DEF CompleteRetry, WorkerType, RetryDelayUpper, Smaller
  <2>6. Larger(jitter, worker[w].after) \in 0..MaxInterval
    BY <2>1, <2>4, <2>5, RetryDelayBounded DEF Larger, WorkerType
  <2>7. job[worker[w].job].attempts < MaxAttempts
    BY <1>13 DEF CompleteRetry, Fenced, HoldsLease
  <2> QED
    BY <1>13, <2>1, <2>2, <2>3, <2>4, <2>6, <2>7, SafeReschedule
    DEF CompleteRetry, TypeOK
<1>14. ASSUME NEW w \in Workers, CompleteFailure(w) PROVE Safe'
  <2> DEFINE exhausted == Retryable(w) /\ worker[w].attempt >= MaxAttempts
             er == IF exhausted THEN "retry_exhausted"
                   ELSE IF Retryable(w) THEN "timeout" ELSE RecordedClass(w)
             kd == IF exhausted THEN "retry_exhausted" ELSE "activity_failed"
  <2>1. worker[w].job \in Jobs /\ worker[w] \in WorkerType
    BY <1>14 DEF CompleteFailure, WorkersBusy, TypeOK
  <2>2. worker' \in [Workers -> WorkerType]
    BY <1>14, IdleType DEF CompleteFailure, TypeOK
  <2>3. er \in Outcomes /\ "failed" \in Terminal
    BY <2>1, OutcomesRecorded DEF RecordedClass, WorkerType, Terminal
  <2>4. kd \in {"activity_succeeded", "activity_failed", "retry_exhausted"}
    OBVIOUS
  <2>5. /\ job' = [job EXCEPT ![worker[w].job] =
                      Resolved(worker[w].job, "failed", er)]
        /\ events' = events \cup {EventOf(worker[w].job, kd)}
        /\ reserved' \subseteq reserved
        /\ worker' = [worker EXCEPT ![w] = Idle]
        /\ UNCHANGED <<step, credit, sends, performed, late, crashes>>
    BY <1>14 DEF CompleteFailure
  <2> HIDE DEF exhausted, er, kd
  <2> QED
    BY <2>1, <2>2, <2>3, <2>4, <2>5, SafeResolve DEF TypeOK
<1>15. ASSUME NEW w \in Workers, Crash(w) PROVE Safe'
  <2>1. worker[w].job \in Jobs
    BY <1>15 DEF Crash, WorkersBusy
  <2>2. NoStep \in StepType
    BY ConstantsAreNumbers DEF NoStep, StepType
  <2>3. step' \in [Jobs -> StepType]
    BY <1>15, <2>1, <2>2 DEF Crash, TypeOK
  <2>4. crashes' \in 0..MaxCrashes
    BY <1>15, EnvironmentAssumption DEF Crash, TypeOK
  <2> QED
    BY <1>15, <2>3, <2>4, IdleType, SafeRemember DEF Crash, TypeOK
<1>16. ASSUME Tick PROVE Safe'
  <2>1. ASSUME NEW j \in Jobs
        PROVE  /\ job'[j] \in JobType
               /\ job'[j].attempts = job[j].attempts
               /\ job'[j].status = job[j].status
    <3>1. job[j] \in JobType
      BY DEF TypeOK
    <3>2. Down(job[j].available, 0) \in Delays /\ Down(job[j].start, 0) \in Delays
      BY <3>1, ConstantsAreNumbers DEF JobType, Delays, Down
    <3>3. Down(job[j].close, -(TakeoverGrace + 1)) \in Closes
      BY <3>1, ConstantsAreNumbers DEF JobType, Closes, Down
    <3>4. job'[j] = [job[j] EXCEPT
             !.available = Down(job[j].available, 0),
             !.start = Down(job[j].start, 0),
             !.close = IF job[j].status = "running"
                       THEN Down(job[j].close, -(TakeoverGrace + 1))
                       ELSE job[j].close]
      BY <1>16, <3>1 DEF Tick, JobType
    <3> QED BY <3>1, <3>2, <3>3, <3>4 DEF JobType
  <2>2. ASSUME NEW j \in Jobs PROVE step'[j] \in StepType
    <3>1. step[j] \in StepType
      BY DEF TypeOK
    <3>2. /\ Down(step[j].send, -1) \in -1..SendHorizon
          /\ Down(step[j].window, -1) \in -1..UsableWindow
      BY <3>1, ConstantsAreNumbers DEF StepType, Down
    <3> QED BY <1>16, <3>1, <3>2 DEF Tick, StepType
  <2>3. reserved' \subseteq ReservationType
    <3>1. ASSUME NEW r \in ReservationType
          PROVE  [r EXCEPT !.left = Down(r.left, 0)] \in ReservationType
      BY ConstantsAreNumbers DEF ReservationType, Down
    <3> QED BY <1>16, <3>1 DEF Tick, TypeOK
  <2>4. credit' \in 0..(Burst * RefillInterval)
    <3> DEFINE cap == Burst * RefillInterval
    <3>1. cap \in Nat
      BY ConstantsAreNumbers
    <3>2. credit \in 0..cap /\ credit' = Smaller(credit + 1, cap)
      BY <1>16 DEF Tick, TypeOK
    <3> HIDE DEF cap
    <3>3. credit' \in 0..cap
      BY <3>1, <3>2 DEF Smaller
    <3> QED BY <3>3 DEF cap
  <2>5. ASSUME NEW w \in Workers
        PROVE  /\ worker'[w] \in WorkerType
               /\ worker'[w].pc = worker[w].pc
               /\ worker'[w].job = worker[w].job
               /\ worker'[w].attempt = worker[w].attempt
    <3>1. worker[w] \in WorkerType
      BY DEF TypeOK
    <3>2. Down(worker[w].left, -1) \in -1..(StartToClose + TakeoverGrace)
      BY <3>1, ConstantsAreNumbers DEF WorkerType, Down
    <3> QED BY <1>16, <3>1, <3>2 DEF Tick, WorkerType
  <2>6. TypeOK'
    BY <1>16, <2>1, <2>2, <2>3, <2>4, <2>5 DEF Tick, TypeOK
  <2> QED
    BY <2>1, <2>5, <2>6 DEF WorkersBusy, BudgetLeft
<1>17. CASE UNCHANGED vars
  BY <1>17 DEF vars, TypeOK, WorkersBusy, BudgetLeft
<1> QED
  BY <1>1, <1>2, <1>3, <1>4, <1>5, <1>6, <1>7, <1>8, <1>9, <1>10, <1>11,
     <1>12, <1>13, <1>14, <1>15, <1>16, <1>17 DEF Next, Claim, Work

\* The type invariant holds of every behaviour, for every value of the
\* constants: clocks stay in range and no activity exceeds its attempts.
THEOREM TypeCorrect == Spec => []TypeOK
<1>1. Safe => TypeOK
  BY DEF Safe
<1> QED
  BY SafeInit, SafeStep, <1>1, PTL DEF Spec

-----------------------------------------------------------------------------
(* At-most-once activities.  SendInv is inductive where AtMostOnceSend and  *)
(* OutcomeKnown are not: they say nothing of the row a stalled worker has   *)
(* inserted, or of the answer it has not recorded yet.                      *)

LEMMA AtMostOnceConstants ==
    ASSUME AtMostOnce
    PROVE  /\ Effect = "AtMostOnce" /\ Effect # "ReadOnly"
           /\ Effect # "ProviderIdempotent"
           /\ RetryOn = {} /\ MaxAttempts = 1
  BY RetryAssumption DEF AtMostOnce

LEMMA SendInvInit == Init => SendInv
<1> SUFFICES ASSUME Init PROVE SendInv
  OBVIOUS
<1>1. SendDiscipline
  <2>1. RowsHonest
    BY DEF Init, RowsHonest, NoStep
  <2>2. WorkersHonest /\ OneSender
    BY DEF Init, WorkersHonest, Honest, OneSender, Sending, Idle
  <2> QED BY <2>1, <2>2 DEF SendDiscipline
<1>2. FailuresKnown
  BY DEF Init, FailuresKnown, Knows, Idle
<1>3. VerdictsHold
  BY DEF Init, VerdictsHold, KnownFailed, NoJob
<1> QED
  BY <1>1, <1>2, <1>3, SafeInit DEF SendInv

\* Steps that change neither the step rows nor any worker nor the provider.
LEMMA SendsUntouched ==
    ASSUME SendDiscipline, FailuresKnown,
           TypeOK, TypeOK',
           \A j \in Jobs : job'[j].attempts >= job[j].attempts,
           UNCHANGED <<step, worker, sends, performed>>
    PROVE  SendDiscipline' /\ FailuresKnown'
<1>1. RowsHonest'
  BY DEF SendDiscipline, RowsHonest, TypeOK, JobType
<1>2. WorkersHonest' /\ OneSender'
  BY DEF SendDiscipline, WorkersHonest, Honest, OneSender
<1>3. FailuresKnown'
  BY DEF FailuresKnown, Knows
<1> QED BY <1>1, <1>2, <1>3 DEF SendDiscipline

LEMMA SendInvStep == SendInv /\ [Next]_vars => SendInv'
<1> SUFFICES ASSUME SendInv, [Next]_vars PROVE SendInv'
  OBVIOUS
<1>0. Safe /\ Safe'
  BY SafeStep DEF SendInv
<1> SUFFICES ASSUME AtMostOnce
             PROVE  SendDiscipline' /\ FailuresKnown' /\ VerdictsHold'
  BY <1>0 DEF SendInv
<1>a. /\ SendDiscipline /\ FailuresKnown /\ VerdictsHold
      /\ RowsHonest /\ WorkersHonest /\ OneSender
  BY DEF SendInv, SendDiscipline
<1>b. /\ TypeOK /\ TypeOK' /\ WorkersBusy /\ BudgetLeft
      /\ BudgetLeft' /\ WorkersBusy'
  BY <1>0 DEF Safe
<1>c. /\ RetryOn = {} /\ MaxAttempts = 1 /\ Effect = "AtMostOnce"
  BY AtMostOnceConstants
<1>1. ASSUME NEW j \in Jobs, Schedule(j)
      PROVE  SendDiscipline' /\ FailuresKnown' /\ VerdictsHold'
  <2>1. \A i \in Jobs : /\ job'[i].attempts >= job[i].attempts
                        /\ job'[i].status = job[i].status
                           \/ job'[i].status = "scheduled"
                        /\ job'[i].error = job[i].error
                           \/ job'[i].status = "scheduled"
    BY <1>1, <1>b DEF Schedule, BudgetLeft, NoJob, TypeOK, JobType
  <2>2. VerdictsHold'
    BY <1>1, <1>a, <2>1 DEF Schedule, VerdictsHold, KnownFailed
  <2> QED BY <1>1, <1>a, <1>b, <2>1, <2>2, SendsUntouched DEF Schedule
<1>2. ASSUME NEW w \in Workers, NEW j \in Jobs, ClaimExpired(w, j)
      PROVE  SendDiscipline' /\ FailuresKnown' /\ VerdictsHold'
  <2>1. job[j].attempts = 0
    BY <1>2, <1>b, <1>c DEF ClaimExpired, Expired, BudgetLeft, TypeOK, JobType
  <2>2. ~performed[j] /\ \A v \in Workers : worker[v].job = j =>
                            worker[v].pc \notin {"inserting", "authorized"}
    <3>1. step[j].row = "none"
      BY <1>a, <2>1 DEF RowsHonest
    <3>2. ~performed[j]
      BY <1>a, <3>1 DEF RowsHonest
    <3>3. \A v \in Workers : worker[v].job = j =>
             worker[v].pc \notin {"inserting", "authorized"}
      BY <1>a, <3>1 DEF WorkersHonest, Honest
    <3> QED BY <3>2, <3>3
  <2>3. /\ job'[j].status = "failed" /\ job'[j].attempts = job[j].attempts
        /\ \A i \in Jobs : i # j => job'[i] = job[i]
    BY <1>2, <1>b, ResolvedType, OutcomesRecorded
    DEF ClaimExpired, TypeOK, Terminal
  <2>4. \A i \in Jobs : job'[i].attempts >= job[i].attempts
    BY <1>b, <2>3 DEF TypeOK, JobType
  <2>5. VerdictsHold'
    BY <1>2, <1>a, <2>2, <2>3 DEF ClaimExpired, VerdictsHold, KnownFailed
  <2> QED BY <1>2, <1>a, <1>b, <2>4, <2>5, SendsUntouched DEF ClaimExpired
<1>3. ASSUME NEW w \in Workers, NEW j \in Jobs, ClaimLateRetry(w, j)
      PROVE  FALSE
  BY <1>3, <1>c DEF ClaimLateRetry
<1>4. ASSUME NEW w \in Workers, NEW j \in Jobs, ClaimLateFail(w, j)
      PROVE  SendDiscipline' /\ FailuresKnown' /\ VerdictsHold'
  <2>1. job' = [job EXCEPT ![j] = Resolved(j, "failed", LateError(j))]
    BY <1>4, <1>c DEF ClaimLateFail
  <2>2. LateError(j) \in Outcomes
    BY OutcomesRecorded DEF LateError
  <2>3. /\ job'[j].status = "failed" /\ job'[j].error = LateError(j)
        /\ job'[j].attempts = job[j].attempts
        /\ \A i \in Jobs : i # j => job'[i] = job[i]
    BY <1>b, <2>1, <2>2, ResolvedType DEF TypeOK, Terminal
  <2>4. ASSUME LateError(j) # "ambiguous"
        PROVE  ~performed[j] /\ \A v \in Workers : worker[v].job = j =>
                            worker[v].pc \notin {"inserting", "authorized"}
    <3>1. step[j].row = "none"
      BY <1>4, <1>b, <2>4 DEF ClaimLateFail, Due, LateError, TypeOK, StepType
    <3> QED BY <1>a, <3>1 DEF RowsHonest, WorkersHonest, Honest
  <2>5. \A i \in Jobs : job'[i].attempts >= job[i].attempts
    BY <1>b, <2>3 DEF TypeOK, JobType
  <2>6. VerdictsHold'
    BY <1>4, <1>a, <2>3, <2>4 DEF ClaimLateFail, VerdictsHold, KnownFailed
  <2> QED BY <1>4, <1>a, <1>b, <2>5, <2>6, SendsUntouched DEF ClaimLateFail
<1>5. ASSUME NEW w \in Workers, NEW j \in Jobs, ClaimDeferred(w, j)
      PROVE  SendDiscipline' /\ FailuresKnown' /\ VerdictsHold'
  <2>1. \A i \in Jobs : /\ job'[i].attempts = job[i].attempts
                        /\ job'[i].status = job[i].status
                        /\ job'[i].error = job[i].error
    BY <1>5, <1>b DEF ClaimDeferred, TypeOK, JobType
  <2>2. \A i \in Jobs : job'[i].attempts >= job[i].attempts
    BY <1>b, <2>1 DEF TypeOK, JobType
  <2>3. VerdictsHold'
    BY <1>5, <1>a, <2>1 DEF ClaimDeferred, VerdictsHold, KnownFailed
  <2> QED BY <1>5, <1>a, <1>b, <2>2, <2>3, SendsUntouched DEF ClaimDeferred
<1>6. ASSUME NEW w \in Workers, NEW j \in Jobs, ClaimLease(w, j)
      PROVE  SendDiscipline' /\ FailuresKnown' /\ VerdictsHold'
  <2>1. /\ worker'[w].pc = "claimed" /\ worker'[w].class = "none"
        /\ worker'[w].send = "NotAttempted"
        /\ \A v \in Workers : v # w => worker'[v] = worker[v]
    BY <1>6, <1>b DEF ClaimLease, TypeOK, Idle
  <2>2. /\ job'[j].status = "running"
        /\ job'[j].attempts >= job[j].attempts
        /\ \A i \in Jobs : i # j => job'[i] = job[i]
    BY <1>6, <1>b DEF ClaimLease, TypeOK, JobType
  <2>3. UNCHANGED <<step, sends, performed>>
    BY <1>6 DEF ClaimLease
  <2>4. RowsHonest'
    BY <1>a, <1>b, <2>2, <2>3 DEF RowsHonest, TypeOK, JobType
  <2>5. WorkersHonest' /\ OneSender'
    BY <1>a, <2>1, <2>3 DEF WorkersHonest, Honest, OneSender, Sending
  <2>6. FailuresKnown'
    BY <1>a, <2>1, <2>3 DEF FailuresKnown, Knows
  <2>7. VerdictsHold'
    BY <1>a, <2>1, <2>2, <2>3 DEF VerdictsHold, KnownFailed
  <2> QED BY <2>4, <2>5, <2>6, <2>7 DEF SendDiscipline
<1>7. ASSUME NEW w \in Workers, AuthorizeOpen(w)
      PROVE  SendDiscipline' /\ FailuresKnown' /\ VerdictsHold'
  <2> DEFINE j == worker[w].job
  <2>1. /\ j \in Jobs /\ worker[w].pc = "claimed"
        /\ job[j].status = "running" /\ job[j].attempts >= 1
        /\ step[j].row \in {"none", "committed"}
    BY <1>7, <1>b DEF AuthorizeOpen, WorkersBusy, HoldsLease, TypeOK, StepType,
       BudgetLeft
  <2>2. /\ worker'[w].job = j /\ worker'[w].left = worker[w].left
        /\ worker'[w].send = worker[w].send
        /\ worker'[w].class = Refusal(w)
        /\ worker'[w].pc = IF step[j].row = "none" THEN "inserting"
                                                   ELSE "checking"
        /\ \A v \in Workers : v # w => worker'[v] = worker[v]
    BY <1>7, <1>b, <1>c DEF AuthorizeOpen, TypeOK, WorkerType
  <2>3. /\ \A i \in Jobs : i # j => step'[i] = step[i]
        /\ step[j].row = "none" => step'[j].row = "inserting"
        /\ step[j].row = "committed" => step'[j] = step[j]
    BY <1>7, <1>b, <1>c, <2>1 DEF AuthorizeOpen, TypeOK
  <2>4. /\ step[j].row = "none" =>
              \/ Refusal(w) = "none"
              \/ Refusal(w) = "start_to_close" /\ worker[w].left < 0
        /\ step[j].row = "committed" => Refusal(w) = "ambiguous"
    BY <1>c, <2>1 DEF Refusal, StepRefusal
  <2>5. UNCHANGED <<job, sends, performed>>
    BY <1>7 DEF AuthorizeOpen
  <2>6. RowsHonest'
    BY <1>a, <2>1, <2>3, <2>5 DEF RowsHonest
  <2>7. WorkersHonest'
    <3>1. Honest(w, j)'
      BY <1>a, <2>1, <2>2, <2>3, <2>4 DEF WorkersHonest, Honest
    <3>2. ASSUME NEW v \in Workers, v # w PROVE Honest(v, worker[v].job)'
      BY <1>a, <1>b, <2>1, <2>2, <2>3, <2>5, <3>2
      DEF WorkersHonest, Honest, WorkersBusy
    <3> QED BY <2>2, <3>1, <3>2 DEF WorkersHonest
  <2>8. OneSender'
    BY <1>a, <2>1, <2>2 DEF WorkersHonest, Honest, OneSender, Sending
  <2>9. FailuresKnown'
    <3>1. Knows(w, j)'
      BY <1>a, <2>1, <2>2, <2>4 DEF FailuresKnown, Knows
    <3>2. ASSUME NEW v \in Workers, v # w PROVE Knows(v, worker[v].job)'
      BY <1>a, <1>b, <2>1, <2>2, <2>3, <2>5, <3>2
      DEF FailuresKnown, Knows, WorkersBusy
    <3> QED BY <2>2, <3>1, <3>2 DEF FailuresKnown
  <2>10. VerdictsHold'
    BY <1>a, <2>1, <2>2, <2>5 DEF VerdictsHold, KnownFailed
  <2> QED BY <2>6, <2>7, <2>8, <2>9, <2>10 DEF SendDiscipline
<1>8. ASSUME NEW w \in Workers, AuthorizeCommit(w)
      PROVE  SendDiscipline' /\ FailuresKnown' /\ VerdictsHold'
  <2> DEFINE j == worker[w].job
  <2>1. j \in Jobs /\ worker[w].pc \in {"inserting", "checking"}
    BY <1>8, <1>b DEF AuthorizeCommit, WorkersBusy
  <2>2. /\ worker'[w].job = j /\ worker'[w].left = worker[w].left
        /\ worker'[w].send = worker[w].send
        /\ worker'[w].class = worker[w].class
        /\ worker'[w].pc = IF worker[w].class = "none" THEN "authorized"
                                                       ELSE "failed"
        /\ \A v \in Workers : v # w => worker'[v] = worker[v]
    BY <1>8, <1>b DEF AuthorizeCommit, TypeOK, WorkerType
  <2>3. /\ \A i \in Jobs : i # j => step'[i] = step[i]
        /\ worker[w].pc = "inserting" => step'[j].row = "committed"
        /\ worker[w].pc = "checking" => step'[j] = step[j]
    BY <1>8, <1>b, <2>1 DEF AuthorizeCommit, TypeOK, StepType
  <2>4. UNCHANGED <<job, sends, performed>>
    BY <1>8 DEF AuthorizeCommit
  <2>5. worker[w].pc = "inserting" => step[j].row = "inserting" /\ sends[j] = 0
    BY <1>a, <2>1 DEF RowsHonest, WorkersHonest, Honest
  <2>6. RowsHonest'
    BY <1>a, <1>b, <2>1, <2>3, <2>4, <2>5 DEF RowsHonest, TypeOK, StepType
  <2>7. WorkersHonest'
    <3>1. Honest(w, j)'
      BY <1>a, <2>1, <2>2, <2>3, <2>4, <2>5 DEF WorkersHonest, Honest
    <3>2. ASSUME NEW v \in Workers, v # w PROVE Honest(v, worker[v].job)'
      BY <1>a, <1>b, <2>1, <2>2, <2>3, <2>4, <2>5, <3>2
      DEF WorkersHonest, Honest, OneSender, Sending, WorkersBusy
    <3> QED BY <2>2, <3>1, <3>2 DEF WorkersHonest
  <2>8. OneSender'
    BY <1>a, <2>1, <2>2, <2>5 DEF WorkersHonest, Honest, OneSender, Sending
  <2>9. FailuresKnown'
    <3>1. Knows(w, j)'
      BY <1>a, <2>1, <2>2, <2>4 DEF FailuresKnown, Knows
    <3>2. ASSUME NEW v \in Workers, v # w PROVE Knows(v, worker[v].job)'
      BY <1>a, <1>b, <2>1, <2>2, <2>3, <2>4, <2>5, <3>2
      DEF FailuresKnown, Knows, WorkersBusy
    <3> QED BY <2>2, <3>1, <3>2 DEF FailuresKnown
  <2>10. VerdictsHold'
    BY <1>a, <2>1, <2>2, <2>4 DEF VerdictsHold, KnownFailed, WorkersHonest,
       Honest
  <2> QED BY <2>6, <2>7, <2>8, <2>9, <2>10 DEF SendDiscipline
<1>9. ASSUME NEW w \in Workers, AuthorizeLost(w) \/ CompleteStale(w)
      PROVE  SendDiscipline' /\ FailuresKnown' /\ VerdictsHold'
  <2>1. /\ worker'[w] = Idle
        /\ \A v \in Workers : v # w => worker'[v] = worker[v]
        /\ UNCHANGED <<job, step, sends, performed>>
    BY <1>9, <1>b DEF AuthorizeLost, CompleteStale, TypeOK
  <2>2. RowsHonest'
    BY <1>a, <2>1 DEF RowsHonest
  <2>3. WorkersHonest' /\ OneSender'
    BY <1>a, <2>1 DEF WorkersHonest, Honest, OneSender, Sending, Idle
  <2>4. FailuresKnown'
    BY <1>a, <2>1 DEF FailuresKnown, Knows, Idle
  <2>5. VerdictsHold'
    BY <1>a, <2>1 DEF VerdictsHold, KnownFailed, Idle
  <2> QED BY <2>2, <2>3, <2>4, <2>5 DEF SendDiscipline
<1>10. ASSUME NEW w \in Workers, Send(w)
       PROVE  SendDiscipline' /\ FailuresKnown' /\ VerdictsHold'
  <2> DEFINE j == worker[w].job
  <2>1. /\ j \in Jobs /\ worker[w].pc = "authorized"
        /\ step[j].row = "committed" /\ sends[j] = 0 /\ ~performed[j]
        /\ ~KnownFailed(j) /\ job[j].status # "succeeded"
    BY <1>10, <1>a, <1>b DEF Send, WorkersBusy, WorkersHonest, Honest,
       RowsHonest, VerdictsHold
  <2>2. PICK carried \in BOOLEAN :
          /\ performed' = [performed EXCEPT ![worker[w].job] = @ \/ carried]
          /\ worker' = [worker EXCEPT ![w].pc = "sent", ![w].carried = carried]
    BY <1>10 DEF Send
  <2>3. /\ worker'[w].pc = "sent" /\ worker'[w].carried = carried
        /\ worker'[w].job = j /\ worker'[w].class = worker[w].class
        /\ worker'[w].left = worker[w].left /\ worker'[w].send = worker[w].send
        /\ \A v \in Workers : v # w => worker'[v] = worker[v]
    BY <1>b, <2>2 DEF TypeOK, WorkerType
  <2>4. /\ performed'[j] = carried
        /\ sends'[j] = 1
        /\ \A i \in Jobs : i # j => performed'[i] = performed[i]
                                    /\ sends'[i] = sends[i]
        /\ UNCHANGED <<job, step>>
    BY <1>10, <1>b, <2>1, <2>2 DEF Send, TypeOK
  <2>5. RowsHonest'
    BY <1>a, <2>1, <2>4 DEF RowsHonest
  <2>6. ASSUME NEW v \in Workers, v # w, worker[v].job = j
        PROVE  /\ worker[v].pc \notin {"authorized", "sent", "succeeded"}
               /\ worker[v].pc = "failed" => worker[v].send = "NotAttempted"
    BY <1>a, <2>1, <2>6 DEF WorkersHonest, Honest, OneSender, Sending,
       FailuresKnown, Knows
  <2>7. WorkersHonest'
    <3>1. Honest(w, j)'
      BY <2>1, <2>3, <2>4 DEF Honest
    <3>2. ASSUME NEW v \in Workers, v # w PROVE Honest(v, worker[v].job)'
      BY <1>a, <1>b, <2>3, <2>4, <2>6, <3>2
      DEF WorkersHonest, Honest, WorkersBusy
    <3> QED BY <2>3, <3>1, <3>2 DEF WorkersHonest
  <2>8. OneSender'
    BY <1>a, <2>3, <2>6 DEF OneSender, Sending
  <2>9. FailuresKnown'
    <3>1. Knows(w, j)'
      BY <1>a, <2>1, <2>3 DEF FailuresKnown, Knows
    <3>2. ASSUME NEW v \in Workers, v # w PROVE Knows(v, worker[v].job)'
      BY <1>a, <1>b, <2>3, <2>4, <2>6, <3>2
      DEF FailuresKnown, Knows, WorkersBusy
    <3> QED BY <2>3, <3>1, <3>2 DEF FailuresKnown
  <2>10. VerdictsHold'
    BY <1>a, <2>1, <2>3, <2>4 DEF VerdictsHold, KnownFailed
  <2> QED BY <2>5, <2>7, <2>8, <2>9, <2>10 DEF SendDiscipline
<1>11. ASSUME NEW w \in Workers,
              AnswerSuccess(w) \/ AnswerUnusable(w) \/ AnswerFailure(w)
       PROVE  SendDiscipline' /\ FailuresKnown' /\ VerdictsHold'
  <2> DEFINE j == worker[w].job
  <2>1. /\ worker[w].pc = "sent" /\ step[j].row = "committed" /\ sends[j] = 1
        /\ performed[j] = worker[w].carried /\ worker[w] \in WorkerType
        /\ UNCHANGED <<job, step, sends, performed>>
    BY <1>11, <1>a, <1>b DEF AnswerSuccess, AnswerUnusable, AnswerFailure,
       WorkersHonest, Honest, TypeOK
  <2>2. /\ worker'[w].job = j
        /\ worker'[w].pc \in {"succeeded", "failed"}
        /\ worker'[w].class # "start_to_close"
        /\ worker'[w].send \in {"Attempted", "Answered"}
        /\ worker'[w].pc = "succeeded" => worker[w].carried
        /\ worker'[w].send = "Attempted" =>
              /\ worker'[w].class \in AllClasses
              /\ worker'[w].class \in RefusalClasses => ~worker[w].carried
        /\ \A v \in Workers : v # w => worker'[v] = worker[v]
    <3>1. ASSUME NEW pc, NEW class, NEW send, NEW after,
                 Replied(w, pc, class, send, after)
          PROVE  /\ worker'[w].job = j /\ worker'[w].pc = pc
                 /\ worker'[w].class = class /\ worker'[w].send = send
                 /\ \A v \in Workers : v # w => worker'[v] = worker[v]
      BY <1>b, <2>1, <3>1 DEF Replied, TypeOK, WorkerType
    <3>2. CASE AnswerSuccess(w)
      BY <3>1, <3>2 DEF AnswerSuccess
    <3>3. CASE AnswerUnusable(w)
      BY <3>1, <3>3 DEF AnswerUnusable
    <3>4. CASE AnswerFailure(w)
      <4>1. PICK class \in Classes, after \in RetryAfters :
              /\ class \in RefusalClasses => ~worker[w].carried
              /\ Replied(w, "failed", class, "Attempted", after)
        BY <3>4 DEF AnswerFailure
      <4>2. class \in AllClasses /\ class # "start_to_close"
        BY EnvironmentAssumption
        DEF AllClasses, AmbiguousClasses, RefusalClasses
      <4> QED BY <3>1, <4>1, <4>2
    <3> QED BY <1>11, <3>2, <3>3, <3>4
  <2>3. RowsHonest'
    BY <1>a, <2>1 DEF RowsHonest
  <2>4. WorkersHonest'
    <3>1. Honest(w, j)'
      BY <2>1, <2>2 DEF Honest
    <3>2. ASSUME NEW v \in Workers, v # w PROVE Honest(v, worker[v].job)'
      BY <1>a, <2>1, <2>2, <3>2 DEF WorkersHonest, Honest
    <3> QED BY <2>2, <3>1, <3>2 DEF WorkersHonest
  <2>5. OneSender'
    BY <1>a, <2>2 DEF OneSender, Sending
  <2>6. FailuresKnown'
    <3>1. Knows(w, j)'
      BY <2>1, <2>2 DEF Knows
    <3>2. ASSUME NEW v \in Workers, v # w PROVE Knows(v, worker[v].job)'
      BY <1>a, <2>1, <2>2, <3>2 DEF FailuresKnown, Knows
    <3> QED BY <2>2, <3>1, <3>2 DEF FailuresKnown
  <2>7. VerdictsHold'
    BY <1>a, <2>1, <2>2 DEF VerdictsHold, KnownFailed
  <2> QED BY <2>3, <2>4, <2>5, <2>6, <2>7 DEF SendDiscipline
<1>12. ASSUME NEW w \in Workers, CompleteSuccess(w) \/ CompleteFailure(w)
       PROVE  SendDiscipline' /\ FailuresKnown' /\ VerdictsHold'
  <2> DEFINE j == worker[w].job
  <2>1. /\ j \in Jobs /\ worker[w].pc \in {"succeeded", "failed"}
        /\ worker[w].left >= 0
        /\ worker'[w] = Idle
        /\ \A v \in Workers : v # w => worker'[v] = worker[v]
        /\ UNCHANGED <<step, sends, performed>>
    BY <1>12, <1>b DEF CompleteSuccess, CompleteFailure, WorkersBusy, Fenced,
       TypeOK
  <2>2. PICK st \in Terminal, er \in Outcomes :
          /\ job' = [job EXCEPT ![j] = Resolved(j, st, er)]
          /\ st = "succeeded" => worker[w].pc = "succeeded"
          /\ st = "failed" => worker[w].pc = "failed" /\ er = RecordedClass(w)
    <3>1. CASE CompleteSuccess(w)
      BY <3>1, OutcomesRecorded DEF CompleteSuccess, Terminal
    <3>2. CASE CompleteFailure(w)
      <4>1. ~Retryable(w)
        BY <1>c DEF Retryable
      <4>2. RecordedClass(w) \in Outcomes
        BY <1>b, OutcomesRecorded DEF RecordedClass, TypeOK, WorkerType
      <4> QED BY <3>2, <4>1, <4>2 DEF CompleteFailure, Terminal
    <3> QED BY <1>12, <3>1, <3>2
  <2>3. /\ job'[j].status = st /\ job'[j].error = er
        /\ job'[j].attempts = job[j].attempts
        /\ \A i \in Jobs : i # j => job'[i] = job[i]
    BY <1>b, <2>1, <2>2, ResolvedType DEF TypeOK
  <2>4. RowsHonest'
    BY <1>a, <2>1, <2>3 DEF RowsHonest
  <2>5. WorkersHonest' /\ OneSender'
    BY <1>a, <2>1 DEF WorkersHonest, Honest, OneSender, Sending, Idle
  <2>6. FailuresKnown'
    BY <1>a, <2>1 DEF FailuresKnown, Knows, Idle
  <2>7. ASSUME st = "failed", er \notin {"ambiguous", "invariant"}
        PROVE  /\ ~performed[j]
               /\ step[j].row = "committed" /\ sends[j] = 1
    <3>1. /\ worker[w].pc = "failed" /\ er = RecordedClass(w)
          /\ Knows(w, j) /\ worker[w] \in WorkerType
      BY <1>a, <1>b, <2>2, <2>7 DEF FailuresKnown, TypeOK
    <3>2. worker[w].send # "NotAttempted"
      BY <1>b, <2>1, <2>7, <3>1 DEF Knows, RecordedClass, SendOutcomeIsUnknown,
         TypeOK, WorkerType
    <3>3. step[j].row = "committed" /\ sends[j] = 1
      BY <3>1, <3>2 DEF Knows
    <3>4. worker[w].send = "Attempted" /\ worker[w].class \in RefusalClasses
      BY <2>7, <3>1, <3>2, <3>3 DEF Knows, RecordedClass, SendOutcomeIsUnknown,
         AllClasses, WorkerType
    <3> QED BY <3>1, <3>3, <3>4 DEF Knows
  <2>8. VerdictsHold'
    <3>1. worker[w].pc = "succeeded" => performed[j]
      BY <1>a DEF WorkersHonest, Honest
    <3>2. ASSUME job'[j].status = "failed",
                 job'[j].error \notin {"ambiguous", "invariant"}
          PROVE  /\ ~performed'[j]
                 /\ \A v \in Workers : worker'[v].job = j =>
                       worker'[v].pc \notin {"inserting", "authorized"}
      BY <1>a, <2>1, <2>3, <2>7, <3>2 DEF WorkersHonest, Honest, Idle
    <3>3. ASSUME NEW i \in Jobs, i # j, job'[i].status = "failed",
                 job'[i].error \notin {"ambiguous", "invariant"}
          PROVE  /\ ~performed'[i]
                 /\ \A v \in Workers : worker'[v].job = i =>
                       worker'[v].pc \notin {"inserting", "authorized"}
      BY <1>a, <2>1, <2>3, <3>3 DEF KnownFailed, VerdictsHold, Idle
    <3>4. \A i \in Jobs : job'[i].status = "succeeded" => performed'[i]
      BY <1>a, <2>1, <2>2, <2>3, <3>1 DEF VerdictsHold
    <3> QED BY <3>2, <3>3, <3>4 DEF VerdictsHold, KnownFailed
  <2> QED BY <2>4, <2>5, <2>6, <2>8 DEF SendDiscipline
<1>13. ASSUME NEW w \in Workers, CompleteRetry(w) PROVE FALSE
  BY <1>13, <1>c DEF CompleteRetry, Retryable
<1>14. ASSUME NEW w \in Workers, Crash(w)
       PROVE  SendDiscipline' /\ FailuresKnown' /\ VerdictsHold'
  <2> DEFINE j == worker[w].job
  <2>1. /\ j \in Jobs /\ worker[w].pc # "idle"
        /\ worker'[w] = Idle
        /\ \A v \in Workers : v # w => worker'[v] = worker[v]
        /\ UNCHANGED <<job, sends, performed>>
        /\ \A i \in Jobs : i # j => step'[i] = step[i]
        /\ worker[w].pc # "inserting" => step' = step
        /\ worker[w].pc = "inserting" => step'[j].row = "none"
    BY <1>14, <1>b DEF Crash, WorkersBusy, TypeOK, NoStep
  <2>2. worker[w].pc = "inserting" => step[j].row = "inserting" /\ sends[j] = 0
    BY <1>a, <2>1 DEF RowsHonest, WorkersHonest, Honest
  <2>3. RowsHonest'
    BY <1>a, <2>1, <2>2 DEF RowsHonest
  <2>4. WorkersHonest'
    <3>1. ASSUME NEW v \in Workers, v # w PROVE Honest(v, worker[v].job)'
      BY <1>a, <1>b, <2>1, <2>2, <3>1
      DEF WorkersHonest, Honest, WorkersBusy, OneSender, Sending
    <3> QED BY <2>1, <3>1 DEF WorkersHonest, Honest, Idle
  <2>5. OneSender'
    BY <1>a, <2>1 DEF OneSender, Sending, Idle
  <2>6. FailuresKnown'
    <3>1. ASSUME NEW v \in Workers, v # w PROVE Knows(v, worker[v].job)'
      BY <1>a, <1>b, <2>1, <2>2, <3>1 DEF FailuresKnown, Knows, WorkersBusy
    <3> QED BY <2>1, <3>1 DEF FailuresKnown, Knows, Idle
  <2>7. VerdictsHold'
    BY <1>a, <2>1 DEF VerdictsHold, KnownFailed, Idle
  <2> QED BY <2>3, <2>4, <2>5, <2>6, <2>7 DEF SendDiscipline
<1>15. ASSUME Tick
       PROVE  SendDiscipline' /\ FailuresKnown' /\ VerdictsHold'
  <2>1. ASSUME NEW i \in Jobs
        PROVE  /\ job'[i].status = job[i].status
               /\ job'[i].error = job[i].error
               /\ job'[i].attempts = job[i].attempts
    <3>1. job[i] \in JobType
      BY <1>b DEF TypeOK
    <3> QED BY <1>15, <3>1 DEF Tick, JobType
  <2>2. UNCHANGED <<step, sends, performed>>
    BY <1>15, <1>b, <1>c DEF Tick, TypeOK
  <2>3. ASSUME NEW v \in Workers
        PROVE  /\ worker'[v].pc = worker[v].pc
               /\ worker'[v].job = worker[v].job
               /\ worker'[v].class = worker[v].class
               /\ worker'[v].send = worker[v].send
               /\ worker'[v].carried = worker[v].carried
               /\ worker[v].left < 0 => worker'[v].left < 0
    <3>1. worker[v] \in WorkerType
      BY <1>b DEF TypeOK
    <3>2. worker[v].left < 0 => Down(worker[v].left, -1) < 0
      BY <3>1, ConstantsAreNumbers DEF WorkerType, Down
    <3> QED BY <1>15, <3>1, <3>2 DEF Tick, WorkerType
  <2>4. RowsHonest'
    BY <1>a, <2>1, <2>2 DEF RowsHonest
  <2>5. WorkersHonest' /\ OneSender'
    BY <1>a, <2>2, <2>3 DEF WorkersHonest, Honest, OneSender
  <2>6. FailuresKnown'
    BY <1>a, <2>2, <2>3 DEF FailuresKnown, Knows
  <2>7. VerdictsHold'
    BY <1>a, <2>1, <2>2, <2>3 DEF VerdictsHold, KnownFailed
  <2> QED BY <2>4, <2>5, <2>6, <2>7 DEF SendDiscipline
<1>16. CASE UNCHANGED vars
  BY <1>16, <1>a DEF vars, SendDiscipline, RowsHonest, WorkersHonest, Honest,
     OneSender, FailuresKnown, Knows, VerdictsHold, KnownFailed
<1> QED
  BY <1>1, <1>2, <1>3, <1>4, <1>5, <1>6, <1>7, <1>8, <1>9, <1>10, <1>11,
     <1>12, <1>13, <1>14, <1>15, <1>16 DEF Next, Claim, Work

LEMMA SendInvAlways == Spec => []SendInv
  BY SendInvInit, SendInvStep, PTL DEF Spec

\* The at-most-once promise of ADR 063, for any number of workers, jobs,
\* crashes and takeovers.
THEOREM SentAtMostOnce == Spec => []AtMostOnceSend
<1>1. SendInv => AtMostOnceSend
  BY DEF SendInv, SendDiscipline, RowsHonest, AtMostOnceSend
<1> QED
  BY <1>1, SendInvAlways, PTL

\* A failed at-most-once activity that is not "ambiguous" was not carried out
\* when it is reported, and is never carried out afterwards.
THEOREM ReportedOutcomeIsTrue == Spec => []OutcomeKnown
<1>1. SendInv => OutcomeKnown
  BY DEF SendInv, VerdictsHold, KnownFailed, OutcomeKnown
<1> QED
  BY <1>1, SendInvAlways, PTL

-----------------------------------------------------------------------------
(* Refinement: an at-most-once activity implements ActivityContract.        *)

\* A step that resolves job j is a step of the contract, given what SendInv
\* says of the provider once it has been taken.
LEMMA ResolveRefines ==
    ASSUME VerdictsHold', NEW j \in Jobs, NEW st \in Terminal,
           job[j].status \in Live, job'[j].status = st,
           \A i \in Jobs : i # j => job'[i] = job[i],
           UNCHANGED performed
    PROVE  Contract!Next
<1> DEFINE V == [i \in Jobs |-> Verdict(i)]
<1>1. V[j] = "open"
  BY DEF Verdict, Live
<1>2. V' = [V EXCEPT ![j] = V'[j]]
  BY DEF Verdict
<1>3. V'[j] \in {"succeeded", "failed", "unknown"}
  BY DEF Verdict, Terminal
<1>4. V'[j] = "succeeded" => performed[j]
  BY DEF Verdict, VerdictsHold
<1>5. V'[j] = "failed" => ~performed[j]
  BY DEF Verdict, VerdictsHold, KnownFailed
<1>6. CASE V'[j] = "succeeded"
  <2>1. Contract!Succeed(j)
    BY <1>1, <1>2, <1>4, <1>6 DEF Contract!Succeed
  <2> QED BY <2>1 DEF Contract!Next
<1>7. CASE V'[j] = "failed"
  <2>1. Contract!Fail(j)
    BY <1>1, <1>2, <1>5, <1>7 DEF Contract!Fail
  <2> QED BY <2>1 DEF Contract!Next
<1>8. CASE V'[j] = "unknown"
  <2>1. Contract!GiveUp(j)
    BY <1>1, <1>2, <1>8 DEF Contract!GiveUp
  <2> QED BY <2>1 DEF Contract!Next
<1> QED BY <1>3, <1>6, <1>7, <1>8

LEMMA StepRefines ==
    ASSUME AtMostOnce, SendInv, SendInv', [Next]_vars
    PROVE  Contract!Next \/ UNCHANGED <<[j \in Jobs |-> Verdict(j)], performed>>
<1> DEFINE V == [j \in Jobs |-> Verdict(j)]
           Goal == Contract!Next \/ UNCHANGED <<V, performed>>
<1>a. /\ TypeOK /\ TypeOK' /\ WorkersBusy /\ VerdictsHold /\ VerdictsHold'
      /\ RowsHonest /\ WorkersHonest
  BY DEF SendInv, Safe, SendDiscipline
<1>b. RetryOn = {}
  BY AtMostOnceConstants
<1>c. ASSUME \A i \in Jobs : job'[i].status = job[i].status
                             /\ job'[i].error = job[i].error,
             UNCHANGED performed
      PROVE  Goal
  BY <1>c DEF Verdict
<1>1. ASSUME NEW j \in Jobs, Schedule(j) PROVE Goal
  <2>1. \A i \in Jobs : Verdict(i)' = Verdict(i)
    BY <1>1, <1>a DEF Schedule, Verdict, TypeOK, JobType, NoJob
  <2> QED BY <1>1, <2>1 DEF Schedule
<1>2. ASSUME NEW w \in Workers, NEW j \in Jobs,
             ClaimExpired(w, j) \/ ClaimLateFail(w, j)
      PROVE  Goal
  <2>1. PICK er \in Outcomes : job' = [job EXCEPT ![j] = Resolved(j, "failed", er)]
    BY <1>2, <1>b, OutcomesRecorded DEF ClaimExpired, ClaimLateFail, LateError
  <2>2. job'[j].status = "failed" /\ "failed" \in Terminal
    BY <1>a, <2>1, ResolvedType DEF TypeOK, Terminal
  <2>3. /\ job[j].status \in Live
        /\ \A i \in Jobs : i # j => job'[i] = job[i]
        /\ UNCHANGED performed
    BY <1>2, <1>a, <2>1 DEF ClaimExpired, ClaimLateFail, Due, TypeOK
  <2> QED BY <1>a, <2>2, <2>3, ResolveRefines
<1>3. ASSUME NEW w \in Workers, NEW j \in Jobs, ClaimLateRetry(w, j) PROVE Goal
  BY <1>3, <1>b DEF ClaimLateRetry
<1>4. ASSUME NEW w \in Workers, NEW j \in Jobs, ClaimDeferred(w, j) PROVE Goal
  <2>1. \A i \in Jobs : job'[i].status = job[i].status
                        /\ job'[i].error = job[i].error
    BY <1>4, <1>a DEF ClaimDeferred, TypeOK, JobType
  <2> QED BY <1>4, <1>c, <2>1 DEF ClaimDeferred
<1>5. ASSUME NEW w \in Workers, NEW j \in Jobs, ClaimLease(w, j) PROVE Goal
  <2>1. job[j].status \in Live /\ job'[j].status = "running"
        /\ \A i \in Jobs : i # j => job'[i] = job[i]
    BY <1>5, <1>a DEF ClaimLease, Claimable, Due, TypeOK, JobType
  <2>2. \A i \in Jobs : Verdict(i)' = Verdict(i)
    BY <2>1 DEF Verdict, Live
  <2> QED BY <1>5, <2>2 DEF ClaimLease
<1>6. ASSUME NEW w \in Workers,
             \/ AuthorizeOpen(w) \/ AuthorizeCommit(w) \/ AuthorizeLost(w)
             \/ AnswerSuccess(w) \/ AnswerUnusable(w) \/ AnswerFailure(w)
             \/ CompleteStale(w) \/ Crash(w)
      PROVE  Goal
  <2>1. UNCHANGED <<job, performed>>
    BY <1>6 DEF AuthorizeOpen, AuthorizeCommit, AuthorizeLost, AnswerSuccess,
       AnswerUnusable, AnswerFailure, CompleteStale, Crash
  <2> QED BY <1>c, <2>1
<1>7. ASSUME NEW w \in Workers, Send(w) PROVE Goal
  <2> DEFINE j == worker[w].job
  <2>1. /\ j \in Jobs /\ UNCHANGED job
        /\ ~performed[j] /\ ~KnownFailed(j) /\ job[j].status # "succeeded"
    BY <1>7, <1>a DEF Send, WorkersBusy, WorkersHonest, Honest, RowsHonest,
       VerdictsHold
  <2>2. PICK carried \in BOOLEAN :
            performed' = [performed EXCEPT ![j] = @ \/ carried]
    BY <1>7 DEF Send
  <2>3. V' = V
    BY <2>1 DEF Verdict
  <2>4. CASE ~carried
    <3>1. performed' = performed
      BY <1>a, <2>1, <2>2, <2>4 DEF TypeOK
    <3> QED BY <2>3, <3>1
  <2>5. CASE carried
    <3>1. performed' = [performed EXCEPT ![j] = TRUE]
      BY <1>a, <2>1, <2>2, <2>5 DEF TypeOK
    <3>2. V[j] \in {"open", "unknown"}
      BY <2>1 DEF Verdict, KnownFailed
    <3>3. Contract!Perform(j)
      BY <2>1, <2>3, <3>1, <3>2 DEF Contract!Perform
    <3> QED BY <2>1, <3>3 DEF Contract!Next
  <2> QED BY <2>4, <2>5
<1>8. ASSUME NEW w \in Workers, CompleteSuccess(w) \/ CompleteFailure(w)
      PROVE  Goal
  <2> DEFINE j == worker[w].job
  <2>1. j \in Jobs /\ job[j].status \in Live /\ UNCHANGED performed
    BY <1>8, <1>a DEF CompleteSuccess, CompleteFailure, WorkersBusy, Fenced,
       HoldsLease, Live
  <2>2. PICK st \in Terminal, er \in Outcomes :
            job' = [job EXCEPT ![j] = Resolved(j, st, er)]
    <3>1. RecordedClass(w) \in Outcomes
      BY <1>a, OutcomesRecorded DEF RecordedClass, TypeOK, WorkerType
    <3> QED BY <1>8, <3>1, OutcomesRecorded
            DEF CompleteSuccess, CompleteFailure, Terminal
  <2>3. /\ job'[j].status = st
        /\ \A i \in Jobs : i # j => job'[i] = job[i]
    BY <1>a, <2>1, <2>2, ResolvedType DEF TypeOK
  <2> HIDE DEF j
  <2> QED BY <1>a, <2>1, <2>2, <2>3, ResolveRefines
<1>9. ASSUME NEW w \in Workers, CompleteRetry(w) PROVE Goal
  BY <1>9, <1>b DEF CompleteRetry, Retryable
<1>10. ASSUME Tick PROVE Goal
  <2>1. ASSUME NEW i \in Jobs
        PROVE  job'[i].status = job[i].status /\ job'[i].error = job[i].error
    <3>1. job[i] \in JobType
      BY <1>a DEF TypeOK
    <3> QED BY <1>10, <3>1 DEF Tick, JobType
  <2> QED BY <1>10, <1>c, <2>1 DEF Tick
<1>11. CASE UNCHANGED vars
  BY <1>11, <1>c DEF vars
<1> QED
  BY <1>1, <1>2, <1>3, <1>4, <1>5, <1>6, <1>7, <1>8, <1>9, <1>10, <1>11
  DEF Next, Claim, Work

\* Every behaviour of an at-most-once activity, workers and tables and clocks
\* forgotten, is a behaviour of its contract.
THEOREM ContractImplemented ==
    ASSUME AtMostOnce
    PROVE  Spec => ImplementsContract
<1>1. Init => Contract!Init
  BY DEF Init, Contract!Init, Verdict, NoJob
<1>2. SendInv /\ SendInv' /\ [Next]_vars
        => [Contract!Next]_<<[j \in Jobs |-> Verdict(j)], performed>>
  BY StepRefines
<1> QED
  BY <1>1, <1>2, SendInvAlways, PTL
  DEF Spec, ImplementsContract, Contract!Spec

-----------------------------------------------------------------------------
(* The capacity bucket, and the events *)


\* The reservation a claim made for its worker, as time has left it.
Reservation(w) == [job |-> worker[w].job, generation |-> worker[w].generation,
                   left |-> worker[w].left]

\* No lease has two workers, and none is of a generation still to come.
LeasesApart ==
    \A w \in Workers :
        worker[w].pc # "idle" =>
            /\ worker[w].generation <= job[worker[w].job].generation
            /\ \A v \in Workers :
                  v # w /\ worker[v].pc # "idle" /\ worker[v].job = worker[w].job
                  => worker[v].generation # worker[w].generation

\* A worker inside its deadline has the lease, its job is not due before the
\* deadline, and its reservation is still there.
HoldersReserved ==
    \A w \in Workers :
        Holding(w) =>
            /\ HoldsLease(w)
            /\ job[worker[w].job].available = worker[w].left
            /\ Reservation(w) \in reserved

\* What claims saw of the bucket stays true of it.
BucketKept ==
    /\ IsFiniteSet(reserved)
    /\ Cardinality(Unexpired) <= MaxInFlight
    /\ \A r, s \in Unexpired :
          r # s => SerialKey[r.job] = None \/ SerialKey[r.job] # SerialKey[s.job]

Sharing == LeasesApart /\ HoldersReserved /\ BucketKept
CapacityInv == Safe /\ Sharing /\ OneTerminalEvent

-----------------------------------------------------------------------------
LEMMA CapacityInit == Init => CapacityInv
<1> SUFFICES ASSUME Init PROVE CapacityInv
  OBVIOUS
<1>1. Safe
  BY SafeInit
<1>2. LeasesApart /\ HoldersReserved
  BY DEF Init, Idle, LeasesApart, HoldersReserved, Holding
<1>3. Unexpired = {}
  BY DEF Init, Unexpired
<1>4. BucketKept
  BY <1>3, FS_EmptySet, ConstantsAreNumbers DEF Init, BucketKept
<1>5. OneTerminalEvent
  BY DEF Init, OneTerminalEvent, NoJob, Terminal
<1> QED
  BY <1>1, <1>2, <1>4, <1>5 DEF CapacityInv, Sharing

\* A job that some worker inside its deadline works on is not due.
LEMMA HeldIsNotDue ==
    ASSUME CapacityInv, NEW w \in Workers, Holding(w)
    PROVE  /\ worker[w].job \in Jobs /\ job[worker[w].job].status = "running"
           /\ ~Due(worker[w].job)
<1>1. worker[w].job \in Jobs
  BY DEF CapacityInv, Safe, WorkersBusy, Holding
<1>2. /\ job[worker[w].job].status = "running"
      /\ job[worker[w].job].available = worker[w].left /\ worker[w].left > 0
  BY DEF CapacityInv, Sharing, HoldersReserved, HoldsLease, Holding
<1>3. worker[w].left \in Int
  BY ConstantsAreNumbers DEF CapacityInv, Safe, TypeOK, WorkerType
<1> QED
  BY <1>1, <1>2, <1>3 DEF Due

\* The bucket when reservations only go away.
LEMMA BucketShrinks ==
    ASSUME BucketKept, TypeOK, reserved' \subseteq reserved
    PROVE  BucketKept'
<1>1. Unexpired' \subseteq Unexpired
  BY DEF Unexpired
<1>2. IsFiniteSet(Unexpired) /\ IsFiniteSet(reserved')
  BY FS_Subset DEF BucketKept, Unexpired
<1>3. Cardinality(Unexpired') <= Cardinality(Unexpired)
  BY <1>1, <1>2, FS_Subset
<1>4. Cardinality(Unexpired') \in Nat /\ Cardinality(Unexpired) \in Nat
  BY <1>1, <1>2, FS_Subset, FS_CardinalityType
<1>5. Cardinality(Unexpired') <= MaxInFlight
  BY <1>3, <1>4, ConstantsAreNumbers DEF BucketKept
<1> QED
  BY <1>1, <1>2, <1>5 DEF BucketKept

\* A step of workers that go on with their claims, or forget them.
LEMMA WorkersGoOn ==
    ASSUME CapacityInv, Safe', UNCHANGED <<job, reserved, events>>,
           \A w \in Workers :
              \/ worker'[w].pc = "idle"
              \/ /\ worker[w].pc # "idle"
                 /\ worker'[w].job = worker[w].job
                 /\ worker'[w].attempt = worker[w].attempt
                 /\ worker'[w].generation = worker[w].generation
                 /\ worker'[w].left = worker[w].left
    PROVE  CapacityInv'
<1> USE DEF CapacityInv, Sharing
<1>1. LeasesApart'
  BY DEF LeasesApart
<1>2. HoldersReserved'
  <2> SUFFICES ASSUME NEW w \in Workers, Holding(w)'
               PROVE  (/\ HoldsLease(w)
                       /\ job[worker[w].job].available = worker[w].left
                       /\ Reservation(w) \in reserved)'
    BY DEF HoldersReserved
  <2>1. Holding(w) /\ worker'[w].job = worker[w].job /\ worker'[w].left = worker[w].left
        /\ worker'[w].generation = worker[w].generation
        /\ worker'[w].attempt = worker[w].attempt
    BY DEF Holding
  <2> QED
    BY <2>1 DEF HoldersReserved, HoldsLease, Reservation
<1>3. BucketKept'
  BY DEF BucketKept, Unexpired
<1>4. OneTerminalEvent'
  BY DEF OneTerminalEvent
<1> QED
  BY <1>1, <1>2, <1>3, <1>4

\* A job no worker keeps holding changes, and what reserves for others stays.
LEMMA JobChanges ==
    ASSUME CapacityInv, Safe', NEW j \in Jobs, NEW J,
           job' = [job EXCEPT ![j] = J],
           \A w \in Workers : worker'[w].pc = "idle" \/ worker'[w] = worker[w],
           \A w \in Workers : worker[w].pc # "idle" /\ worker[w].job = j =>
                                  worker[w].generation <= J.generation,
           \A w \in Workers : Holding(w) /\ worker[w].job = j => worker'[w].pc = "idle",
           reserved' \subseteq reserved,
           \A w \in Workers : Holding(w) /\ worker[w].job # j => Reservation(w) \in reserved',
           job[j].status \notin Terminal,
           \/ J.status \notin Terminal /\ events' = events
           \/ /\ J.status \in Terminal
              /\ \E e : e.job = j /\ events' = events \cup {e}
    PROVE  CapacityInv'
<1> USE DEF CapacityInv, Sharing
<1>1. job'[j] = J /\ \A i \in Jobs : i # j => job'[i] = job[i]
  BY DEF Safe, TypeOK
<1>2. \A w \in Workers : worker[w].pc # "idle" => worker[w].job \in Jobs
  BY DEF Safe, WorkersBusy
<1>3. LeasesApart'
  BY <1>1, <1>2 DEF LeasesApart
<1>4. HoldersReserved'
  <2> SUFFICES ASSUME NEW w \in Workers, Holding(w)'
               PROVE  (/\ HoldsLease(w)
                       /\ job[worker[w].job].available = worker[w].left
                       /\ Reservation(w) \in reserved)'
    BY DEF HoldersReserved
  <2>1. Holding(w) /\ worker'[w] = worker[w] /\ worker[w].job # j /\ worker[w].job \in Jobs
    BY <1>2 DEF Holding
  <2> QED
    BY <1>1, <2>1 DEF HoldersReserved, HoldsLease, Reservation
<1>5. BucketKept'
  BY BucketShrinks DEF Safe
<1>6. OneTerminalEvent'
  <2>1. CASE J.status \notin Terminal /\ events' = events
    BY <1>1, <2>1 DEF OneTerminalEvent
  <2>2. CASE J.status \in Terminal /\ \E e : e.job = j /\ events' = events \cup {e}
    <3>1. PICK e : e.job = j /\ events' = events \cup {e}
      BY <2>2
    <3>2. \A f \in events : f.job # j
      BY DEF OneTerminalEvent
    <3> QED
      BY <1>1, <2>2, <3>1, <3>2 DEF OneTerminalEvent
  <2> QED
    BY <2>1, <2>2
<1> QED
  BY <1>3, <1>4, <1>5, <1>6
\* A claim takes a lease: nobody works on the job any more, the bucket has room.
LEMMA LeaseClaimed ==
    ASSUME CapacityInv, Safe', NEW w \in Workers, NEW j \in Jobs, ClaimLease(w, j)
    PROVE  CapacityInv'
<1> USE DEF CapacityInv, Sharing
<1> DEFINE attempt == IF IsTakeover(j) THEN job[j].attempts ELSE job[j].attempts + 1
           lease == job[j].generation + 1
           left == CompletionLeft(j)
           new == [job |-> j, generation |-> lease, left |-> left]
<1>1. /\ job' = [job EXCEPT ![j].status = "running", ![j].attempts = attempt,
                            ![j].generation = lease, ![j].available = left,
                            ![j].start = 0,
                            ![j].close = IF IsTakeover(j) THEN @ ELSE StartToClose]
      /\ reserved' = Unexpired \cup {new}
      /\ worker' = [worker EXCEPT ![w] = [Idle EXCEPT !.pc = "claimed", !.job = j,
                                             !.attempt = attempt, !.generation = lease,
                                             !.left = left]]
      /\ events' = events
  BY DEF ClaimLease
<1>2. /\ worker'[w].pc = "claimed" /\ worker'[w].job = j /\ worker'[w].attempt = attempt
      /\ worker'[w].generation = lease /\ worker'[w].left = left
      /\ \A v \in Workers : v # w => worker'[v] = worker[v]
  BY <1>1 DEF Idle, Safe, TypeOK
<1>3. /\ job'[j].status = "running" /\ job'[j].attempts = attempt
      /\ job'[j].generation = lease /\ job'[j].available = left
      /\ \A i \in Jobs : i # j => job'[i] = job[i]
  BY <1>1 DEF Safe, TypeOK, JobType
<1>4. job[j].generation \in Nat /\ lease > job[j].generation
  BY DEF Safe, TypeOK, JobType
<1>5. Due(j) /\ ~Full /\ SameKey(j) = {}
  BY DEF ClaimLease, Claimable, Admitted
<1>6. \A v \in Workers : Holding(v) => worker[v].job # j
  BY <1>5, HeldIsNotDue
<1>7. \A v \in Workers : worker[v].pc # "idle" =>
          worker[v].job \in Jobs /\ worker[v].generation \in Nat
  BY DEF Safe, TypeOK, WorkersBusy, WorkerType
<1> HIDE DEF attempt, lease, left
<1>8. LeasesApart'
  <2> SUFFICES ASSUME NEW v \in Workers, worker'[v].pc # "idle"
               PROVE  /\ worker'[v].generation <= job'[worker'[v].job].generation
                      /\ \A u \in Workers :
                            u # v /\ worker'[u].pc # "idle" /\ worker'[u].job = worker'[v].job
                            => worker'[u].generation # worker'[v].generation
    BY DEF LeasesApart
  <2>1. lease \in Nat
    BY <1>4 DEF lease
  <2>2. \A u \in Workers : u # w /\ worker'[u].pc # "idle" /\ worker'[u].job = j
                           => worker'[u].generation < lease
    BY <1>2, <1>4, <1>7, <2>1 DEF LeasesApart
  <2>3. CASE v = w
    BY <1>2, <1>3, <1>7, <2>1, <2>2, <2>3
  <2>4. CASE v # w
    <3>1. worker'[v] = worker[v] /\ worker[v].pc # "idle"
      BY <1>2, <2>4
    <3>2. worker[v].generation <= job'[worker[v].job].generation
      BY <1>3, <1>7, <2>1, <2>2, <2>4, <3>1 DEF LeasesApart
    <3>3. ASSUME NEW u \in Workers, u # v, worker'[u].pc # "idle",
                 worker'[u].job = worker'[v].job
          PROVE  worker'[u].generation # worker'[v].generation
      BY <1>2, <1>7, <2>1, <2>2, <2>4, <3>1, <3>3 DEF LeasesApart
    <3> QED
      BY <3>1, <3>2, <3>3
  <2> QED
    BY <2>3, <2>4
<1>9. HoldersReserved'
  <2> SUFFICES ASSUME NEW v \in Workers, Holding(v)'
               PROVE  (/\ HoldsLease(v)
                       /\ job[worker[v].job].available = worker[v].left
                       /\ Reservation(v) \in reserved)'
    BY DEF HoldersReserved
  <2>1. CASE v = w
    <3>1. HoldsLease(v)'
      BY <1>2, <1>3, <2>1 DEF HoldsLease
    <3>2. job'[worker'[v].job].available = worker'[v].left
      BY <1>2, <1>3, <2>1
    <3>3. Reservation(v)' \in reserved'
      BY <1>1, <1>2, <2>1 DEF Reservation
    <3> QED
      BY <3>1, <3>2, <3>3
  <2>2. CASE v # w
    <3>1. worker'[v] = worker[v] /\ Holding(v) /\ worker[v].job # j /\ worker[v].job \in Jobs
      BY <1>2, <1>6, <1>7, <2>2 DEF Holding
    <3>2. job'[worker[v].job] = job[worker[v].job]
      BY <1>3, <3>1
    <3>3. Reservation(v) \in Unexpired
      BY <3>1 DEF HoldersReserved, Unexpired, Reservation, Holding
    <3> QED
      <4>1. HoldsLease(v)'
        BY <3>1, <3>2 DEF HoldersReserved, HoldsLease
      <4>2. job'[worker'[v].job].available = worker'[v].left
        BY <3>1, <3>2 DEF HoldersReserved
      <4>3. Reservation(v)' \in reserved'
        BY <1>1, <3>1, <3>3 DEF Reservation
      <4> QED
        BY <4>1, <4>2, <4>3
  <2> QED
    BY <2>1, <2>2
<1>10. BucketKept'
  <2>1. PICK U : U = Unexpired
    OBVIOUS
  <2>2. IsFiniteSet(U) /\ Cardinality(U) \in Nat
    BY <2>1, FS_Subset, FS_CardinalityType DEF BucketKept, Unexpired
  <2>3. PICK n : n = new
    OBVIOUS
  <2>4. IsFiniteSet(U \cup {n}) /\ Cardinality(U \cup {n}) <= Cardinality(U) + 1
    <3>1. /\ IsFiniteSet(U \cup {n})
          /\ Cardinality(U \cup {n}) = IF n \in U THEN Cardinality(U) ELSE Cardinality(U) + 1
      BY <2>2, FS_AddElement
    <3> QED
      BY <2>2, <3>1
  <2>5. Cardinality(U \cup {n}) \in Nat
    BY <2>4, FS_CardinalityType
  <2>6. Unexpired' \subseteq U \cup {n} /\ reserved' = U \cup {n}
    BY <1>1, <2>1, <2>3 DEF Unexpired
  <2>7. PICK V : V = Unexpired'
    OBVIOUS
  <2>8. Cardinality(V) <= Cardinality(U \cup {n}) /\ IsFiniteSet(V)
    BY <2>4, <2>6, <2>7, FS_Subset
  <2>9. Cardinality(V) \in Nat
    BY <2>8, FS_CardinalityType
  <2>10. Cardinality(V) <= MaxInFlight
    <3>1. ~(Cardinality(U) >= MaxInFlight)
      BY <1>5, <2>1 DEF Full
    <3> QED
      BY <2>2, <2>4, <2>5, <2>8, <2>9, <3>1, ConstantsAreNumbers
  <2>11. \A r \in U : SerialKey[j] = None \/ SerialKey[r.job] # SerialKey[j]
    BY <1>5, <2>1 DEF SameKey
  <2>12. n.job = j
    BY <2>3
  <2>13. \A r, s \in V :
          r # s => SerialKey[r.job] = None \/ SerialKey[r.job] # SerialKey[s.job]
    <3> SUFFICES ASSUME NEW r \in V, NEW s \in V, r # s
                 PROVE  SerialKey[r.job] = None \/ SerialKey[r.job] # SerialKey[s.job]
      OBVIOUS
    <3>1. CASE r \in U /\ s \in U
      BY <2>1, <3>1 DEF BucketKept
    <3>2. CASE r = n \/ s = n
      BY <2>6, <2>7, <2>11, <2>12, <3>2
    <3> QED
      BY <2>6, <2>7, <3>1, <3>2
  <2> QED
    BY <2>4, <2>6, <2>7, <2>10, <2>13 DEF BucketKept
<1>11. OneTerminalEvent'
  <2>1. job[j].status \notin Terminal /\ job'[j].status \notin Terminal
    BY <1>3, <1>5 DEF Due, Live, Terminal
  <2> QED
    BY <1>1, <1>3, <2>1 DEF OneTerminalEvent
<1> QED
  BY <1>8, <1>9, <1>10, <1>11

\* Time passes for workers, jobs and reservations alike.
LEMMA TimePasses ==
    ASSUME CapacityInv, Safe', Tick
    PROVE  CapacityInv'
<1> USE DEF CapacityInv, Sharing
<1>1. \A i \in Jobs : /\ job'[i].status = job[i].status
                      /\ job'[i].generation = job[i].generation
                      /\ job'[i].attempts = job[i].attempts
                      /\ job'[i].available = Down(job[i].available, 0)
  <2> SUFFICES ASSUME NEW i \in Jobs
               PROVE  /\ job'[i].status = job[i].status
                      /\ job'[i].generation = job[i].generation
                      /\ job'[i].attempts = job[i].attempts
                      /\ job'[i].available = Down(job[i].available, 0)
    OBVIOUS
  <2>1. job[i] \in JobType
    BY DEF Safe, TypeOK
  <2>2. job'[i] = [job[i] EXCEPT
             !.available = Down(@, 0),
             !.start = Down(@, 0),
             !.close = IF job[i].status = "running"
                       THEN Down(@, -(TakeoverGrace + 1)) ELSE @]
    BY DEF Tick
  <2> QED
    BY <2>1, <2>2 DEF JobType
<1>2. \A w \in Workers : /\ worker'[w].pc = worker[w].pc
                         /\ worker'[w].job = worker[w].job
                         /\ worker'[w].attempt = worker[w].attempt
                         /\ worker'[w].generation = worker[w].generation
                         /\ worker'[w].left = IF worker[w].pc = "idle" THEN worker[w].left
                                              ELSE Down(worker[w].left, -1)
  <2> SUFFICES ASSUME NEW w \in Workers
               PROVE  /\ worker'[w].pc = worker[w].pc
                      /\ worker'[w].job = worker[w].job
                      /\ worker'[w].attempt = worker[w].attempt
                      /\ worker'[w].generation = worker[w].generation
                      /\ worker'[w].left = IF worker[w].pc = "idle" THEN worker[w].left
                                           ELSE Down(worker[w].left, -1)
    OBVIOUS
  <2>1. worker[w] \in WorkerType
    BY DEF Safe, TypeOK
  <2>2. worker'[w] = IF worker[w].pc = "idle" THEN worker[w]
                     ELSE [worker[w] EXCEPT !.left = Down(@, -1)]
    BY DEF Tick
  <2> QED
    BY <2>1, <2>2 DEF WorkerType
<1>3. \A w \in Workers : worker[w].pc # "idle" => worker[w].job \in Jobs
  BY DEF Safe, WorkersBusy
<1>4. \A r \in reserved : r \in ReservationType /\ r.left \in Nat
  BY ConstantsAreNumbers DEF Safe, TypeOK, ReservationType
<1>5. PICK f : f = [r \in reserved |-> [r EXCEPT !.left = Down(@, 0)]]
  OBVIOUS
<1>6. reserved' = {f[r] : r \in reserved}
  BY <1>5 DEF Tick
<1>7. \A r \in reserved : /\ f[r].job = r.job /\ f[r].generation = r.generation
                          /\ f[r].left = Down(r.left, 0)
                          /\ f[r] = [job |-> r.job, generation |-> r.generation,
                                     left |-> Down(r.left, 0)]
  BY <1>4, <1>5 DEF ReservationType
<1>8. LeasesApart'
  BY <1>1, <1>2, <1>3 DEF LeasesApart
<1>9. HoldersReserved'
  <2> SUFFICES ASSUME NEW w \in Workers, Holding(w)'
               PROVE  (/\ HoldsLease(w)
                       /\ job[worker[w].job].available = worker[w].left
                       /\ Reservation(w) \in reserved)'
    BY DEF HoldersReserved
  <2>1. worker[w].left \in Int /\ worker[w].pc # "idle" /\ worker[w].job \in Jobs
    BY <1>2, <1>3, ConstantsAreNumbers DEF Safe, TypeOK, WorkerType, Holding
  <2>2. worker'[w].left = worker[w].left - 1 /\ worker[w].left > 1
    BY <1>2, <2>1 DEF Holding, Down
  <2>3. Holding(w)
    BY <2>1, <2>2 DEF Holding
  <2>4. /\ HoldsLease(w) /\ job[worker[w].job].available = worker[w].left
        /\ Reservation(w) \in reserved
    BY <2>3 DEF HoldersReserved
  <2>5. HoldsLease(w)'
    BY <1>1, <1>2, <2>1, <2>4 DEF HoldsLease
  <2>6. job'[worker'[w].job].available = worker'[w].left
    BY <1>1, <1>2, <2>1, <2>2, <2>4 DEF Down
  <2>7. Reservation(w)' = f[Reservation(w)]
    <3>1. Down(worker[w].left, 0) = worker'[w].left
      BY <2>1, <2>2 DEF Down
    <3> QED
      BY <1>2, <1>7, <2>4, <3>1 DEF Reservation
  <2>8. Reservation(w)' \in reserved'
    BY <1>6, <2>4, <2>7
  <2> QED
    BY <2>5, <2>6, <2>8
<1>10. BucketKept'
  <2>1. PICK R : R = reserved
    OBVIOUS
  <2>2. PICK S : S = reserved'
    OBVIOUS
  <2>3. f \in Surjection(R, S)
    BY <1>5, <1>6, <2>1, <2>2 DEF Surjection
  <2>4. IsFiniteSet(S)
    BY <2>1, <2>3, FS_Surjection DEF BucketKept
  <2>5. PICK U : U = Unexpired
    OBVIOUS
  <2>6. U \subseteq R /\ IsFiniteSet(U)
    BY <2>1, <2>5, FS_Subset DEF BucketKept, Unexpired
  <2>7. PICK g : g = [r \in U |-> f[r]]
    OBVIOUS
  <2>8. PICK T : T = {f[r] : r \in U}
    OBVIOUS
  <2>9. g \in Surjection(U, T)
    BY <2>7, <2>8 DEF Surjection
  <2>10. IsFiniteSet(T) /\ Cardinality(T) <= Cardinality(U)
    BY <2>6, <2>9, FS_Surjection
  <2>11. PICK V : V = Unexpired'
    OBVIOUS
  <2>12. \A v \in V : \E r \in U : v = f[r]
    <3> SUFFICES ASSUME NEW v \in V
                 PROVE  \E r \in U : v = f[r]
      OBVIOUS
    <3>1. v \in reserved' /\ v.left > 0
      BY <2>11 DEF Unexpired
    <3>2. PICK r \in reserved : v = f[r]
      BY <1>6, <3>1
    <3>3. r.left > 0
      <4>1. r.left \in Nat /\ Down(r.left, 0) > 0
        BY <1>4, <1>7, <3>1, <3>2
      <4> QED
        BY <4>1 DEF Down
    <3> QED
      BY <2>5, <3>2, <3>3 DEF Unexpired
  <2>13. V \subseteq T
    BY <2>8, <2>12
  <2>14. IsFiniteSet(V) /\ Cardinality(V) <= Cardinality(T)
    BY <2>10, <2>13, FS_Subset
  <2>15. Cardinality(V) \in Nat /\ Cardinality(T) \in Nat /\ Cardinality(U) \in Nat
    BY <2>6, <2>10, <2>14, FS_CardinalityType
  <2>16. Cardinality(V) <= MaxInFlight
    BY <2>5, <2>10, <2>14, <2>15, ConstantsAreNumbers DEF BucketKept
  <2>17. \A r, s \in V :
          r # s => SerialKey[r.job] = None \/ SerialKey[r.job] # SerialKey[s.job]
    <3> SUFFICES ASSUME NEW r \in V, NEW s \in V, r # s
                 PROVE  SerialKey[r.job] = None \/ SerialKey[r.job] # SerialKey[s.job]
      OBVIOUS
    <3>1. PICK p \in U : r = f[p]
      BY <2>12
    <3>2. PICK q \in U : s = f[q]
      BY <2>12
    <3>3. p # q /\ r.job = p.job /\ s.job = q.job
      BY <1>7, <2>1, <2>6, <3>1, <3>2
    <3> QED
      BY <2>5, <3>3 DEF BucketKept
  <2> QED
    BY <2>2, <2>4, <2>11, <2>16, <2>17 DEF BucketKept
<1>11. OneTerminalEvent'
  <2>1. events' = events
    BY DEF Tick
  <2> QED
    BY <1>1, <2>1 DEF OneTerminalEvent
<1> QED
  BY <1>8, <1>9, <1>10, <1>11

-----------------------------------------------------------------------------
\* The reservations of one job are nobody else's.
LEMMA OthersReserved ==
    ASSUME CapacityInv, NEW j, NEW R, \A r \in R : r.job = j,
           NEW w \in Workers, Holding(w), worker[w].job # j
    PROVE  Reservation(w) \in reserved \ R
<1>1. Reservation(w) \in reserved /\ Reservation(w).job = worker[w].job
  BY DEF CapacityInv, Sharing, HoldersReserved, Reservation
<1> QED
  BY <1>1

\* The worker of a current lease ends its claim: it was its job's only holder.
LEMMA LeaseEnds ==
    ASSUME CapacityInv, Safe', NEW w \in Workers, worker[w].pc # "idle", HoldsLease(w),
           NEW J, job' = [job EXCEPT ![worker[w].job] = J],
           J.generation = job[worker[w].job].generation,
           worker' = [worker EXCEPT ![w] = Idle],
           reserved' = reserved \ OwnReservations(w),
           \/ J.status \notin Terminal /\ events' = events
           \/ /\ J.status \in Terminal
              /\ \E e : e.job = worker[w].job /\ events' = events \cup {e}
    PROVE  CapacityInv'
<1>1. PICK j : j = worker[w].job
  OBVIOUS
<1>2. j \in Jobs /\ job[j].status = "running" /\ job[j].generation = worker[w].generation
  BY <1>1 DEF CapacityInv, Safe, WorkersBusy, HoldsLease
<1>3. worker'[w].pc = "idle" /\ \A v \in Workers : v # w => worker'[v] = worker[v]
  BY DEF Idle, CapacityInv, Safe, TypeOK
<1>4. \A v \in Workers : worker'[v].pc = "idle" \/ worker'[v] = worker[v]
  BY <1>3
<1>5. \A v \in Workers : worker[v].pc # "idle" /\ worker[v].job = j =>
                             worker[v].generation <= J.generation
  BY <1>1 DEF CapacityInv, Sharing, LeasesApart
<1>6. \A v \in Workers : Holding(v) /\ worker[v].job = j => worker'[v].pc = "idle"
  <2> SUFFICES ASSUME NEW v \in Workers, Holding(v), worker[v].job = j
               PROVE  v = w
    BY <1>3
  <2>1. worker[v].pc # "idle" /\ worker[v].generation = job[j].generation
    BY DEF Holding, CapacityInv, Sharing, HoldersReserved, HoldsLease
  <2> QED
    BY <1>1, <1>2, <2>1 DEF CapacityInv, Sharing, LeasesApart
<1>7. reserved' \subseteq reserved
  OBVIOUS
<1>8. \A r \in OwnReservations(w) : r.job = j
  BY <1>1 DEF OwnReservations
<1>9. \A v \in Workers : Holding(v) /\ worker[v].job # j => Reservation(v) \in reserved'
  BY <1>8, OthersReserved
<1>10. job[j].status \notin Terminal
  BY <1>2 DEF Terminal
<1>11. job' = [job EXCEPT ![j] = J]
  BY <1>1
<1>12. \/ J.status \notin Terminal /\ events' = events
       \/ /\ J.status \in Terminal
          /\ \E e : e.job = j /\ events' = events \cup {e}
  BY <1>1
<1> QED
  BY <1>2, <1>4, <1>5, <1>6, <1>7, <1>9, <1>10, <1>11, <1>12, JobChanges

\* A claim resolves or reschedules a job that is due: nobody holds it.
LEMMA DueChanges ==
    ASSUME CapacityInv, Safe', NEW j \in Jobs, Due(j),
           NEW J, job' = [job EXCEPT ![j] = J], J.generation = job[j].generation,
           worker' = worker, reserved' \subseteq reserved,
           \A w \in Workers : Holding(w) /\ worker[w].job # j => Reservation(w) \in reserved',
           \/ J.status \notin Terminal /\ events' = events
           \/ /\ J.status \in Terminal
              /\ \E e : e.job = j /\ events' = events \cup {e}
    PROVE  CapacityInv'
<1>1. \A w \in Workers : Holding(w) /\ worker[w].job = j => worker'[w].pc = "idle"
  BY HeldIsNotDue
<1>2. \A w \in Workers : worker[w].pc # "idle" /\ worker[w].job = j =>
                             worker[w].generation <= J.generation
  BY DEF CapacityInv, Sharing, LeasesApart
<1>3. job[j].status \notin Terminal
  BY DEF Due, Live, Terminal
<1> QED
  BY <1>1, <1>2, <1>3, JobChanges

LEMMA EventNames ==
    \A j, kd : EventOf(j, kd).job = j
BY DEF EventOf

LEMMA CapacityStep == CapacityInv /\ [Next]_vars => CapacityInv'
<1> SUFFICES ASSUME CapacityInv, [Next]_vars PROVE CapacityInv'
  OBVIOUS
<1>0. Safe /\ Safe'
  BY SafeStep DEF CapacityInv
<1>1. ASSUME NEW j \in Jobs, Schedule(j) PROVE CapacityInv'
  <2>1. PICK J : J = [NoJob EXCEPT !.status = "scheduled", !.start = ScheduleToStart]
    OBVIOUS
  <2>2. /\ job' = [job EXCEPT ![j] = J] /\ J.status = "scheduled"
        /\ UNCHANGED <<worker, reserved, events>> /\ job[j].status = "absent"
    BY <1>1, <2>1 DEF Schedule, NoJob
  <2>3. \A w \in Workers : worker[w].pc # "idle" => worker[w].job # j
    <3> SUFFICES ASSUME NEW w \in Workers, worker[w].pc # "idle", worker[w].job = j
                 PROVE  FALSE
      OBVIOUS
    <3>1. job[j].attempts = 0 /\ job[j].attempts >= worker[w].attempt /\ worker[w].attempt >= 1
      BY <1>0, <2>2 DEF Safe, WorkersBusy, BudgetLeft
    <3>2. worker[w].attempt \in Int
      BY <1>0, ConstantsAreNumbers DEF Safe, TypeOK, WorkerType
    <3> QED
      BY <3>1, <3>2
  <2>4. \A w \in Workers : Holding(w) => worker[w].job # j /\ Reservation(w) \in reserved'
    BY <2>2, <2>3 DEF Holding, CapacityInv, Sharing, HoldersReserved
  <2>5. J.status \notin Terminal /\ job[j].status \notin Terminal
    BY <2>2 DEF Terminal
  <2> QED
    BY <1>0, <2>2, <2>3, <2>4, <2>5, JobChanges
<1>2. ASSUME NEW w \in Workers, NEW j \in Jobs, ClaimExpired(w, j) PROVE CapacityInv'
  <2>1. PICK J : J = Resolved(j, "failed", "schedule_to_start")
    OBVIOUS
  <2>2. J.status = "failed" /\ J.generation = job[j].generation
    BY <1>0, <2>1 DEF Resolved, Safe, TypeOK, JobType
  <2>3. PICK e : e = EventOf(j, "activity_failed")
    OBVIOUS
  <2>4. /\ Due(j) /\ job' = [job EXCEPT ![j] = J] /\ worker' = worker
        /\ reserved' = reserved /\ events' = events \cup {e} /\ e.job = j
    BY <1>2, <2>1, <2>3, EventNames DEF ClaimExpired
  <2>5. \A v \in Workers : Holding(v) /\ worker[v].job # j => Reservation(v) \in reserved'
    BY <2>4 DEF CapacityInv, Sharing, HoldersReserved
  <2>6. J.status \in Terminal /\ \E f : f.job = j /\ events' = events \cup {f}
    BY <2>2, <2>4 DEF Terminal
  <2> QED
    BY <1>0, <2>2, <2>4, <2>5, <2>6, DueChanges
<1>3. ASSUME NEW w \in Workers, NEW j \in Jobs, ClaimLateRetry(w, j) PROVE CapacityInv'
  <2>1. PICK d \in 0..RetryDelayUpper(job[j].attempts) :
            job' = [job EXCEPT ![j] = Rescheduled(j, d, LateError(j))]
    BY <1>3 DEF ClaimLateRetry
  <2>2. PICK J : J = Rescheduled(j, d, LateError(j))
    OBVIOUS
  <2>3. J.status = "scheduled" /\ J.generation = job[j].generation
    BY <1>0, <2>2 DEF Rescheduled, Safe, TypeOK, JobType
  <2>4. /\ Due(j) /\ job' = [job EXCEPT ![j] = J] /\ worker' = worker
        /\ reserved' = reserved \ ReservationsOf(j) /\ events' = events
    BY <1>3, <2>1, <2>2 DEF ClaimLateRetry
  <2>5. \A r \in ReservationsOf(j) : r.job = j
    BY DEF ReservationsOf
  <2>6. \A v \in Workers : Holding(v) /\ worker[v].job # j => Reservation(v) \in reserved'
    BY <2>4, <2>5, OthersReserved
  <2>7. J.status \notin Terminal /\ reserved' \subseteq reserved
    BY <2>3, <2>4 DEF Terminal
  <2> QED
    BY <1>0, <2>3, <2>4, <2>6, <2>7, DueChanges
<1>4. ASSUME NEW w \in Workers, NEW j \in Jobs, ClaimLateFail(w, j) PROVE CapacityInv'
  <2>1. PICK er : er = IF LateError(j) \in RetryOn THEN "retry_exhausted" ELSE LateError(j)
    OBVIOUS
  <2>2. PICK J : J = Resolved(j, "failed", er)
    OBVIOUS
  <2>3. J.status = "failed" /\ J.generation = job[j].generation
    BY <1>0, <2>2 DEF Resolved, Safe, TypeOK, JobType
  <2>4. PICK e : e = EventOf(j, IF LateError(j) \in RetryOn THEN "retry_exhausted"
                                                        ELSE "activity_failed")
    OBVIOUS
  <2>5. /\ Due(j) /\ job' = [job EXCEPT ![j] = J] /\ worker' = worker
        /\ reserved' = reserved \ ReservationsOf(j)
        /\ events' = events \cup {e} /\ e.job = j
    BY <1>4, <2>1, <2>2, <2>4, EventNames DEF ClaimLateFail
  <2>6. \A r \in ReservationsOf(j) : r.job = j
    BY DEF ReservationsOf
  <2>7. \A v \in Workers : Holding(v) /\ worker[v].job # j => Reservation(v) \in reserved'
    BY <2>5, <2>6, OthersReserved
  <2>8. /\ J.status \in Terminal /\ \E f : f.job = j /\ events' = events \cup {f}
        /\ reserved' \subseteq reserved
    BY <2>3, <2>5 DEF Terminal
  <2> QED
    BY <1>0, <2>3, <2>5, <2>7, <2>8, DueChanges
<1>5. ASSUME NEW w \in Workers, NEW j \in Jobs, ClaimDeferred(w, j) PROVE CapacityInv'
  <2>1. PICK next \in NextAvailable(j) :
            job' = [job EXCEPT ![j].available =
                       Smaller(next, IF IsTakeover(j) THEN CompletionLeft(j)
                                                      ELSE job[j].start)]
    BY <1>5 DEF ClaimDeferred
  <2>2. PICK a : a = Smaller(next, IF IsTakeover(j) THEN CompletionLeft(j)
                                                    ELSE job[j].start)
    OBVIOUS
  <2>3. PICK J : J = [job[j] EXCEPT !.available = a]
    OBVIOUS
  <2>4. J.status = job[j].status /\ J.generation = job[j].generation
    BY <1>0, <2>3 DEF Safe, TypeOK, JobType
  <2>5. /\ Due(j) /\ job' = [job EXCEPT ![j] = J] /\ worker' = worker
        /\ reserved' = Unexpired /\ events' = events
    BY <1>0, <1>5, <2>1, <2>2, <2>3 DEF ClaimDeferred, Claimable, Safe, TypeOK
  <2>6. \A v \in Workers : Holding(v) /\ worker[v].job # j => Reservation(v) \in reserved'
    BY <2>5 DEF CapacityInv, Sharing, HoldersReserved, Reservation, Holding, Unexpired
  <2>7. J.status \notin Terminal /\ reserved' \subseteq reserved
    BY <2>4, <2>5 DEF Terminal, Due, Live, Unexpired
  <2> QED
    BY <1>0, <2>4, <2>5, <2>6, <2>7, DueChanges
<1>6. ASSUME NEW w \in Workers, NEW j \in Jobs, ClaimLease(w, j) PROVE CapacityInv'
  BY <1>0, <1>6, LeaseClaimed
<1>7. ASSUME NEW w \in Workers, AuthorizeOpen(w) PROVE CapacityInv'
  BY <1>0, <1>7, WorkersGoOn DEF AuthorizeOpen, Safe, TypeOK, WorkerType
<1>8. ASSUME NEW w \in Workers, AuthorizeCommit(w) PROVE CapacityInv'
  BY <1>0, <1>8, WorkersGoOn DEF AuthorizeCommit, Safe, TypeOK, WorkerType
<1>9. ASSUME NEW w \in Workers, Send(w) PROVE CapacityInv'
  BY <1>0, <1>9, WorkersGoOn DEF Send, Safe, TypeOK, WorkerType
<1>10. ASSUME NEW w \in Workers, AnswerSuccess(w) \/ AnswerUnusable(w) \/ AnswerFailure(w)
       PROVE  CapacityInv'
  <2>1. UNCHANGED <<job, reserved, events>> /\ worker[w].pc = "sent"
    BY <1>10 DEF AnswerSuccess, AnswerUnusable, AnswerFailure
  <2>2. PICK pc, class, send, after : Replied(w, pc, class, send, after)
    BY <1>10 DEF AnswerSuccess, AnswerUnusable, AnswerFailure
  <2> QED
    BY <1>0, <2>1, <2>2, WorkersGoOn DEF Replied, Safe, TypeOK, WorkerType
<1>11. ASSUME NEW w \in Workers, AuthorizeLost(w) \/ CompleteStale(w) \/ Crash(w)
       PROVE  CapacityInv'
  <2>1. UNCHANGED <<job, reserved, events>> /\ worker' = [worker EXCEPT ![w] = Idle]
    BY <1>11 DEF AuthorizeLost, CompleteStale, Crash
  <2>2. \A v \in Workers : worker'[v].pc = "idle" \/ worker'[v] = worker[v]
    BY <1>0, <2>1, IdleType DEF Safe, TypeOK
  <2> QED
    BY <1>0, <2>1, <2>2, WorkersGoOn
<1>12. ASSUME NEW w \in Workers, CompleteSuccess(w) PROVE CapacityInv'
  <2>1. PICK J : J = Resolved(worker[w].job, "succeeded", "none")
    OBVIOUS
  <2>2. worker[w].job \in Jobs
    BY <1>0, <1>12 DEF CompleteSuccess, Safe, WorkersBusy
  <2>3. J.status = "succeeded" /\ J.generation = job[worker[w].job].generation
    BY <1>0, <2>1, <2>2 DEF Resolved, Safe, TypeOK, JobType
  <2>4. PICK e : e = EventOf(worker[w].job, "activity_succeeded")
    OBVIOUS
  <2>5. /\ worker[w].pc # "idle" /\ HoldsLease(w) /\ job' = [job EXCEPT ![worker[w].job] = J]
        /\ worker' = [worker EXCEPT ![w] = Idle] /\ reserved' = reserved \ OwnReservations(w)
        /\ events' = events \cup {e} /\ e.job = worker[w].job
    BY <1>12, <2>1, <2>4, EventNames DEF CompleteSuccess, Fenced
  <2>6. J.status \in Terminal /\ \E f : f.job = worker[w].job /\ events' = events \cup {f}
    BY <2>3, <2>5 DEF Terminal
  <2> QED
    BY <1>0, <2>3, <2>5, <2>6, LeaseEnds
<1>13. ASSUME NEW w \in Workers, CompleteRetry(w) PROVE CapacityInv'
  <2>1. PICK d : job' = [job EXCEPT ![worker[w].job] =
                            Rescheduled(worker[w].job, d, RecordedClass(w))]
    BY <1>13 DEF CompleteRetry
  <2>2. PICK J : J = Rescheduled(worker[w].job, d, RecordedClass(w))
    OBVIOUS
  <2>3. worker[w].job \in Jobs
    BY <1>0, <1>13 DEF CompleteRetry, Safe, WorkersBusy
  <2>4. J.status = "scheduled" /\ J.generation = job[worker[w].job].generation
    BY <1>0, <2>2, <2>3 DEF Rescheduled, Safe, TypeOK, JobType
  <2>5. /\ worker[w].pc # "idle" /\ HoldsLease(w) /\ job' = [job EXCEPT ![worker[w].job] = J]
        /\ worker' = [worker EXCEPT ![w] = Idle] /\ reserved' = reserved \ OwnReservations(w)
        /\ events' = events
    BY <1>13, <2>1, <2>2 DEF CompleteRetry, Fenced
  <2>6. J.status \notin Terminal
    BY <2>4 DEF Terminal
  <2> QED
    BY <1>0, <2>4, <2>5, <2>6, LeaseEnds
<1>14. ASSUME NEW w \in Workers, CompleteFailure(w) PROVE CapacityInv'
  <2>1. PICK er, kd :
          /\ job' = [job EXCEPT ![worker[w].job] = Resolved(worker[w].job, "failed", er)]
          /\ events' = events \cup {EventOf(worker[w].job, kd)}
    BY <1>14 DEF CompleteFailure
  <2>2. PICK J : J = Resolved(worker[w].job, "failed", er)
    OBVIOUS
  <2>3. worker[w].job \in Jobs
    BY <1>0, <1>14 DEF CompleteFailure, Safe, WorkersBusy
  <2>4. J.status = "failed" /\ J.generation = job[worker[w].job].generation
    BY <1>0, <2>2, <2>3 DEF Resolved, Safe, TypeOK, JobType
  <2>5. PICK e : e = EventOf(worker[w].job, kd)
    OBVIOUS
  <2>6. /\ worker[w].pc # "idle" /\ HoldsLease(w)
        /\ worker' = [worker EXCEPT ![w] = Idle] /\ reserved' = reserved \ OwnReservations(w)
    BY <1>14 DEF CompleteFailure, Fenced
  <2>7. /\ job' = [job EXCEPT ![worker[w].job] = J]
        /\ events' = events \cup {e} /\ e.job = worker[w].job
    BY <2>1, <2>2, <2>5, EventNames
  <2>8. J.status \in Terminal /\ \E f : f.job = worker[w].job /\ events' = events \cup {f}
    BY <2>4, <2>7 DEF Terminal
  <2> QED
    BY <1>0, <2>4, <2>6, <2>7, <2>8, LeaseEnds
<1>15. CASE Tick
  BY <1>0, <1>15, TimePasses
<1>16. CASE UNCHANGED vars
  <2>1. UNCHANGED <<job, reserved, events, worker>>
    BY <1>16 DEF vars
  <2>2. \A w \in Workers : worker[w].pc # "idle" \/ worker'[w].pc = "idle"
    BY <2>1
  <2> QED
    BY <1>0, <2>1, <2>2, WorkersGoOn
<1> QED
  BY <1>1, <1>2, <1>3, <1>4, <1>5, <1>6, <1>7, <1>8, <1>9, <1>10, <1>11,
     <1>12, <1>13, <1>14, <1>15, <1>16 DEF Next, Claim, Work

-----------------------------------------------------------------------------
LEMMA CapacityAlways == Spec => []CapacityInv
BY CapacityInit, CapacityStep, PTL DEF Spec

LEMMA HoldersApart ==
    ASSUME CapacityInv, NEW v \in Workers, NEW w \in Workers, v # w,
           Holding(v), Holding(w)
    PROVE  /\ Reservation(v) # Reservation(w)
           /\ Reservation(v) \in Unexpired /\ Reservation(w) \in Unexpired
           /\ Reservation(v).job = worker[v].job /\ Reservation(w).job = worker[w].job
<1> USE DEF CapacityInv, Sharing
<1>1. Reservation(v) \in Unexpired /\ Reservation(w) \in Unexpired
  BY DEF HoldersReserved, Reservation, Holding, Unexpired
<1>2. worker[v].job # worker[w].job \/ worker[v].generation # worker[w].generation
  BY DEF LeasesApart, Holding
<1> QED
  BY <1>1, <1>2 DEF Reservation

LEMMA SerializedFollows == CapacityInv => SerializedByKey
<1> SUFFICES ASSUME CapacityInv, NEW v \in Workers, NEW w \in Workers, v # w,
                    Holding(v), Holding(w)
             PROVE  \/ SerialKey[worker[v].job] = None
                    \/ SerialKey[worker[v].job] # SerialKey[worker[w].job]
  BY DEF SerializedByKey
<1> QED
  BY HoldersApart DEF CapacityInv, Sharing, BucketKept

LEMMA InFlightFollows == CapacityInv => InFlightBounded
<1> SUFFICES ASSUME CapacityInv PROVE InFlightBounded
  OBVIOUS
<1> USE DEF CapacityInv, Sharing
<1>1. PICK H : H = {w \in Workers : Holding(w)}
  OBVIOUS
<1>2. PICK U : U = Unexpired
  OBVIOUS
<1>3. IsFiniteSet(U) /\ Cardinality(U) <= MaxInFlight
  BY <1>2, FS_Subset DEF BucketKept, Unexpired
<1>4. PICK f : f = [w \in H |-> Reservation(w)]
  OBVIOUS
<1>5. \A w \in H : f[w] \in U
  BY <1>1, <1>2, <1>4 DEF HoldersReserved, Reservation, Holding, Unexpired
<1>6. \A v, w \in H : f[v] = f[w] => v = w
  BY <1>1, <1>4, HoldersApart
<1>7. f \in Injection(H, U)
  BY <1>4, <1>5, <1>6 DEF Injection, IsInjective
<1>8. IsFiniteSet(H) /\ Cardinality(H) <= Cardinality(U)
  BY <1>3, <1>7, FS_Injection
<1>9. Cardinality(H) \in Nat /\ Cardinality(U) \in Nat
  BY <1>3, <1>8, FS_CardinalityType
<1> QED
  BY <1>1, <1>3, <1>8, <1>9, ConstantsAreNumbers DEF InFlightBounded

\* The operation's capacity is never exceeded by workers inside their completion
\* deadline, for every number of jobs, workers and slots (claim_one_activity).
THEOREM CapacityNeverExceeded == Spec => []InFlightBounded
BY CapacityAlways, InFlightFollows, PTL

\* Two workers inside their completion deadline never share a serialization key,
\* across deferrals, expiries, releases and takeovers (claim_one_activity).
THEOREM KeysAreSerial == Spec => []SerializedByKey
BY CapacityAlways, SerializedFollows, PTL

\* The Process learns of an activity exactly once: an activity has one terminal
\* event exactly when its job is terminal, through stale completions, takeovers
\* and late resolutions (append_event with every terminal update).
THEOREM ReportedExactlyOnce == Spec => []OneTerminalEvent
<1>1. CapacityInv => OneTerminalEvent
  BY DEF CapacityInv
<1> QED
  BY <1>1, CapacityAlways, PTL

-----------------------------------------------------------------------------
(* The send horizon *)

Compiler == INSTANCE RetryHorizon WITH Width <- 64

\* The pinned horizon of a provider-idempotent activity is no less than what
\* specification 005 charges for its retry policy.
HorizonPinned ==
    Effect = "ProviderIdempotent" =>
        SendHorizon >= Compiler!HorizonOf(MaxAttempts, InitialInterval, MaxInterval,
                                          ScheduleToStart, StartToClose, TakeoverGrace)

\* What the horizon charges for the first n retries, and what of it is left for
\* those after an attempt.
Charged(n) == Compiler!RetriesOf(n, InitialInterval, MaxInterval, ScheduleToStart)
PerAttempt == StartToClose + TakeoverGrace
ChargedAfter(attempt) ==
    (MaxAttempts - attempt) * PerAttempt + Charged(MaxAttempts - 1) - Charged(attempt - 1)

Exhausted == {"window_exhausted", "horizon_exhausted"}

\* The time left to send covers the attempt at hand, or the one to come, and
\* every retry after it.
Covered(j) ==
    Effect = "ProviderIdempotent" /\ step[j].row # "none" =>
        /\ job[j].status # "absent"
        /\ step[j].send <= step[j].window
        /\ job[j].status = "running" /\ ~PastGrace(j) /\ ~late[j] =>
              step[j].send >= job[j].close + TakeoverGrace + ChargedAfter(job[j].attempts)
        /\ job[j].status = "scheduled" /\ job[j].start > 0 /\ ~late[j] =>
              step[j].send >= job[j].start + PerAttempt + ChargedAfter(job[j].attempts + 1)

\* A worker with the lease has no more time than its job's takeover grace, and
\* was refused for the horizon only if that is over or was over before.
InTime(w) ==
    worker[w].pc # "idle" =>
        /\ HoldsLease(w) => worker[w].left <= job[worker[w].job].close + TakeoverGrace
        /\ worker[w].class \in Exhausted => late[worker[w].job] \/ worker[w].left < 0

HorizonKept ==
    /\ \A j \in Jobs : Covered(j)
    /\ \A w \in Workers : InTime(w)
    /\ HorizonSuffices

\* A provider step being inserted is its worker's alone.
RowsLocked ==
    \A w \in Workers :
        worker[w].pc = "inserting" =>
            /\ step[worker[w].job].row = "inserting"
            /\ \A v \in Workers :
                  worker[v].pc = "inserting" /\ worker[v].job = worker[w].job => v = w

HorizonInv == CapacityInv /\ RowsLocked /\ HorizonKept

-----------------------------------------------------------------------------
LEMMA PowersAreNumbers ==
    ASSUME NEW n \in Nat
    PROVE  2^n \in Nat
<1>1. PICK S : S = 1..n
  OBVIOUS
<1>2. IsFiniteSet(S) /\ Cardinality(S) = n
  BY <1>1, FS_Interval
<1> QED
  BY <1>2, FS_SUBSET, FS_CardinalityType

\* The bound the runtime puts on a retry is the one the compiler charges.
LEMMA DelaysCharged ==
    ASSUME NEW n \in Nat \ {0}
    PROVE  /\ RetryDelayUpper(n) \in Nat
           /\ Compiler!BoundOf(InitialInterval, MaxInterval, n) = RetryDelayUpper(n)
<1>1. PICK p : p = 2^(n - 1)
  OBVIOUS
<1>2. p \in Nat
  <2>1. n - 1 \in Nat
    OBVIOUS
  <2> QED
    BY <1>1, <2>1, PowersAreNumbers
<1>3. InitialInterval * p \in Nat
  BY <1>2, ConstantsAreNumbers
<1> QED
  BY <1>1, <1>3, ConstantsAreNumbers
  DEF RetryDelayUpper, Smaller, Compiler!BoundOf, Compiler!LesserOf

\* A set of numbers has a smallest one.
LEMMA Smallest ==
    ASSUME NEW T, T \subseteq Nat, T # {}
    PROVE  \E x \in T : \A y \in T : x <= y
<1>1. PICK R : R = OpToRel(<, Nat)
  OBVIOUS
<1>2. IsWellFoundedOn(R, Nat)
  BY <1>1, NatLessThanWellFounded
<1>3. PICK x \in T : \A y \in T : ~(<<y, x>> \in R)
  BY <1>2, WFMin
<1>4. \A y \in T : y < x => <<y, x>> \in R
  BY <1>1 DEF OpToRel
<1>5. \A y \in T : ~(y < x)
  BY <1>3, <1>4
<1>6. \A y \in T : x <= y
  BY <1>5
<1> QED
  BY <1>6

\* f adds up the retries one by one, n of them.
Cost(i) == RetryDelayUpper(i) + ScheduleToStart
IsSum(f, n) == f = [i \in 0..n |-> IF i = 0 THEN 0 ELSE f[i - 1] + Cost(i)]

LEMMA SumsAreNumbers ==
    ASSUME NEW n \in Nat, NEW f, IsSum(f, n)
    PROVE  f \in [0..n -> Nat]
<1>1. PICK T : T = {i \in 0..n : f[i] \notin Nat}
  OBVIOUS
<1>2. T = {}
  <2> SUFFICES ASSUME T # {} PROVE FALSE
    OBVIOUS
  <2>1. T \subseteq Nat
    BY <1>1
  <2>2. PICK i \in T : \A j \in T : i <= j
    BY <2>1, Smallest
  <2>3. i \in 0..n /\ f[i] \notin Nat
    BY <1>1
  <2>4. i # 0
    BY <2>3 DEF IsSum
  <2>5. i - 1 \in 0..n /\ i - 1 \notin T /\ i \in Nat \ {0}
    BY <2>2, <2>3, <2>4
  <2>6. f[i - 1] \in Nat /\ Cost(i) \in Nat
    BY <1>1, <2>5, DelaysCharged, ConstantsAreNumbers DEF Cost
  <2> QED
    BY <2>3, <2>4, <2>6 DEF IsSum
<1> QED
  BY <1>1, <1>2 DEF IsSum

LEMMA SumsAgree ==
    ASSUME NEW n \in Nat, NEW m \in Nat, n <= m, NEW f, IsSum(f, n), NEW g, IsSum(g, m)
    PROVE  \A i \in 0..n : f[i] = g[i]
<1>1. PICK T : T = {i \in 0..n : f[i] # g[i]}
  OBVIOUS
<1>2. T = {}
  <2> SUFFICES ASSUME T # {} PROVE FALSE
    OBVIOUS
  <2>1. T \subseteq Nat
    BY <1>1
  <2>2. PICK i \in T : \A j \in T : i <= j
    BY <2>1, Smallest
  <2>3. i \in 0..n /\ i \in 0..m /\ f[i] # g[i]
    BY <1>1
  <2>4. i # 0
    BY <2>3 DEF IsSum
  <2>5. i - 1 \in 0..n /\ i - 1 \notin T
    BY <2>2, <2>3, <2>4
  <2>6. f[i - 1] = g[i - 1]
    BY <1>1, <2>5
  <2> QED
    BY <2>3, <2>4, <2>6 DEF IsSum
<1> QED
  BY <1>1, <1>2

LEMMA SumExists ==
    ASSUME NEW n \in Nat
    PROVE  \E f : IsSum(f, n)
<1>1. PICK T : T = {i \in Nat : ~\E f : IsSum(f, i)}
  OBVIOUS
<1>2. SUFFICES ASSUME T # {} PROVE FALSE
  BY <1>1
<1>3. PICK i \in T : \A j \in T : i <= j
  BY <1>1, <1>2, Smallest
<1>4. i \in Nat /\ ~\E f : IsSum(f, i)
  BY <1>1
<1>5. CASE i = 0
  <2>1. PICK f : f = [m \in 0..0 |-> 0]
    OBVIOUS
  <2>2. \A m \in 0..0 : m = 0
    OBVIOUS
  <2>3. IsSum(f, 0)
    BY <2>1, <2>2 DEF IsSum
  <2> QED
    BY <1>4, <1>5, <2>3
<1>6. CASE i # 0
  <2>1. i - 1 \in Nat /\ i - 1 \notin T
    BY <1>3, <1>4, <1>6
  <2>2. PICK f : IsSum(f, i - 1)
    BY <1>1, <2>1
  <2>3. PICK g : g = [m \in 0..i |-> IF m = i THEN f[i - 1] + Cost(i) ELSE f[m]]
    OBVIOUS
  <2>4. \A m \in 0..(i - 1) : m \in 0..i /\ m # i /\ g[m] = f[m]
    BY <1>4, <2>3
  <2>5. \A m \in 0..i : g[m] = IF m = 0 THEN 0 ELSE g[m - 1] + Cost(m)
    <3> SUFFICES ASSUME NEW m \in 0..i
                 PROVE  g[m] = IF m = 0 THEN 0 ELSE g[m - 1] + Cost(m)
      OBVIOUS
    <3>1. CASE m = i
      <4>1. i - 1 \in 0..(i - 1)
        BY <1>4, <1>6
      <4> QED
        BY <1>6, <2>3, <2>4, <3>1, <4>1
    <3>2. CASE m # i
      <4>1. m \in 0..(i - 1) /\ (m # 0 => m - 1 \in 0..(i - 1))
        BY <1>4, <3>2
      <4>2. f[m] = IF m = 0 THEN 0 ELSE f[m - 1] + Cost(m)
        BY <2>2, <4>1 DEF IsSum
      <4> QED
        BY <2>4, <4>1, <4>2
    <3> QED
      BY <3>1, <3>2
  <2>6. g = [m \in 0..i |-> g[m]]
    BY <2>3
  <2>7. IsSum(g, i)
    BY <2>5, <2>6 DEF IsSum
  <2> QED
    BY <1>4, <2>7
<1> QED
  BY <1>5, <1>6

LEMMA ChargedIsSum ==
    ASSUME NEW n \in Nat
    PROVE  \E f : IsSum(f, n) /\ Charged(n) = f[n]
<1>1. PICK f : f = CHOOSE g : g = [i \in 0..n |-> IF i = 0 THEN 0
            ELSE g[i - 1] + Compiler!BoundOf(InitialInterval, MaxInterval, i) + ScheduleToStart]
  OBVIOUS
<1>2. PICK h : IsSum(h, n)
  BY SumExists
<1>3. h \in [0..n -> Nat]
  BY <1>2, SumsAreNumbers
<1>4. \A i \in 0..n : i # 0 =>
         h[i - 1] + Cost(i)
           = h[i - 1] + Compiler!BoundOf(InitialInterval, MaxInterval, i) + ScheduleToStart
  <2> SUFFICES ASSUME NEW i \in 0..n, i # 0
               PROVE  h[i - 1] + Cost(i)
           = h[i - 1] + Compiler!BoundOf(InitialInterval, MaxInterval, i) + ScheduleToStart
    OBVIOUS
  <2>1. i \in Nat \ {0} /\ i - 1 \in 0..n
    OBVIOUS
  <2>2. /\ h[i - 1] \in Nat /\ RetryDelayUpper(i) \in Nat
        /\ Compiler!BoundOf(InitialInterval, MaxInterval, i) = RetryDelayUpper(i)
    BY <1>3, <2>1, DelaysCharged
  <2> QED
    BY <2>2, ConstantsAreNumbers DEF Cost
<1>5. h = [i \in 0..n |-> IF i = 0 THEN 0
            ELSE h[i - 1] + Compiler!BoundOf(InitialInterval, MaxInterval, i) + ScheduleToStart]
  BY <1>2, <1>4 DEF IsSum
<1>6. f = [i \in 0..n |-> IF i = 0 THEN 0
            ELSE f[i - 1] + Compiler!BoundOf(InitialInterval, MaxInterval, i) + ScheduleToStart]
  BY <1>1, <1>5
<1>7. Charged(n) = f[n]
  BY <1>1 DEF Charged, Compiler!RetriesOf
<1>8. PICK T : T = {i \in 0..n : f[i] # h[i]}
  OBVIOUS
<1>9. T = {}
  <2> SUFFICES ASSUME T # {} PROVE FALSE
    OBVIOUS
  <2>1. T \subseteq Nat
    BY <1>8
  <2>2. PICK i \in T : \A j \in T : i <= j
    BY <2>1, Smallest
  <2>3. i \in 0..n /\ f[i] # h[i]
    BY <1>8
  <2>4. i # 0
    BY <1>5, <1>6, <2>3
  <2>5. i - 1 \in 0..n /\ i - 1 \notin T
    BY <2>2, <2>3, <2>4
  <2>6. f[i - 1] = h[i - 1]
    BY <1>8, <2>5
  <2> QED
    BY <1>5, <1>6, <2>3, <2>4, <2>6
<1>10. n \in 0..n /\ f[n] = h[n]
  BY <1>8, <1>9
<1> QED
  BY <1>2, <1>7, <1>10

LEMMA ChargedGrows ==
    ASSUME NEW n \in Nat
    PROVE  /\ Charged(0) = 0 /\ Charged(n) \in Nat
           /\ Charged(n + 1) = Charged(n) + RetryDelayUpper(n + 1) + ScheduleToStart
<1>1. PICK f : IsSum(f, n) /\ Charged(n) = f[n]
  BY ChargedIsSum
<1>2. PICK g : IsSum(g, n + 1) /\ Charged(n + 1) = g[n + 1]
  BY ChargedIsSum
<1>3. PICK h : IsSum(h, 0) /\ Charged(0) = h[0]
  BY ChargedIsSum
<1>4. Charged(0) = 0
  BY <1>3 DEF IsSum
<1>5. Charged(n) \in Nat
  BY <1>1, SumsAreNumbers
<1>6. f[n] = g[n]
  BY <1>1, <1>2, SumsAgree
<1>7. n + 1 \in 0..(n + 1) /\ n + 1 # 0 /\ n + 1 - 1 = n
  OBVIOUS
<1>8. g[n + 1] = g[n] + Cost(n + 1)
  BY <1>2, <1>7 DEF IsSum
<1>9. RetryDelayUpper(n + 1) \in Nat
  BY DelaysCharged
<1> QED
  BY <1>1, <1>2, <1>4, <1>5, <1>6, <1>8, <1>9, ConstantsAreNumbers DEF Cost

LEMMA ChargedInOrder ==
    ASSUME NEW n \in Nat, NEW m \in Nat, m <= n
    PROVE  Charged(m) <= Charged(n)
<1>1. PICK T : T = {i \in Nat : m <= i /\ ~(Charged(m) <= Charged(i))}
  OBVIOUS
<1>2. SUFFICES ASSUME T # {} PROVE FALSE
  BY <1>1
<1>3. PICK i \in T : \A j \in T : i <= j
  BY <1>1, <1>2, Smallest
<1>4. i \in Nat /\ m <= i /\ ~(Charged(m) <= Charged(i))
  BY <1>1
<1>5. Charged(m) \in Nat
  BY ChargedGrows
<1>6. i # m
  BY <1>4, <1>5
<1>7. PICK j \in Nat : i = j + 1 /\ m <= j /\ j \notin T
  <2>1. i - 1 \in Nat /\ i = (i - 1) + 1 /\ m <= i - 1 /\ i - 1 \notin T
    BY <1>3, <1>4, <1>6
  <2> QED
    BY <2>1
<1>8. Charged(m) <= Charged(j)
  BY <1>1, <1>7
<1>9. /\ Charged(j) \in Nat /\ RetryDelayUpper(j + 1) \in Nat
      /\ Charged(j + 1) = Charged(j) + RetryDelayUpper(j + 1) + ScheduleToStart
  BY ChargedGrows, DelaysCharged
<1> QED
  BY <1>4, <1>5, <1>7, <1>8, <1>9, ConstantsAreNumbers

\* What is left of the horizon's charge after an attempt pays for its retry and
\* for what is left after that.
LEMMA ChargedAfterFacts ==
    ASSUME NEW a \in Nat, a >= 1, a <= MaxAttempts
    PROVE  /\ ChargedAfter(a) \in Nat
           /\ a < MaxAttempts =>
                 ChargedAfter(a) = RetryDelayUpper(a) + ScheduleToStart + PerAttempt
                                     + ChargedAfter(a + 1)
           /\ HorizonPinned /\ Effect = "ProviderIdempotent" =>
                 SendHorizon >= PerAttempt + ChargedAfter(a)
<1>1. PICK b \in Nat : a = b + 1
  <2>1. a - 1 \in Nat /\ a = (a - 1) + 1
    OBVIOUS
  <2> QED
    BY <2>1
<1>2. PICK l \in Nat : MaxAttempts = l + 1
  <2>1. MaxAttempts - 1 \in Nat /\ MaxAttempts = (MaxAttempts - 1) + 1
    BY ConstantsAreNumbers
  <2> QED
    BY <2>1
<1>3. PICK p \in Nat : p = PerAttempt
  BY ConstantsAreNumbers DEF PerAttempt
<1>4. MaxAttempts - 1 = l /\ a - 1 = b /\ b <= l /\ MaxAttempts - a = l - b
  BY <1>1, <1>2
<1>5. Charged(l) \in Nat /\ Charged(b) \in Nat /\ Charged(b) <= Charged(l)
  BY <1>4, ChargedGrows, ChargedInOrder
<1>6. PICK d \in Nat : d = l - b
  BY <1>4
<1>7. PICK q \in Nat : q = d * p
  OBVIOUS
<1>8. ChargedAfter(a) = q + Charged(l) - Charged(b)
  BY <1>3, <1>4, <1>6, <1>7 DEF ChargedAfter
<1>9. ChargedAfter(a) \in Nat
  BY <1>5, <1>8
<1>10. ASSUME a < MaxAttempts
       PROVE  ChargedAfter(a) = RetryDelayUpper(a) + ScheduleToStart + PerAttempt
                                  + ChargedAfter(a + 1)
  <2>1. Charged(a) = Charged(b) + RetryDelayUpper(a) + ScheduleToStart
    BY <1>1, ChargedGrows
  <2>2. Charged(a) \in Nat /\ RetryDelayUpper(a) \in Nat
    BY ChargedGrows, DelaysCharged
  <2>3. MaxAttempts - (a + 1) = d - 1 /\ a + 1 - 1 = a
    BY <1>1, <1>2, <1>6
  <2>4. (d - 1) * p = q - p
    BY <1>7
  <2>5. ChargedAfter(a + 1) = q - p + Charged(l) - Charged(a)
    BY <1>3, <1>4, <2>3, <2>4 DEF ChargedAfter
  <2> QED
    BY <1>3, <1>5, <1>8, <2>1, <2>2, <2>5, ConstantsAreNumbers
<1>11. ASSUME HorizonPinned, Effect = "ProviderIdempotent"
       PROVE  SendHorizon >= PerAttempt + ChargedAfter(a)
  <2>1. SendHorizon >= MaxAttempts * p + Charged(l)
    BY <1>3, <1>4, <1>11 DEF HorizonPinned, Compiler!HorizonOf, Charged, PerAttempt
  <2>2. PICK r \in Nat : r = b * p
    OBVIOUS
  <2>3. MaxAttempts = d + 1 + b
    BY <1>2, <1>4, <1>6
  <2>4. (d + 1 + b) * p = q + p + r
    BY <1>7, <2>2
  <2> QED
    BY <1>3, <1>5, <1>8, <2>1, <2>3, <2>4, ConstantsAreNumbers
<1> QED
  BY <1>9, <1>10, <1>11

-----------------------------------------------------------------------------
LEMMA HorizonInit == Init => HorizonInv
<1> SUFFICES ASSUME Init PROVE HorizonInv
  OBVIOUS
<1>1. CapacityInv
  BY CapacityInit
<1>2. \A j \in Jobs : Covered(j)
  BY DEF Init, Covered, NoStep
<1>3. \A w \in Workers : InTime(w)
  BY DEF Init, InTime, Idle
<1>4. HorizonSuffices
  BY DEF Init, HorizonSuffices, NoJob
<1>5. RowsLocked
  BY DEF Init, RowsLocked, Idle
<1> QED
  BY <1>1, <1>2, <1>3, <1>4, <1>5 DEF HorizonInv, HorizonKept

\* Nothing of a job's clocks changes.
LEMMA CoveredStays ==
    ASSUME NEW j \in Jobs, Covered(j), job'[j] = job[j], late'[j] = late[j],
           \/ step'[j].row = "none"
           \/ /\ step[j].row # "none"
              /\ step'[j].send = step[j].send /\ step'[j].window = step[j].window
    PROVE  Covered(j)'
<1>1. PastGrace(j)' <=> PastGrace(j)
  BY DEF PastGrace
<1> QED
  BY <1>1 DEF Covered

\* Workers go on with their claims, or forget them.
LEMMA InTimeStays ==
    ASSUME HorizonInv, UNCHANGED <<job, late>>, \A j \in Jobs : Covered(j)',
           \A w \in Workers :
              \/ worker'[w].pc = "idle"
              \/ /\ worker[w].pc # "idle"
                 /\ worker'[w].job = worker[w].job
                 /\ worker'[w].attempt = worker[w].attempt
                 /\ worker'[w].generation = worker[w].generation
                 /\ worker'[w].left = worker[w].left
                 /\ worker'[w].class \in Exhausted =>
                       worker'[w].class = worker[w].class \/ late[worker[w].job]
                       \/ worker[w].left < 0
    PROVE  HorizonKept'
<1>1. \A w \in Workers : InTime(w)'
  BY DEF HorizonInv, HorizonKept, InTime, HoldsLease
<1>2. HorizonSuffices'
  BY DEF HorizonInv, HorizonKept, HorizonSuffices
<1> QED
  BY <1>1, <1>2 DEF HorizonKept

\* One job changes: it is no longer leased, or leased as before.
LEMMA OneJobMoves ==
    ASSUME HorizonInv, NEW j \in Jobs, NEW J, job' = [job EXCEPT ![j] = J],
           step' = step, \A i \in Jobs : i # j => late'[i] = late[i], late[j] => late'[j],
           \A w \in Workers : worker'[w].pc = "idle" \/ worker'[w] = worker[w],
           \/ J.status # "running"
           \/ /\ J.status = job[j].status /\ J.close = job[j].close
              /\ J.generation = job[j].generation /\ J.attempts = job[j].attempts,
           J.error \in Exhausted => late'[j],
           Covered(j)'
    PROVE  HorizonKept'
<1>1. job'[j] = J /\ \A i \in Jobs : i # j => job'[i] = job[i]
  BY DEF HorizonInv, CapacityInv, Safe, TypeOK
<1>2. \A i \in Jobs : Covered(i)'
  <2> SUFFICES ASSUME NEW i \in Jobs, i # j PROVE Covered(i)'
    OBVIOUS
  <2>1. Covered(i) /\ job'[i] = job[i] /\ late'[i] = late[i] /\ step'[i] = step[i]
    BY <1>1 DEF HorizonInv, HorizonKept
  <2> QED
    BY <2>1, CoveredStays
<1>3. \A w \in Workers : InTime(w)'
  <2> SUFFICES ASSUME NEW w \in Workers, worker'[w].pc # "idle"
               PROVE  /\ HoldsLease(w)' => worker'[w].left <= job'[worker'[w].job].close + TakeoverGrace
                      /\ worker'[w].class \in Exhausted => late'[worker'[w].job] \/ worker'[w].left < 0
    BY DEF InTime
  <2>1. worker'[w] = worker[w] /\ worker[w].job \in Jobs
    BY DEF HorizonInv, CapacityInv, Safe, WorkersBusy
  <2>2. InTime(w)
    BY DEF HorizonInv, HorizonKept
  <2>3. worker[w].class \in Exhausted => late'[worker[w].job] \/ worker[w].left < 0
    BY <2>1, <2>2 DEF InTime
  <2>4. ASSUME HoldsLease(w)'
        PROVE  worker[w].left <= job'[worker[w].job].close + TakeoverGrace
    <3>1. HoldsLease(w) /\ job'[worker[w].job].close = job[worker[w].job].close
      BY <1>1, <2>1, <2>4 DEF HoldsLease
    <3> QED
      BY <2>1, <2>2, <3>1 DEF InTime
  <2> QED
    BY <2>1, <2>3, <2>4
<1>4. HorizonSuffices'
  <2> SUFFICES ASSUME NEW i \in Jobs, job'[i].error \in Exhausted PROVE late'[i]
    BY DEF HorizonSuffices, Exhausted
  <2> QED
    BY <1>1 DEF HorizonInv, HorizonKept, HorizonSuffices, Exhausted
<1> QED
  BY <1>2, <1>3, <1>4 DEF HorizonKept


LEMMA ClocksAreNumbers ==
    ASSUME HorizonInv, NEW j \in Jobs
    PROVE  /\ job[j] \in JobType /\ step[j] \in StepType
           /\ job[j].close \in Int /\ job[j].start \in Nat /\ job[j].attempts \in Nat
           /\ job[j].close >= -(TakeoverGrace + 1) /\ job[j].close <= StartToClose
           /\ step[j].send \in Int /\ step[j].window \in Int
           /\ step[j].send >= -1 /\ step[j].window >= -1
           /\ job[j].status = "running" => job[j].attempts >= 1
           /\ job[j].status = "scheduled" => job[j].attempts < MaxAttempts
           /\ job[j].attempts <= MaxAttempts
<1>1. job[j] \in JobType /\ step[j] \in StepType
  BY DEF HorizonInv, CapacityInv, Safe, TypeOK
<1>2. /\ job[j].status = "running" => job[j].attempts >= 1
      /\ job[j].status = "scheduled" => job[j].attempts < MaxAttempts
  BY DEF HorizonInv, CapacityInv, Safe, BudgetLeft
<1>3. job[j].close \in Closes /\ job[j].start \in Delays /\ job[j].attempts \in 0..MaxAttempts
      /\ step[j].send \in -1..SendHorizon /\ step[j].window \in -1..UsableWindow
  BY <1>1 DEF JobType, StepType
<1>4. job[j].start \in Nat
  BY <1>3, ConstantsAreNumbers DEF Delays
<1>5. /\ job[j].close \in Int
      /\ job[j].close >= -(TakeoverGrace + 1) /\ job[j].close <= StartToClose
  BY <1>3, ConstantsAreNumbers DEF Closes
<1>6. /\ step[j].send \in Int /\ step[j].window \in Int
      /\ step[j].send >= -1 /\ step[j].window >= -1
      /\ job[j].attempts \in Nat /\ job[j].attempts <= MaxAttempts
  BY <1>3, ConstantsAreNumbers
<1> QED
  BY <1>1, <1>2, <1>4, <1>5, <1>6

\* A claim starts the attempt it was waiting for, or takes over the lease.
LEMMA LeaseCovered ==
    ASSUME HorizonInv, NEW w \in Workers, NEW j \in Jobs, ClaimLease(w, j)
    PROVE  HorizonKept'
<1>0. HorizonInv /\ Safe
  BY DEF HorizonInv, CapacityInv
<1>1. /\ Claimable(j) /\ UNCHANGED <<step, late>>
      /\ job' = [job EXCEPT ![j].status = "running",
                            ![j].attempts = IF IsTakeover(j) THEN job[j].attempts
                                                             ELSE job[j].attempts + 1,
                            ![j].generation = job[j].generation + 1,
                            ![j].available = CompletionLeft(j),
                            ![j].start = 0,
                            ![j].close = IF IsTakeover(j) THEN @ ELSE StartToClose]
      /\ worker' = [worker EXCEPT ![w] =
                       [Idle EXCEPT !.pc = "claimed", !.job = j,
                                    !.attempt = IF IsTakeover(j) THEN job[j].attempts
                                                                 ELSE job[j].attempts + 1,
                                    !.generation = job[j].generation + 1,
                                    !.left = CompletionLeft(j)]]
  BY DEF ClaimLease
<1>2. /\ job'[j].status = "running" /\ job'[j].generation = job[j].generation + 1
      /\ job'[j].error = job[j].error
      /\ \A i \in Jobs : i # j => job'[i] = job[i]
  BY <1>0, <1>1 DEF Safe, TypeOK, JobType
<1>3. /\ job'[j].close = IF IsTakeover(j) THEN job[j].close ELSE StartToClose
      /\ job'[j].attempts = IF IsTakeover(j) THEN job[j].attempts ELSE job[j].attempts + 1
  BY <1>0, <1>1 DEF Safe, TypeOK, JobType
<1>4. /\ worker'[w].job = j /\ worker'[w].left = CompletionLeft(j)
      /\ worker'[w].class = "none"
      /\ \A v \in Workers : v # w => worker'[v] = worker[v]
  BY <1>0, <1>1 DEF Idle, Safe, TypeOK
<1>5. /\ job[j].close \in Int /\ job[j].start \in Nat /\ job[j].attempts \in Nat
      /\ step[j].send \in Int
      /\ job[j].generation \in Nat
      /\ job[j].status = "scheduled" => job[j].attempts < MaxAttempts
  BY <1>0, ClocksAreNumbers DEF Safe, TypeOK, JobType
<1>6. /\ job[j].status \in Live /\ ~PastGrace(j)
      /\ IsTakeover(j) <=> job[j].status = "running"
      /\ job[j].status = "scheduled" => job[j].start > 0
  BY <1>1, <1>5 DEF Claimable, Due, IsTakeover, Expired
<1>7. Covered(j)'
  <2> SUFFICES ASSUME Effect = "ProviderIdempotent", step[j].row # "none"
               PROVE  /\ step[j].send <= step[j].window
                      /\ ~late[j] => step[j].send >= job'[j].close + TakeoverGrace
                                                       + ChargedAfter(job'[j].attempts)
    BY <1>1, <1>2 DEF Covered
  <2>1. Covered(j)
    BY DEF HorizonInv, HorizonKept
  <2>2. step[j].send <= step[j].window
    BY <2>1 DEF Covered
  <2> SUFFICES ASSUME ~late[j]
               PROVE  step[j].send >= job'[j].close + TakeoverGrace + ChargedAfter(job'[j].attempts)
    BY <2>2
  <2>3. CASE job[j].status = "running"
    BY <1>3, <1>6, <2>1, <2>3 DEF Covered
  <2>4. CASE job[j].status = "scheduled"
    <3>1. step[j].send >= job[j].start + PerAttempt + ChargedAfter(job[j].attempts + 1)
      BY <1>6, <2>1, <2>4 DEF Covered
    <3>2. ChargedAfter(job[j].attempts + 1) \in Nat
      BY <1>5, <2>4, ChargedAfterFacts, ConstantsAreNumbers
    <3>3. job'[j].close = StartToClose /\ job'[j].attempts = job[j].attempts + 1
      BY <1>3, <1>6, <2>4
    <3> QED
      BY <1>5, <3>1, <3>2, <3>3, ConstantsAreNumbers DEF PerAttempt
  <2> QED
    BY <1>6, <2>3, <2>4 DEF Live
<1>8. \A i \in Jobs : Covered(i)'
  <2> SUFFICES ASSUME NEW i \in Jobs, i # j PROVE Covered(i)'
    BY <1>7
  <2>1. Covered(i) /\ job'[i] = job[i] /\ late'[i] = late[i] /\ step'[i] = step[i]
    BY <1>1, <1>2 DEF HorizonInv, HorizonKept
  <2> QED
    BY <2>1, CoveredStays
<1>9. InTime(w)'
  <2>1. worker'[w].class \notin Exhausted
    BY <1>4 DEF Exhausted
  <2>2. worker'[w].left <= job'[j].close + TakeoverGrace
    BY <1>3, <1>4, <1>5, ConstantsAreNumbers DEF CompletionLeft
  <2> QED
    BY <1>4, <2>1, <2>2 DEF InTime
<1>10. ASSUME NEW v \in Workers, v # w PROVE InTime(v)'
  <2> SUFFICES ASSUME worker[v].pc # "idle"
               PROVE  /\ HoldsLease(v)' => worker[v].left <= job'[worker[v].job].close + TakeoverGrace
                      /\ worker[v].class \in Exhausted => late[worker[v].job] \/ worker[v].left < 0
    BY <1>1, <1>4, <1>10 DEF InTime
  <2>1. worker'[v] = worker[v] /\ worker[v].job \in Jobs
    BY <1>0, <1>4, <1>10 DEF Safe, WorkersBusy
  <2>2. InTime(v)
    BY DEF HorizonInv, HorizonKept
  <2>3. CASE worker[v].job = j
    <3>1. worker[v].generation <= job[j].generation /\ worker[v].generation \in Nat
      BY <1>0, <2>3 DEF HorizonInv, CapacityInv, Sharing, LeasesApart, Safe, TypeOK, WorkerType
    <3>2. ~HoldsLease(v)'
      BY <1>2, <1>5, <2>1, <2>3, <3>1 DEF HoldsLease
    <3> QED
      BY <2>2, <3>2 DEF InTime
  <2>4. CASE worker[v].job # j
    <3>1. job'[worker[v].job] = job[worker[v].job]
      BY <1>2, <2>1, <2>4
    <3> QED
      BY <2>1, <2>2, <3>1 DEF InTime, HoldsLease
  <2> QED
    BY <2>3, <2>4
<1>11. HorizonSuffices'
  BY <1>1, <1>2 DEF HorizonInv, HorizonKept, HorizonSuffices
<1> QED
  BY <1>8, <1>9, <1>10, <1>11 DEF HorizonKept

\* Time passes for the send horizon as for the attempts it covers.
LEMMA TimeCovered ==
    ASSUME HorizonInv, Tick
    PROVE  HorizonKept'
<1>0. HorizonInv /\ Safe
  BY DEF HorizonInv, CapacityInv
<1>1. ASSUME NEW j \in Jobs
      PROVE  /\ job'[j].status = job[j].status /\ job'[j].attempts = job[j].attempts
             /\ job'[j].generation = job[j].generation /\ job'[j].error = job[j].error
             /\ job'[j].start = Down(job[j].start, 0)
             /\ job'[j].close = IF job[j].status = "running"
                                THEN Down(job[j].close, -(TakeoverGrace + 1)) ELSE job[j].close
  <2>1. job[j] \in JobType
    BY <1>0, ClocksAreNumbers
  <2>2. job'[j] = [job[j] EXCEPT
             !.available = Down(@, 0),
             !.start = Down(@, 0),
             !.close = IF job[j].status = "running"
                       THEN Down(@, -(TakeoverGrace + 1)) ELSE @]
    BY DEF Tick
  <2> QED
    BY <2>1, <2>2 DEF JobType
<1>2. late' = late
  BY DEF Tick
<1>3. ASSUME NEW j \in Jobs PROVE Covered(j)'
  <2>1. step[j] \in StepType
    BY <1>0, ClocksAreNumbers
  <2>2. step'[j].row = step[j].row
    BY <2>1 DEF Tick, StepType
  <2> SUFFICES ASSUME Effect = "ProviderIdempotent", step[j].row # "none"
               PROVE  /\ job'[j].status # "absent"
                      /\ step'[j].send <= step'[j].window
                      /\ job'[j].status = "running" /\ ~PastGrace(j)' /\ ~late[j] =>
                            step'[j].send >= job'[j].close + TakeoverGrace
                                               + ChargedAfter(job'[j].attempts)
                      /\ job'[j].status = "scheduled" /\ job'[j].start > 0 /\ ~late[j] =>
                            step'[j].send >= job'[j].start + PerAttempt
                                               + ChargedAfter(job'[j].attempts + 1)
    BY <1>2, <2>2 DEF Covered
  <2>3. step'[j].send = Down(step[j].send, -1) /\ step'[j].window = Down(step[j].window, -1)
    BY <2>1 DEF Tick, StepType
  <2>4. Covered(j)
    BY DEF HorizonInv, HorizonKept
  <2>5. job'[j].status # "absent" /\ step'[j].send <= step'[j].window
    <3>1. step[j].send <= step[j].window /\ job[j].status # "absent"
      BY <2>4 DEF Covered
    <3>2. /\ step[j].send \in Int /\ step[j].window \in Int
          /\ step[j].send >= -1 /\ step[j].window >= -1
      BY <1>0, ClocksAreNumbers
    <3> QED
      BY <1>1, <2>3, <3>1, <3>2 DEF Down
  <2>6. ASSUME job'[j].status = "running", ~PastGrace(j)', ~late[j]
        PROVE  step'[j].send >= job'[j].close + TakeoverGrace + ChargedAfter(job'[j].attempts)
    <3>1. job[j].status = "running" /\ job'[j].attempts = job[j].attempts
          /\ job'[j].close = Down(job[j].close, -(TakeoverGrace + 1))
      BY <1>1, <2>6
    <3>2. /\ job[j].close \in Int /\ job[j].close >= -(TakeoverGrace + 1)
          /\ job[j].attempts \in Nat /\ job[j].attempts >= 1 /\ job[j].attempts <= MaxAttempts
          /\ step[j].send \in Int
      BY <1>0, <3>1, ClocksAreNumbers
    <3>3. PICK c \in Nat : c = ChargedAfter(job[j].attempts)
      BY <3>2, ChargedAfterFacts
    <3>4. job'[j].close = job[j].close - 1 /\ ~(job[j].close - 1 < -TakeoverGrace)
      BY <2>6, <3>1, <3>2, ConstantsAreNumbers DEF PastGrace, Down
    <3>5. ~PastGrace(j)
      BY <3>2, <3>4, ConstantsAreNumbers DEF PastGrace
    <3>6. step[j].send >= job[j].close + TakeoverGrace + c
      BY <2>4, <2>6, <3>1, <3>3, <3>5 DEF Covered
    <3>7. step[j].send - 1 >= job[j].close - 1 + TakeoverGrace + c /\ step[j].send > -1
      BY <3>2, <3>4, <3>6, ConstantsAreNumbers
    <3> QED
      BY <2>3, <3>1, <3>3, <3>4, <3>7 DEF Down
  <2>7. ASSUME job'[j].status = "scheduled", job'[j].start > 0, ~late[j]
        PROVE  step'[j].send >= job'[j].start + PerAttempt + ChargedAfter(job'[j].attempts + 1)
    <3>1. job[j].status = "scheduled" /\ job'[j].attempts = job[j].attempts
          /\ job'[j].start = Down(job[j].start, 0)
      BY <1>1, <2>7
    <3>2. /\ job[j].start \in Nat /\ job[j].attempts \in Nat /\ job[j].attempts < MaxAttempts
          /\ step[j].send \in Int
      BY <1>0, <3>1, ClocksAreNumbers
    <3>3. PICK c \in Nat : c = ChargedAfter(job[j].attempts + 1)
      BY <3>2, ChargedAfterFacts, ConstantsAreNumbers
    <3>4. job[j].start > 0 /\ job'[j].start = job[j].start - 1
      BY <2>7, <3>1, <3>2 DEF Down
    <3>5. step[j].send >= job[j].start + PerAttempt + c
      BY <2>4, <2>7, <3>1, <3>3, <3>4 DEF Covered
    <3>6. PerAttempt \in Nat
      BY ConstantsAreNumbers DEF PerAttempt
    <3>7. step[j].send - 1 >= job[j].start - 1 + PerAttempt + c /\ step[j].send > -1
      BY <3>2, <3>4, <3>5, <3>6
    <3> QED
      BY <2>3, <3>1, <3>3, <3>4, <3>7 DEF Down
  <2> QED
    BY <2>5, <2>6, <2>7
<1>4. ASSUME NEW w \in Workers PROVE InTime(w)'
  <2>1. worker[w] \in WorkerType
    BY <1>0 DEF Safe, TypeOK
  <2>2. worker'[w] = IF worker[w].pc = "idle" THEN worker[w]
                     ELSE [worker[w] EXCEPT !.left = Down(@, -1)]
    BY DEF Tick
  <2>3. worker'[w].pc = worker[w].pc
    BY <2>1, <2>2 DEF WorkerType
  <2> SUFFICES ASSUME worker[w].pc # "idle"
               PROVE  /\ HoldsLease(w)' => worker'[w].left <= job'[worker'[w].job].close + TakeoverGrace
                      /\ worker'[w].class \in Exhausted => late[worker'[w].job] \/ worker'[w].left < 0
    BY <1>2, <2>3 DEF InTime
  <2>4. /\ worker'[w].job = worker[w].job /\ worker'[w].attempt = worker[w].attempt
        /\ worker'[w].generation = worker[w].generation /\ worker'[w].class = worker[w].class
        /\ worker'[w].left = Down(worker[w].left, -1)
    BY <2>1, <2>2 DEF WorkerType
  <2>5. worker[w].job \in Jobs
    BY <1>0 DEF Safe, WorkersBusy
  <2>6. worker[w].left \in Int /\ worker[w].left >= -1
    BY <2>1, ConstantsAreNumbers DEF WorkerType
  <2>7. InTime(w)
    BY DEF HorizonInv, HorizonKept
  <2>8. worker'[w].class \in Exhausted => late[worker'[w].job] \/ worker'[w].left < 0
    BY <2>4, <2>6, <2>7 DEF InTime, Down
  <2>9. ASSUME HoldsLease(w)'
        PROVE  worker'[w].left <= job'[worker'[w].job].close + TakeoverGrace
    <3>1. PICK j \in Jobs : j = worker[w].job
      BY <2>5
    <3>2. HoldsLease(w) /\ job[j].status = "running"
      BY <1>1, <2>4, <2>9, <3>1 DEF HoldsLease
    <3>3. worker[w].left <= job[j].close + TakeoverGrace
      BY <2>7, <3>1, <3>2 DEF InTime
    <3>4. job'[j].close = Down(job[j].close, -(TakeoverGrace + 1))
      BY <1>1, <3>2
    <3>5. job[j].close \in Int /\ job[j].close >= -(TakeoverGrace + 1)
      BY <1>0, ClocksAreNumbers
    <3> QED
      BY <2>4, <2>6, <3>1, <3>3, <3>4, <3>5, ConstantsAreNumbers DEF Down
  <2> QED
    BY <2>8, <2>9
<1>5. HorizonSuffices'
  BY <1>1, <1>2 DEF HorizonInv, HorizonKept, HorizonSuffices
<1> QED
  BY <1>3, <1>4, <1>5 DEF HorizonKept


\* A job that is resolved has nothing left to cover.
LEMMA ResolvedCovered ==
    ASSUME HorizonInv, NEW j \in Jobs, NEW J, J.status \in Terminal,
           job' = [job EXCEPT ![j] = J], step' = step
    PROVE  Covered(j)'
<1>1. job'[j] = J
  BY DEF HorizonInv, CapacityInv, Safe, TypeOK
<1>2. Covered(j)
  BY DEF HorizonInv, HorizonKept
<1> QED
  BY <1>1, <1>2 DEF Covered, Terminal

LEMMA TerminalNames == "succeeded" \in Terminal /\ "failed" \in Terminal
  BY DEF Terminal

LEMMA ResolvedFields ==
    ASSUME HorizonInv, NEW j \in Jobs, NEW status, NEW error
    PROVE  /\ Resolved(j, status, error).status = status
           /\ Resolved(j, status, error).error = error
<1>1. job[j] \in JobType
  BY DEF HorizonInv, CapacityInv, Safe, TypeOK
<1> QED
  BY <1>1 DEF Resolved, JobType

\* The step's authorization is refused for its horizon only past the grace.
LEMMA RefusedLate ==
    ASSUME HorizonInv, NEW w \in Workers, worker[w].pc # "idle", HoldsLease(w),
           Refusal(w) \in Exhausted
    PROVE  late[worker[w].job] \/ worker[w].left < 0
<1>1. PICK j \in Jobs : j = worker[w].job
  BY DEF HorizonInv, CapacityInv, Safe, WorkersBusy
<1>2. /\ Effect = "ProviderIdempotent" /\ step[j].row = "committed"
      /\ step[j].window < 0 \/ step[j].send < 0
  BY <1>1 DEF Refusal, StepRefusal, Exhausted
<1>3. Covered(j) /\ InTime(w)
  BY DEF HorizonInv, HorizonKept
<1>4. /\ job[j].close \in Int /\ job[j].attempts \in Nat /\ job[j].attempts <= MaxAttempts
      /\ step[j].send \in Int /\ step[j].window \in Int
      /\ job[j].status = "running" /\ job[j].attempts >= 1
  BY <1>1, ClocksAreNumbers DEF HoldsLease
<1>5. step[j].send < 0
  BY <1>2, <1>3, <1>4 DEF Covered
<1>6. PICK c \in Nat : c = ChargedAfter(job[j].attempts)
  BY <1>4, ChargedAfterFacts
<1>7. SUFFICES ASSUME ~late[j] PROVE worker[w].left < 0
  BY <1>1
<1>8. PastGrace(j)
  <2> SUFFICES ASSUME ~PastGrace(j) PROVE FALSE
    OBVIOUS
  <2>1. step[j].send >= job[j].close + TakeoverGrace + c
    BY <1>2, <1>3, <1>4, <1>6, <1>7 DEF Covered
  <2>2. ~(job[j].close < -TakeoverGrace)
    BY <1>4 DEF PastGrace
  <2> QED
    BY <1>4, <1>5, <2>1, <2>2, ConstantsAreNumbers
<1>9. worker[w].left <= job[j].close + TakeoverGrace
  BY <1>1, <1>3 DEF InTime
<1>10. worker[w].left \in Int
  BY ConstantsAreNumbers DEF HorizonInv, CapacityInv, Safe, TypeOK, WorkerType
<1> QED
  BY <1>4, <1>8, <1>9, <1>10, ConstantsAreNumbers DEF PastGrace

\* A new step has time for the attempt that opens it and for every retry.
LEMMA InsertCovered ==
    ASSUME HorizonInv, HorizonPinned, NEW j \in Jobs, job[j].status = "running",
           UNCHANGED <<job, late>>,
           step'[j] = [row |-> "inserting", send |-> SendHorizon, window |-> UsableWindow]
    PROVE  Covered(j)'
<1> SUFFICES ASSUME Effect = "ProviderIdempotent"
             PROVE  /\ SendHorizon <= UsableWindow
                    /\ SendHorizon >= job[j].close + TakeoverGrace + ChargedAfter(job[j].attempts)
  BY DEF Covered
<1>1. /\ job[j].close \in Int /\ job[j].close <= StartToClose
      /\ job[j].attempts \in Nat /\ job[j].attempts <= MaxAttempts /\ job[j].attempts >= 1
  BY ClocksAreNumbers
<1>2. PICK c \in Nat : c = ChargedAfter(job[j].attempts)
  BY <1>1, ChargedAfterFacts
<1>3. SendHorizon >= PerAttempt + c
  BY <1>1, <1>2, ChargedAfterFacts
<1>4. SendHorizon >= job[j].close + TakeoverGrace + c
  BY <1>1, <1>3, ConstantsAreNumbers DEF PerAttempt
<1> QED
  BY <1>2, <1>4, TimeAssumption

\* A retry on time is scheduled inside what the horizon charges for it.
LEMMA RetryCovered ==
    ASSUME HorizonInv, NEW j \in Jobs, job[j].status = "running", ~PastGrace(j),
           job[j].close + TakeoverGrace >= 0, job[j].attempts < MaxAttempts,
           NEW d \in Nat, d <= RetryDelayUpper(job[j].attempts), NEW error,
           job' = [job EXCEPT ![j] = Rescheduled(j, d, error)], UNCHANGED <<step, late>>
    PROVE  Covered(j)'
<1>1. job[j] \in JobType
  BY ClocksAreNumbers
<1>2. /\ job'[j].status = "scheduled" /\ job'[j].attempts = job[j].attempts
      /\ job'[j].start = d + ScheduleToStart
  <2>1. job'[j] = Rescheduled(j, d, error)
    BY DEF HorizonInv, CapacityInv, Safe, TypeOK
  <2>2. PICK J : J = Rescheduled(j, d, error)
    OBVIOUS
  <2>3. /\ J.status = "scheduled" /\ J.attempts = job[j].attempts
        /\ J.start = d + ScheduleToStart
    BY <1>1, <2>2 DEF Rescheduled, JobType
  <2> QED
    BY <2>1, <2>2, <2>3
<1>3. Covered(j)
  BY DEF HorizonInv, HorizonKept
<1> SUFFICES ASSUME Effect = "ProviderIdempotent", step[j].row # "none", ~late[j]
             PROVE  step[j].send >= d + ScheduleToStart + PerAttempt
                                      + ChargedAfter(job[j].attempts + 1)
  BY <1>2, <1>3 DEF Covered
<1>4. /\ job[j].close \in Int /\ job[j].attempts \in Nat /\ job[j].attempts >= 1
      /\ step[j].send \in Int
  BY ClocksAreNumbers
<1>5. PICK c \in Nat : c = ChargedAfter(job[j].attempts + 1)
  BY <1>4, ChargedAfterFacts, ConstantsAreNumbers
<1>6. RetryDelayUpper(job[j].attempts) \in Nat
  BY <1>4, DelaysCharged
<1>7. ChargedAfter(job[j].attempts)
        = RetryDelayUpper(job[j].attempts) + ScheduleToStart + PerAttempt + c
  BY <1>4, <1>5, ChargedAfterFacts, ConstantsAreNumbers
<1>8. step[j].send >= job[j].close + TakeoverGrace + ChargedAfter(job[j].attempts)
  BY <1>3 DEF Covered
<1>9. PerAttempt \in Nat
  BY ConstantsAreNumbers DEF PerAttempt
<1> QED
  BY <1>4, <1>5, <1>6, <1>7, <1>8, <1>9, ConstantsAreNumbers


\* No step turns a worker to inserting but an authorization that finds no row.
LEMMA LocksStay ==
    ASSUME RowsLocked,
           \A w \in Workers : worker'[w].pc = "inserting" =>
               /\ worker[w].pc = "inserting" /\ worker'[w].job = worker[w].job
               /\ step'[worker[w].job].row = step[worker[w].job].row
    PROVE  RowsLocked'
  BY DEF RowsLocked

LEMMA LocksStep == Safe /\ RowsLocked /\ [Next]_vars => RowsLocked'
<1> SUFFICES ASSUME Safe, RowsLocked, [Next]_vars PROVE RowsLocked'
  OBVIOUS
<1> DEFINE Same(w) == worker'[w].pc = "inserting" =>
               worker[w].pc = "inserting" /\ worker'[w].job = worker[w].job
<1>0. /\ TypeOK
      /\ \A w \in Workers : worker[w].pc # "idle" => worker[w].job \in Jobs
      /\ Idle.pc # "inserting"
  BY DEF Safe, WorkersBusy, Idle
<1>1. ASSUME NEW w \in Workers, NEW u, worker' = [worker EXCEPT ![w] = u],
             u.pc # "inserting", step' = step
      PROVE  RowsLocked'
  <2>1. \A v \in Workers : Same(v)
    BY <1>0, <1>1 DEF TypeOK
  <2> QED
    BY <1>1, <2>1, LocksStay
<1>2. ASSUME worker' = worker, step' = step PROVE RowsLocked'
  BY <1>2, LocksStay
<1>3. ASSUME NEW j \in Jobs, Schedule(j) PROVE RowsLocked'
  BY <1>2, <1>3 DEF Schedule
<1>4. ASSUME NEW j \in Jobs, Claim(j) PROVE RowsLocked'
  <2>1. PICK w \in Workers : \/ ClaimExpired(w, j) \/ ClaimLateRetry(w, j)
                             \/ ClaimLateFail(w, j) \/ ClaimDeferred(w, j)
                             \/ ClaimLease(w, j)
    BY <1>4 DEF Claim
  <2>2. CASE ClaimExpired(w, j) \/ ClaimLateRetry(w, j)
             \/ ClaimLateFail(w, j) \/ ClaimDeferred(w, j)
    BY <1>2, <2>2 DEF ClaimExpired, ClaimLateRetry, ClaimLateFail, ClaimDeferred
  <2>3. CASE ClaimLease(w, j)
    <3>1. worker'[w].pc = "claimed" /\ \A v \in Workers : v # w => worker'[v] = worker[v]
      BY <1>0, <2>3 DEF ClaimLease, Idle, TypeOK
    <3>2. step' = step
      BY <2>3 DEF ClaimLease
    <3> QED
      BY <3>1, <3>2, LocksStay
  <2> QED
    BY <2>1, <2>2, <2>3
<1>5. ASSUME NEW w \in Workers, AuthorizeOpen(w) PROVE RowsLocked'
  <2>1. PICK j \in Jobs : j = worker[w].job
    BY <1>0, <1>5 DEF AuthorizeOpen
  <2>2. PICK p, c : worker' = [worker EXCEPT ![w].pc = p, ![w].class = c]
                    /\ p = IF Effect # "ReadOnly" /\ step[j].row = "none"
                           THEN "inserting" ELSE "checking"
    BY <1>5, <2>1 DEF AuthorizeOpen
  <2>3. /\ worker'[w].pc = p /\ worker'[w].job = j
        /\ \A v \in Workers : v # w => worker'[v] = worker[v]
    BY <1>0, <2>1, <2>2 DEF TypeOK, WorkerType
  <2>4. \A v \in Workers : worker[v].pc = "inserting" => worker[v].job # j
    BY <1>5, <2>1 DEF AuthorizeOpen, RowsLocked
  <2>5. CASE Effect # "ReadOnly" /\ step[j].row = "none"
    <3>1. step' = [step EXCEPT ![j] = [row |-> "inserting", send |-> SendHorizon,
                                       window |-> UsableWindow]]
      BY <1>5, <2>1, <2>5 DEF AuthorizeOpen
    <3>2. step'[j].row = "inserting" /\ \A i \in Jobs : i # j => step'[i] = step[i]
      BY <1>0, <3>1 DEF TypeOK
    <3> QED
      BY <1>0, <2>3, <2>4, <3>2 DEF RowsLocked
  <2>6. CASE ~(Effect # "ReadOnly" /\ step[j].row = "none")
    <3>1. step' = step /\ p = "checking"
      BY <1>5, <2>1, <2>2, <2>6 DEF AuthorizeOpen
    <3> QED
      BY <2>3, <3>1, LocksStay
  <2> QED
    BY <2>5, <2>6
<1>6. ASSUME NEW w \in Workers, AuthorizeCommit(w) PROVE RowsLocked'
  <2>1. PICK p \in {"authorized", "failed"} : worker' = [worker EXCEPT ![w].pc = p]
    BY <1>6 DEF AuthorizeCommit
  <2>2. /\ worker'[w].pc # "inserting"
        /\ \A v \in Workers : v # w => worker'[v] = worker[v]
    BY <1>0, <2>1 DEF TypeOK, WorkerType
  <2>3. CASE step' = step
    BY <2>2, <2>3, LocksStay
  <2>4. CASE step' = [step EXCEPT ![worker[w].job].row = "committed"] /\ worker[w].pc = "inserting"
    <3>1. \A v \in Workers : v # w /\ worker[v].pc = "inserting" => worker[v].job # worker[w].job
      BY <2>4 DEF RowsLocked
    <3>2. \A i \in Jobs : i # worker[w].job => step'[i] = step[i]
      BY <1>0, <2>4 DEF TypeOK
    <3> QED
      BY <1>0, <2>2, <3>1, <3>2, LocksStay
  <2> QED
    BY <1>6, <2>3, <2>4 DEF AuthorizeCommit
<1>7. ASSUME NEW w \in Workers,
             \/ AuthorizeLost(w) \/ CompleteSuccess(w) \/ CompleteRetry(w)
             \/ CompleteFailure(w) \/ CompleteStale(w)
      PROVE  RowsLocked'
  <2>1. worker' = [worker EXCEPT ![w] = Idle] /\ step' = step
    BY <1>7 DEF AuthorizeLost, CompleteSuccess, CompleteRetry, CompleteFailure, CompleteStale
  <2> QED
    BY <1>0, <1>1, <2>1
<1>8. ASSUME NEW w \in Workers, Send(w) PROVE RowsLocked'
  <2>1. PICK c : worker' = [worker EXCEPT ![w].pc = "sent", ![w].carried = c] /\ step' = step
    BY <1>8 DEF Send
  <2>2. worker'[w].pc = "sent" /\ \A v \in Workers : v # w => worker'[v] = worker[v]
    BY <1>0, <2>1 DEF TypeOK, WorkerType
  <2> QED
    BY <2>1, <2>2, LocksStay
<1>9. ASSUME NEW w \in Workers, AnswerSuccess(w) \/ AnswerUnusable(w) \/ AnswerFailure(w)
      PROVE  RowsLocked'
  <2>1. \A p, c, s, a : Replied(w, p, c, s, a) =>
            worker'[w].pc = p /\ \A v \in Workers : v # w => worker'[v] = worker[v]
    BY <1>0 DEF Replied, TypeOK, WorkerType
  <2>2. /\ worker'[w].pc \in {"succeeded", "failed"} /\ step' = step
        /\ \A v \in Workers : v # w => worker'[v] = worker[v]
    BY <1>9, <2>1 DEF AnswerSuccess, AnswerUnusable, AnswerFailure
  <2> QED
    BY <2>2, LocksStay
<1>10. ASSUME NEW w \in Workers, Crash(w) PROVE RowsLocked'
  <2>1. worker'[w].pc # "inserting" /\ \A v \in Workers : v # w => worker'[v] = worker[v]
    BY <1>0, <1>10 DEF Crash, TypeOK
  <2>2. CASE step' = step
    BY <2>1, <2>2, LocksStay
  <2>3. CASE step' = [step EXCEPT ![worker[w].job] = NoStep] /\ worker[w].pc = "inserting"
    <3>1. \A v \in Workers : v # w /\ worker[v].pc = "inserting" => worker[v].job # worker[w].job
      BY <2>3 DEF RowsLocked
    <3>2. \A i \in Jobs : i # worker[w].job => step'[i] = step[i]
      BY <1>0, <2>3 DEF TypeOK
    <3> QED
      BY <1>0, <2>1, <3>1, <3>2, LocksStay
  <2> QED
    BY <1>10, <2>2, <2>3 DEF Crash
<1>11. ASSUME Tick PROVE RowsLocked'
  <2>1. \A w \in Workers : worker'[w].pc = worker[w].pc /\ worker'[w].job = worker[w].job
    BY <1>0, <1>11 DEF Tick, TypeOK, WorkerType
  <2>2. \A i \in Jobs : step'[i].row = step[i].row
    BY <1>0, <1>11 DEF Tick, TypeOK, StepType
  <2> QED
    BY <1>0, <2>1, <2>2, LocksStay
<1>12. ASSUME UNCHANGED vars PROVE RowsLocked'
  BY <1>2, <1>12 DEF vars
<1> QED
  BY <1>3, <1>4, <1>5, <1>6, <1>7, <1>8, <1>9, <1>10, <1>11, <1>12 DEF Next, Work


LEMMA HorizonStep ==
    ASSUME HorizonPinned, HorizonInv, [Next]_vars
    PROVE  HorizonInv'
<1>0. CapacityInv' /\ RowsLocked' /\ Safe /\ TypeOK
  BY CapacityStep, LocksStep DEF HorizonInv, CapacityInv, Safe
<1> SUFFICES HorizonKept'
  BY <1>0 DEF HorizonInv
<1>1. ASSUME NEW j \in Jobs PROVE Covered(j)
  BY DEF HorizonInv, HorizonKept
<1>2. ASSUME UNCHANGED <<job, late, step>> PROVE \A j \in Jobs : Covered(j)'
  <2> SUFFICES ASSUME NEW j \in Jobs PROVE Covered(j)'
    OBVIOUS
  <2> QED
    BY <1>1, <1>2, CoveredStays
<1>3. \A w \in Workers : worker[w].pc # "idle" => worker[w].job \in Jobs
  BY <1>0 DEF Safe, WorkersBusy
<1>4. ASSUME NEW j \in Jobs, Schedule(j) PROVE HorizonKept'
  <2>1. PICK J : J = [NoJob EXCEPT !.status = "scheduled", !.start = ScheduleToStart]
    OBVIOUS
  <2>2. /\ job' = [job EXCEPT ![j] = J] /\ J.status = "scheduled" /\ J.error = "none"
        /\ UNCHANGED <<worker, late, step>> /\ job[j].status = "absent"
    BY <1>4, <2>1 DEF Schedule, NoJob
  <2>3. Covered(j)'
    BY <1>1, <2>2 DEF Covered
  <2> QED
    BY <2>2, <2>3, OneJobMoves DEF Exhausted
<1>5. ASSUME NEW w \in Workers, NEW j \in Jobs, ClaimExpired(w, j) PROVE HorizonKept'
  <2>1. PICK J : J = Resolved(j, "failed", "schedule_to_start")
    OBVIOUS
  <2>2. J.status = "failed" /\ J.error = "schedule_to_start"
    BY <2>1, ResolvedFields
  <2>3. job' = [job EXCEPT ![j] = J] /\ UNCHANGED <<worker, late, step>>
    BY <1>5, <2>1 DEF ClaimExpired
  <2>4. Covered(j)'
    BY <2>2, <2>3, TerminalNames, ResolvedCovered
  <2> QED
    BY <2>2, <2>3, <2>4, OneJobMoves DEF Exhausted
<1>6. ASSUME NEW w \in Workers, NEW j \in Jobs, ClaimLateRetry(w, j) PROVE HorizonKept'
  <2>1. PICK d \in 0..RetryDelayUpper(job[j].attempts) :
            job' = [job EXCEPT ![j] = Rescheduled(j, d, LateError(j))]
    BY <1>6 DEF ClaimLateRetry
  <2>2. PICK J : J = Rescheduled(j, d, LateError(j))
    OBVIOUS
  <2>3. J.status = "scheduled"
    BY <1>0, <2>2 DEF Rescheduled, TypeOK, JobType
  <2>4. /\ job' = [job EXCEPT ![j] = J] /\ UNCHANGED <<worker, step>>
        /\ late' = [late EXCEPT ![j] = TRUE] /\ job[j].status = "running"
    BY <1>6, <2>1, <2>2 DEF ClaimLateRetry, PastGrace
  <2>5. late'[j] /\ (\A i \in Jobs : i # j => late'[i] = late[i]) /\ job'[j] = J
    BY <1>0, <2>4 DEF TypeOK
  <2>6. Covered(j)'
    BY <1>1, <2>3, <2>4, <2>5 DEF Covered
  <2> QED
    BY <2>3, <2>4, <2>5, <2>6, OneJobMoves
<1>7. ASSUME NEW w \in Workers, NEW j \in Jobs, ClaimLateFail(w, j) PROVE HorizonKept'
  <2>1. PICK er : er = IF LateError(j) \in RetryOn THEN "retry_exhausted" ELSE LateError(j)
    OBVIOUS
  <2>2. PICK J : J = Resolved(j, "failed", er)
    OBVIOUS
  <2>3. J.status = "failed"
    BY <2>2, ResolvedFields
  <2>4. /\ job' = [job EXCEPT ![j] = J] /\ UNCHANGED <<worker, step>>
        /\ late' = [late EXCEPT ![j] = TRUE]
    BY <1>7, <2>1, <2>2 DEF ClaimLateFail
  <2>5. late'[j] /\ \A i \in Jobs : i # j => late'[i] = late[i]
    BY <1>0, <2>4 DEF TypeOK
  <2>6. Covered(j)'
    BY <2>3, <2>4, TerminalNames, ResolvedCovered
  <2> QED
    BY <2>3, <2>4, <2>5, <2>6, OneJobMoves
<1>8. ASSUME NEW w \in Workers, NEW j \in Jobs, ClaimDeferred(w, j) PROVE HorizonKept'
  <2>1. PICK next \in NextAvailable(j) :
          job' = [job EXCEPT ![j].available =
                     Smaller(next, IF IsTakeover(j) THEN CompletionLeft(j)
                                                    ELSE job[j].start)]
    BY <1>8 DEF ClaimDeferred
  <2>2. PICK J : J = [job[j] EXCEPT !.available =
                     Smaller(next, IF IsTakeover(j) THEN CompletionLeft(j)
                                                    ELSE job[j].start)]
    OBVIOUS
  <2>3. /\ J.status = job[j].status /\ J.close = job[j].close /\ J.start = job[j].start
        /\ J.generation = job[j].generation /\ J.attempts = job[j].attempts
        /\ J.error = job[j].error
    BY <1>0, <2>2 DEF TypeOK, JobType
  <2>4. /\ job' = [job EXCEPT ![j] = J] /\ job'[j] = J
        /\ UNCHANGED <<worker, late, step>>
    BY <1>0, <1>8, <2>1, <2>2 DEF ClaimDeferred, TypeOK
  <2>5. Covered(j)'
    BY <1>1, <2>3, <2>4 DEF Covered, PastGrace
  <2>6. J.error \in Exhausted => late'[j]
    BY <2>3, <2>4 DEF HorizonInv, HorizonKept, HorizonSuffices, Exhausted
  <2> QED
    BY <2>3, <2>4, <2>5, <2>6, OneJobMoves
<1>9. ASSUME NEW w \in Workers, NEW j \in Jobs, ClaimLease(w, j) PROVE HorizonKept'
  BY <1>9, LeaseCovered
<1>10. ASSUME NEW w \in Workers, AuthorizeOpen(w) PROVE HorizonKept'
  <2>1. PICK j \in Jobs : j = worker[w].job
    BY <1>3, <1>10 DEF AuthorizeOpen
  <2>2. /\ worker[w].pc = "claimed" /\ HoldsLease(w) /\ UNCHANGED <<job, late>>
        /\ job[j].status = "running"
    BY <1>10, <2>1 DEF AuthorizeOpen, HoldsLease
  <2>3. \A i \in Jobs : Covered(i)'
    <3>1. CASE step' = step
      BY <1>2, <2>2, <3>1
    <3>2. CASE step' = [step EXCEPT ![j] = [row |-> "inserting", send |-> SendHorizon,
                                            window |-> UsableWindow]]
      <4>1. step'[j] = [row |-> "inserting", send |-> SendHorizon, window |-> UsableWindow]
            /\ \A i \in Jobs : i # j => step'[i] = step[i]
        BY <1>0, <3>2 DEF TypeOK
      <4>2. Covered(j)'
        BY <2>2, <4>1, InsertCovered
      <4>3. ASSUME NEW i \in Jobs, i # j PROVE Covered(i)'
        BY <1>1, <2>2, <4>1, <4>3, CoveredStays
      <4> QED
        BY <4>2, <4>3
    <3> QED
      BY <1>10, <2>1, <3>1, <3>2 DEF AuthorizeOpen
  <2>4. PICK p : worker' = [worker EXCEPT ![w].pc = p, ![w].class = Refusal(w)]
    BY <1>10 DEF AuthorizeOpen
  <2>5. /\ worker'[w].job = worker[w].job /\ worker'[w].attempt = worker[w].attempt
        /\ worker'[w].generation = worker[w].generation /\ worker'[w].left = worker[w].left
        /\ worker'[w].class = Refusal(w)
        /\ \A v \in Workers : v # w => worker'[v] = worker[v]
    BY <1>0, <2>4 DEF TypeOK, WorkerType
  <2>6. worker'[w].class \in Exhausted => late[worker[w].job] \/ worker[w].left < 0
    BY <2>2, <2>5, RefusedLate
  <2>7. worker[w].pc # "idle"
    BY <2>2
  <2> QED
    BY <2>2, <2>3, <2>5, <2>6, <2>7, InTimeStays
<1>11. ASSUME NEW w \in Workers, AuthorizeCommit(w) PROVE HorizonKept'
  <2>1. /\ worker[w].pc # "idle" /\ UNCHANGED <<job, late>> /\ worker[w].job \in Jobs
    BY <1>3, <1>11 DEF AuthorizeCommit
  <2>2. \A i \in Jobs : Covered(i)'
    <3>1. CASE step' = step
      BY <1>2, <2>1, <3>1
    <3>2. CASE /\ step' = [step EXCEPT ![worker[w].job].row = "committed"]
               /\ worker[w].pc = "inserting"
      <4> SUFFICES ASSUME NEW i \in Jobs PROVE Covered(i)'
        OBVIOUS
      <4>1. step'[i].send = step[i].send /\ step'[i].window = step[i].window
            /\ (i # worker[w].job => step'[i] = step[i])
        BY <1>0, <3>2 DEF TypeOK, StepType
      <4>2. i = worker[w].job => step[i].row # "none"
        BY <3>2 DEF HorizonInv, RowsLocked
      <4> QED
        BY <1>1, <2>1, <4>1, <4>2, CoveredStays
    <3> QED
      BY <1>11, <3>1, <3>2 DEF AuthorizeCommit
  <2>3. PICK p : worker' = [worker EXCEPT ![w].pc = p]
    BY <1>11 DEF AuthorizeCommit
  <2>4. /\ worker'[w].job = worker[w].job /\ worker'[w].attempt = worker[w].attempt
        /\ worker'[w].generation = worker[w].generation /\ worker'[w].left = worker[w].left
        /\ worker'[w].class = worker[w].class
        /\ \A v \in Workers : v # w => worker'[v] = worker[v]
    BY <1>0, <2>3 DEF TypeOK, WorkerType
  <2> QED
    BY <2>1, <2>2, <2>4, InTimeStays
<1>12. ASSUME NEW w \in Workers, AuthorizeLost(w) \/ CompleteStale(w) PROVE HorizonKept'
  <2>1. worker' = [worker EXCEPT ![w] = Idle] /\ UNCHANGED <<job, late, step>>
    BY <1>12 DEF AuthorizeLost, CompleteStale
  <2>2. worker'[w].pc = "idle" /\ \A v \in Workers : v # w => worker'[v] = worker[v]
    BY <1>0, <2>1 DEF Idle, TypeOK
  <2> QED
    BY <1>2, <2>1, <2>2, InTimeStays
<1>13. ASSUME NEW w \in Workers, Send(w) PROVE HorizonKept'
  <2>1. UNCHANGED <<job, late, step>> /\ worker[w].pc # "idle"
    BY <1>13 DEF Send
  <2>2. PICK c : worker' = [worker EXCEPT ![w].pc = "sent", ![w].carried = c]
    BY <1>13 DEF Send
  <2>3. /\ worker'[w].job = worker[w].job /\ worker'[w].attempt = worker[w].attempt
        /\ worker'[w].generation = worker[w].generation /\ worker'[w].left = worker[w].left
        /\ worker'[w].class = worker[w].class
        /\ \A v \in Workers : v # w => worker'[v] = worker[v]
    BY <1>0, <2>2 DEF TypeOK, WorkerType
  <2> QED
    BY <1>2, <2>1, <2>3, InTimeStays
<1>14. ASSUME NEW w \in Workers, AnswerSuccess(w) \/ AnswerUnusable(w) \/ AnswerFailure(w)
       PROVE  HorizonKept'
  <2>1. UNCHANGED <<job, late, step>> /\ worker[w].pc # "idle"
    BY <1>14 DEF AnswerSuccess, AnswerUnusable, AnswerFailure
  <2>2. \A p, c, s, a : Replied(w, p, c, s, a) =>
            /\ worker'[w].job = worker[w].job /\ worker'[w].attempt = worker[w].attempt
            /\ worker'[w].generation = worker[w].generation /\ worker'[w].left = worker[w].left
            /\ worker'[w].class = c
            /\ \A v \in Workers : v # w => worker'[v] = worker[v]
    BY <1>0 DEF Replied, TypeOK, WorkerType
  <2>3. AllClasses \cap Exhausted = {} /\ "none" \notin Exhausted /\ "invariant" \notin Exhausted
    BY DEF AllClasses, AmbiguousClasses, RefusalClasses, Exhausted
  <2>4. PICK p, c, s, a : Replied(w, p, c, s, a) /\ c \notin Exhausted
    BY <1>14, <2>3, EnvironmentAssumption DEF AnswerSuccess, AnswerUnusable, AnswerFailure
  <2>5. /\ worker'[w].job = worker[w].job /\ worker'[w].attempt = worker[w].attempt
        /\ worker'[w].generation = worker[w].generation /\ worker'[w].left = worker[w].left
        /\ worker'[w].class \notin Exhausted
        /\ \A v \in Workers : v # w => worker'[v] = worker[v]
    BY <2>2, <2>4
  <2> QED
    BY <1>2, <2>1, <2>5, InTimeStays
<1>15. ASSUME NEW w \in Workers, CompleteSuccess(w) PROVE HorizonKept'
  <2>1. PICK j \in Jobs : j = worker[w].job
    BY <1>3, <1>15 DEF CompleteSuccess
  <2>2. PICK J : J = Resolved(j, "succeeded", "none")
    OBVIOUS
  <2>3. J.status = "succeeded" /\ J.error = "none"
    BY <2>2, ResolvedFields
  <2>4. /\ job' = [job EXCEPT ![j] = J] /\ UNCHANGED <<late, step>>
        /\ worker' = [worker EXCEPT ![w] = Idle]
    BY <1>15, <2>1, <2>2 DEF CompleteSuccess
  <2>5. worker'[w].pc = "idle" /\ \A v \in Workers : v # w => worker'[v] = worker[v]
    BY <1>0, <2>4 DEF Idle, TypeOK
  <2>6. Covered(j)'
    BY <2>3, <2>4, TerminalNames, ResolvedCovered
  <2> QED
    BY <2>3, <2>4, <2>5, <2>6, OneJobMoves DEF Exhausted
<1>16. ASSUME NEW w \in Workers, CompleteRetry(w) PROVE HorizonKept'
  <2>1. PICK j \in Jobs : j = worker[w].job
    BY <1>3, <1>16 DEF CompleteRetry
  <2>2. /\ Fenced(w) /\ Retryable(w) /\ worker[w].attempt < MaxAttempts
        /\ worker[w].after <= RetryDelayUpper(worker[w].attempt)
        /\ UNCHANGED <<late, step>> /\ worker' = [worker EXCEPT ![w] = Idle]
        /\ worker[w].pc # "idle"
    BY <1>16 DEF CompleteRetry
  <2>3. PICK jitter \in 0..RetryDelayUpper(worker[w].attempt) :
          job' = [job EXCEPT ![j] = Rescheduled(j, Larger(jitter, worker[w].after),
                                                RecordedClass(w))]
    BY <1>16, <2>1 DEF CompleteRetry
  <2>4. /\ job[j].status = "running" /\ job[j].attempts = worker[w].attempt
        /\ worker[w].left >= 0
    BY <2>1, <2>2 DEF Fenced, HoldsLease
  <2>5. worker[w].after \in Nat /\ worker[w].left \in Int
    BY <1>0, ConstantsAreNumbers DEF TypeOK, WorkerType
  <2>6. job[j].close \in Int /\ job[j].attempts \in Nat /\ job[j].attempts >= 1
    BY <2>4, ClocksAreNumbers
  <2>7. worker[w].left <= job[j].close + TakeoverGrace
    BY <2>1, <2>2 DEF HorizonInv, HorizonKept, InTime, Fenced
  <2>8. job[j].close + TakeoverGrace >= 0 /\ ~PastGrace(j)
    BY <2>4, <2>5, <2>6, <2>7, ConstantsAreNumbers DEF PastGrace
  <2>9. RetryDelayUpper(job[j].attempts) \in Nat
    BY <2>6, DelaysCharged
  <2>10. PICK d \in Nat : d = Larger(jitter, worker[w].after)
                          /\ d <= RetryDelayUpper(job[j].attempts)
    BY <2>2, <2>3, <2>4, <2>5, <2>9 DEF Larger
  <2>11. job' = [job EXCEPT ![j] = Rescheduled(j, d, RecordedClass(w))]
    BY <2>3, <2>10
  <2>12. Covered(j)'
    BY <2>2, <2>4, <2>8, <2>10, <2>11, RetryCovered
  <2>13. PICK J : J = Rescheduled(j, d, RecordedClass(w))
    OBVIOUS
  <2>14. J.status = "scheduled" /\ J.error = RecordedClass(w)
    BY <1>0, <2>13 DEF Rescheduled, TypeOK, JobType
  <2>15. RecordedClass(w) \notin Exhausted
    BY <2>2, RetryAssumption DEF Retryable, AmbiguousClasses, Exhausted
  <2>16. worker'[w].pc = "idle" /\ \A v \in Workers : v # w => worker'[v] = worker[v]
    BY <1>0, <2>2 DEF Idle, TypeOK
  <2> QED
    BY <2>2, <2>11, <2>12, <2>13, <2>14, <2>15, <2>16, OneJobMoves
<1>17. ASSUME NEW w \in Workers, CompleteFailure(w) PROVE HorizonKept'
  <2>1. PICK j \in Jobs : j = worker[w].job
    BY <1>3, <1>17 DEF CompleteFailure
  <2>2. PICK er : /\ job' = [job EXCEPT ![j] = Resolved(j, "failed", er)]
                  /\ er \in {"retry_exhausted", "timeout", RecordedClass(w)}
    BY <1>17, <2>1 DEF CompleteFailure
  <2>3. PICK J : J = Resolved(j, "failed", er)
    OBVIOUS
  <2>4. J.status = "failed" /\ J.error = er
    BY <2>3, ResolvedFields
  <2>5. /\ UNCHANGED <<late, step>> /\ worker' = [worker EXCEPT ![w] = Idle]
        /\ worker[w].left >= 0 /\ worker[w].pc # "idle"
    BY <1>17 DEF CompleteFailure, Fenced
  <2>6. worker[w].left \in Int
    BY <1>0, ConstantsAreNumbers DEF TypeOK, WorkerType
  <2>7. worker[w].class \in Exhausted => late[j]
    BY <2>1, <2>5, <2>6 DEF HorizonInv, HorizonKept, InTime
  <2>8. J.error \in Exhausted => late'[j]
    BY <2>2, <2>4, <2>5, <2>7 DEF RecordedClass, Exhausted
  <2>9. worker'[w].pc = "idle" /\ \A v \in Workers : v # w => worker'[v] = worker[v]
    BY <1>0, <2>5 DEF Idle, TypeOK
  <2>10. Covered(j)'
    BY <2>2, <2>3, <2>4, <2>5, TerminalNames, ResolvedCovered
  <2> QED
    BY <2>2, <2>3, <2>4, <2>5, <2>8, <2>9, <2>10, OneJobMoves
<1>18. ASSUME NEW w \in Workers, Crash(w) PROVE HorizonKept'
  <2>1. UNCHANGED <<job, late>> /\ worker[w].job \in Jobs
    BY <1>3, <1>18 DEF Crash
  <2>2. worker'[w].pc = "idle" /\ \A v \in Workers : v # w => worker'[v] = worker[v]
    BY <1>0, <1>18 DEF Crash, Idle, TypeOK
  <2>3. \A i \in Jobs : step'[i].row = "none" \/ step'[i] = step[i]
    BY <1>0, <1>18, <2>1 DEF Crash, NoStep, TypeOK
  <2>4. \A i \in Jobs : Covered(i)'
    <3> SUFFICES ASSUME NEW i \in Jobs PROVE Covered(i)'
      OBVIOUS
    <3>1. CASE step'[i].row = "none"
      BY <1>1, <2>1, <3>1, CoveredStays
    <3>2. CASE step'[i] = step[i]
      BY <1>1, <2>1, <3>2, CoveredStays
    <3> QED
      BY <2>3, <3>1, <3>2
  <2> QED
    BY <2>1, <2>2, <2>4, InTimeStays
<1>19. ASSUME Tick PROVE HorizonKept'
  BY <1>19, TimeCovered
<1>20. ASSUME UNCHANGED vars PROVE HorizonKept'
  <2>1. UNCHANGED <<job, late, step, worker>>
    BY <1>20 DEF vars
  <2> QED
    BY <1>2, <2>1, InTimeStays
<1> QED
  BY <1>4, <1>5, <1>6, <1>7, <1>8, <1>9, <1>10, <1>11, <1>12, <1>13, <1>14, <1>15,
     <1>16, <1>17, <1>18, <1>19, <1>20 DEF Next, Work, Claim

LEMMA HorizonAlways ==
    ASSUME HorizonPinned
    PROVE  Spec => []HorizonInv
<1>1. HorizonInv /\ [Next]_vars => HorizonInv'
  BY HorizonStep
<1> QED
  BY <1>1, HorizonInit, PTL DEF Spec

\* A provider-idempotent activity whose pinned horizon is no less than what
\* specification 005 charges runs out of it only after an attempt sat past its
\* takeover grace: retries, jitter, Retry-After, takeovers and crashes on time
\* never use up more than compile_retry_horizon charged for them.
THEOREM HorizonCoversRetries == HorizonPinned => (Spec => []HorizonSuffices)
<1>1. HorizonInv => HorizonSuffices
  BY DEF HorizonInv, HorizonKept
<1> SUFFICES ASSUME HorizonPinned PROVE Spec => []HorizonSuffices
  OBVIOUS
<1>2. Spec => []HorizonInv
  BY HorizonAlways
<1> QED
  BY <1>1, <1>2, PTL

=============================================================================
