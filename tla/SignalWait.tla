----------------------------- MODULE SignalWait -----------------------------
(***************************************************************************)
(* The durable signal wait of a Process: the outbox rows commands write,   *)
(* the signal consumer (crates/server/src/processes/signal.rs), and the    *)
(* transition consumer of transition.rs around one wait state: optimistic  *)
(* preparation, the version fence, wait entry with the return of early     *)
(* signals, the race of signal and timeout, transient deferral, give-up.   *)
(*                                                                         *)
(* Instances share one deployed signal contract and one correlation; their *)
(* states other than the wait are "work" (any deterministic state) and     *)
(* "output".  Workers and consumers belong to different engine replicas,   *)
(* so nothing but the database stands between them.                        *)
(*                                                                         *)
(* Time is the database clock, cut off at MaxTime: a later timestamp is    *)
(* MaxTime, the instant at which everything is due.                        *)
(***************************************************************************)
EXTENDS Naturals, FiniteSets

CONSTANTS
    Instances,      \* Process instances with one signal wait in common
    Requests,       \* rows of process_signal_requests
    Key,            \* the semantic idempotency key of each request
    Consumers,      \* executions of consume_one_signal
    Workers,        \* executions of consume_one_transition
    None,           \* no instance, request or marker
    Persist,        \* persist_before_match of the wait
    RetryCeiling,   \* TRANSITION_RETRY_MAX_ATTEMPTS
    MaxVersion,     \* bound on instance versions: no wait is entered above it
    MaxFaults,      \* bound on failing transitions and crashes
    MaxTime         \* bound on the database clock

ASSUME SignalWaitAssumption ==
    /\ Persist \in BOOLEAN
    /\ RetryCeiling \in Nat \ {0}
    /\ MaxVersion \in Nat
    /\ MaxFaults \in Nat
    /\ MaxTime \in Nat
    /\ None \notin Instances \cup Requests

VARIABLES
    now,        \* statement_timestamp()
    inst,       \* process_instances
    events,     \* process_events, closed ones included
    request,    \* process_signal_requests
    consumer,   \* an open signal transaction of each consumer
    worker,     \* the prepared or open transition of each worker
    faults      \* failing transitions and crashes so far

vars == <<now, inst, events, request, consumer, worker, faults>>

-----------------------------------------------------------------------------
Times == 0..MaxTime
Earlier(s, t) == IF s <= t THEN s ELSE t

NoInstance == [status |-> "absent", state |-> "work", version |-> 0]
NoRequest  == [status |-> "absent", created |-> 0]
NoSignal   == [pc |-> "idle", request |-> None, seen |-> <<>>,
               locks |-> {}, outcome |-> "none", target |-> None]
NoTransition ==
              [pc |-> "idle", event |-> None, version |-> 0, state |-> "work"]

\* An event is identified by its kind, instance, version and request: the
\* idempotency keys continue:, wait-timer: and signal-request:.
Id(e) == <<e.kind, e.inst, e.version, e.request>>
Event(id) == CHOOSE e \in events : Id(e) = id
Pending == {e \in events : e.status = "pending"}

ContinueEvent(i, version, at) ==
    [kind |-> "continue", inst |-> i, version |-> version, request |-> None,
     created |-> at, available |-> at, deadline |-> at, attempts |-> 0,
     status |-> "pending"]

\* Mutation of TimerEvent: the marker carries the version before the entry.
TimerEventBeforeEntry(i, version, at) ==
    [kind |-> "timer", inst |-> i, version |-> version - 1, request |-> None,
     created |-> now, available |-> at, deadline |-> at, attempts |-> 0,
     status |-> "pending"]

TimerEvent(i, version, at) ==
    [kind |-> "timer", inst |-> i, version |-> version, request |-> None,
     created |-> now, available |-> at, deadline |-> at, attempts |-> 0,
     status |-> "pending"]

SignalEvent(i, version, r) ==
    [kind |-> "signal", inst |-> i, version |-> version, request |-> r,
     created |-> now, available |-> request[r].created,
     deadline |-> request[r].created, attempts |-> 0, status |-> "pending"]

\* Signal and timer events of one wait of one instance.
WaitEvents(i, version) ==
    {e \in events : e.kind \in {"signal", "timer"} /\ e.inst = i
                    /\ e.version = version}

\* Row locks on an instance: of a signal's consumer on its candidates, of a
\* transition on the instance of its event.
ConsumerLocks(i) == \E c \in Consumers : i \in consumer[c].locks
WorkerLocks(i)   == \E w \in Workers : /\ worker[w].pc = "locked"
                                       /\ worker[w].event[2] = i
Locked(i)        == ConsumerLocks(i) \/ WorkerLocks(i)

-----------------------------------------------------------------------------
Init ==
    /\ now = 0
    /\ inst = [i \in Instances |-> NoInstance]
    /\ events = {}
    /\ request = [r \in Requests |-> NoRequest]
    /\ consumer = [c \in Consumers |-> NoSignal]
    /\ worker = [w \in Workers |-> NoTransition]
    /\ faults = 0

Tick ==
    /\ now < MaxTime
    /\ now' = now + 1
    /\ UNCHANGED <<inst, events, request, consumer, worker, faults>>

\* consume_one_start creates the instance and its first token.
Start(i) ==
    /\ inst[i].status = "absent"
    /\ inst' = [inst EXCEPT ![i].status = "running"]
    /\ events' = events \cup {ContinueEvent(i, 0, now)}
    /\ UNCHANGED <<now, request, consumer, worker, faults>>

\* A command writes its outbox row (created_at is its transaction's start) and
\* commits it.
WriteRequest(r) ==
    /\ request[r].status = "absent"
    /\ request' = [request EXCEPT ![r] = [status |-> "writing",
                                          created |-> now]]
    /\ UNCHANGED <<now, inst, events, consumer, worker, faults>>

CommitRequest(r) ==
    /\ request[r].status = "writing"
    /\ request' = [request EXCEPT ![r].status = "pending"]
    /\ UNCHANGED <<now, inst, events, consumer, worker, faults>>

-----------------------------------------------------------------------------
(* consume_one_signal *)

Claimed(r) == \E c \in Consumers : consumer[c].request = r

\* The oldest pending row no other consumer has locked.
Claimable(r) ==
    /\ request[r].status = "pending"
    /\ ~Claimed(r)
    /\ \A q \in Requests :
          request[q].status = "pending" /\ ~Claimed(q)
             => request[r].created <= request[q].created

\* The advisory lock on the semantic key.
KeyFree(r) == \A c \in Consumers :
                 consumer[c].request # None => Key[consumer[c].request] # Key[r]

\* Mutation of IsDuplicate: the semantic key is never looked up.
NeverDuplicate(r) == FALSE

IsDuplicate(r) ==
    \E q \in Requests :
        /\ q # r
        /\ Key[q] = Key[r]
        /\ request[q].status \notin {"absent", "writing", "pending"}

SignalDuplicate(c, r) ==
    /\ consumer[c].pc = "idle"
    /\ Claimable(r)
    /\ KeyFree(r)
    /\ IsDuplicate(r)
    /\ request' = [request EXCEPT ![r].status = "duplicate"]
    /\ UNCHANGED <<now, inst, events, consumer, worker, faults>>

\* The pending timer of the wait version an instance is in, or None.
Marker(i) ==
    LET timers == {e \in Pending : e.kind = "timer" /\ e.inst = i
                                   /\ e.version = inst[i].version}
    IN  IF timers = {} THEN None
        ELSE LET e == CHOOSE t \in timers : TRUE
             IN  [created |-> e.created, available |-> e.available]

Candidates == {i \in Instances : inst[i].status = "running"
                                 /\ inst[i].state = "wait"}

\* The candidate query takes its snapshot: the instances and their markers.
SignalRead(c, r) ==
    /\ consumer[c].pc = "idle"
    /\ Claimable(r)
    /\ KeyFree(r)
    /\ ~IsDuplicate(r)
    /\ consumer' = [consumer EXCEPT ![c] =
                       [NoSignal EXCEPT !.pc = "read", !.request = r,
                                       !.seen = [i \in Candidates |-> Marker(i)]]]
    /\ UNCHANGED <<now, inst, events, request, worker, faults>>

\* Mutation of MarkerMatches: the deadline is not looked at.
MarkerMatchesEver(r, marker) == marker # None

MarkerMatches(r, marker) ==
    /\ marker # None
    /\ request[r].created <= marker.available

\* Mutation of EnteredBefore: the marker's age is not looked at.
EnteredEver(r, marker) == TRUE

EnteredBefore(r, marker) == marker.created <= request[r].created

Receptive(r, marker) == MarkerMatches(r, marker) /\ EnteredBefore(r, marker)
Persisted(r, marker) ==
    Persist /\ MarkerMatches(r, marker) /\ ~EnteredBefore(r, marker)

\* Instances with any timer of this signal, whatever became of it.
HistoricalTargets == {e.inst : e \in {t \in events : t.kind = "timer"}}

\* FOR UPDATE OF instance: a row that changed since the snapshot is locked in
\* its latest version and its condition checked again, but the marker joined
\* to it stays the one of the snapshot.
Matching(c) == DOMAIN consumer[c].seen \cap Candidates

\* The waits that were open when the signal was sent, or else the later ones
\* that ask for early signals.
Targets(c) ==
    LET r         == consumer[c].request
        seen      == consumer[c].seen
        receptive == {i \in Matching(c) : Receptive(r, seen[i])}
    IN  IF receptive # {} THEN receptive
        ELSE {i \in Matching(c) : Persisted(r, seen[i])}

\* The history query sees everything committed by then.
Outcome(c) ==
    LET known == Matching(c) \cup HistoricalTargets
    IN  IF Cardinality(Targets(c)) = 1 THEN "consumed"
        ELSE IF Targets(c) # {} THEN "ambiguous"
        ELSE IF known = {} THEN "unmatched"
        ELSE IF Cardinality(known) = 1 THEN "unexpected_state"
        ELSE "ambiguous"

SignalLock(c) ==
    /\ consumer[c].pc = "read"
    /\ \A i \in Matching(c) : ~Locked(i)
    /\ consumer' = [consumer EXCEPT ![c].pc = "locked",
                       ![c].locks = Matching(c),
                       ![c].seen = <<>>,
                       ![c].outcome = Outcome(c),
                       ![c].target = IF Outcome(c) = "consumed"
                                     THEN CHOOSE i \in Targets(c) : TRUE
                                     ELSE None]
    /\ UNCHANGED <<now, inst, events, request, worker, faults>>

SignalCommit(c) ==
    /\ consumer[c].pc = "locked"
    /\ LET r == consumer[c].request
           i == consumer[c].target
       IN  /\ request' = [request EXCEPT ![r].status = consumer[c].outcome]
           /\ events' = IF i = None THEN events
                        ELSE events \cup {SignalEvent(i, inst[i].version, r)}
    /\ consumer' = [consumer EXCEPT ![c] = NoSignal]
    /\ UNCHANGED <<now, inst, worker, faults>>

-----------------------------------------------------------------------------
(* consume_one_transition *)

\* The queue a worker reads: due events of running instances.
Queued(e) ==
    /\ e \in Pending
    /\ e.available <= now
    /\ inst[e.inst].status = "running"

\* wait_event_matches_snapshot
MatchesWait(e) ==
    inst[e.inst].state = "wait" /\ e.version = inst[e.inst].version

\* prepare_one_snapshot: a token suits any state, a signal or a timer only the
\* wait it belongs to; the worker passes over an event that does not apply.
Preparable(e) == Queued(e) /\ (e.kind # "continue" => MatchesWait(e))

\* The queue's order: by time, signals first.
Before(e, f) ==
    \/ e.available < f.available
    \/ e.available = f.available /\ e.kind = "signal" /\ f.kind # "signal"

Snapshot(e) == [pc |-> "prepared", event |-> Id(e),
                version |-> inst[e.inst].version, state |-> inst[e.inst].state]

\* prepare_one_transition.  A worker takes the first event of an instance; the
\* instances ahead of it may be in the hands of its replica's other workers.
Prepare(w, e) ==
    /\ worker[w].pc = "idle"
    /\ Preparable(e)
    /\ \A f \in events : Preparable(f) /\ f.inst = e.inst => ~Before(f, e)
    /\ worker' = [worker EXCEPT ![w] = Snapshot(e)]
    /\ UNCHANGED <<now, inst, events, request, consumer, faults>>

PreparedEvent(w) == Event(worker[w].event)
InstanceOf(w)    == PreparedEvent(w).inst

\* The event is pending and its instance as it was when it was prepared: the
\* version fence, and again the conditions of the updates that commit.
Fenced(w) ==
    /\ PreparedEvent(w).status = "pending"
    /\ inst[InstanceOf(w)].status = "running"
    /\ inst[InstanceOf(w)].version = worker[w].version
    /\ inst[InstanceOf(w)].state = worker[w].state

\* lock_prepared_snapshot: FOR UPDATE SKIP LOCKED and the version fence.
LockPrepared(w) ==
    /\ PreparedEvent(w).available <= now
    /\ ~Locked(InstanceOf(w))
    /\ Fenced(w)

\* Mutations of PendingSignalPrecedesTimer: it never does; the request's
\* status is not looked at.
TimerNeverYields(e) == FALSE
TimerYieldsToAnyRequest(e) ==
    \E r \in Requests : /\ request[r].status \notin {"absent", "writing"}
                        /\ e.created <= request[r].created
                        /\ request[r].created <= e.available

\* pending_signal_precedes_timer: an accepted signal not due after the timer,
\* or a committed request inside the marker's window.
PendingSignalPrecedesTimer(e) ==
    \/ \E s \in WaitEvents(e.inst, e.version) :
          /\ s.kind = "signal"
          /\ s.status = "pending"
          /\ s.available <= e.available
    \/ \E r \in Requests :
          /\ request[r].status = "pending"
          /\ e.created <= request[r].created
          /\ request[r].created <= e.available

Yields(w) == /\ PreparedEvent(w).kind = "timer"
             /\ PendingSignalPrecedesTimer(PreparedEvent(w))

\* The transition's transaction opens: the event and the instance stay locked
\* until it ends, but not the request rows pending_signal_precedes_timer looks
\* at, so a request may still commit before the timeout does.
OpenTransition(w) ==
    /\ worker[w].pc = "prepared"
    /\ LockPrepared(w)
    /\ ~Yields(w)
    /\ worker' = [worker EXCEPT ![w].pc = "locked"]
    /\ UNCHANGED <<now, inst, events, request, consumer, faults>>

\* What every commit below asks of its worker.
Applies(w) == worker[w].pc = "locked" /\ Fenced(w)

\* The claim is stale, or the timeout yields to a signal: NoWork.
Abandon(w) ==
    /\ worker[w].pc = "prepared"
    /\ ~LockPrepared(w) \/ Yields(w)
    /\ worker' = [worker EXCEPT ![w] = NoTransition]
    /\ UNCHANGED <<now, inst, events, request, consumer, faults>>

Closed(e, status) == [e EXCEPT !.status = status]

\* What a token does in each kind of state, and the deadlines and next states
\* a compiled wait may evaluate to.
RunsWork(w)      == worker[w].state = "work"
EntersWait(w)    == worker[w].state = "wait" /\ PreparedEvent(w).kind = "continue"
CompletesWait(w) == worker[w].state = "wait" /\ PreparedEvent(w).kind # "continue"
Outputs(w)       == worker[w].state = "output"
Deadlines        == Times
AfterWait(i)     == {"output"} \cup
                    IF inst[i].version < MaxVersion THEN {"wait"} ELSE {}

\* A deterministic state hands over to the wait.
AdvanceWork(w) ==
    /\ Applies(w)
    /\ RunsWork(w)
    /\ LET e == PreparedEvent(w)
           i == e.inst
       IN  /\ inst' = [inst EXCEPT ![i].state = "wait", ![i].version = @ + 1]
           /\ events' = (events \ {e}) \cup
                           {Closed(e, "consumed"),
                            ContinueEvent(i, inst[i].version + 1, now)}
    /\ worker' = [worker EXCEPT ![w] = NoTransition]
    /\ UNCHANGED <<now, request, consumer, faults>>

\* reopen_persisted_signals
Reopened == [r \in Requests |->
                IF Persist /\ request[r].status = "unmatched"
                THEN [request[r] EXCEPT !.status = "pending"] ELSE request[r]]

\* commit_wait_entry: a deadline relative to now or an absolute one.
EnterWait(w) ==
    /\ Applies(w)
    /\ EntersWait(w)
    /\ LET e == PreparedEvent(w)
           i == e.inst
       IN  \E at \in Deadlines :
             /\ inst' = [inst EXCEPT ![i].version = @ + 1]
             /\ events' = (events \ {e}) \cup
                             {Closed(e, "consumed"),
                              TimerEvent(i, inst[i].version + 1, at)}
    /\ request' = Reopened
    /\ worker' = [worker EXCEPT ![w] = NoTransition]
    /\ UNCHANGED <<now, consumer, faults>>

\* Mutation of Competitors: the losing events stay pending.
NoCompetitors(e) == {}

\* close_competing_wait_events
Competitors(e) == (WaitEvents(e.inst, e.version) \ {e}) \cap Pending

\* commit_wait_completion; the next state may be the wait again.
CompleteWait(w) ==
    /\ Applies(w)
    /\ CompletesWait(w)
    /\ LET e == PreparedEvent(w)
           i == e.inst
       IN  /\ \E next \in AfterWait(i) :
                 inst' = [inst EXCEPT ![i].state = next, ![i].version = @ + 1]
           /\ events' = ((events \ {e}) \ Competitors(e)) \cup
                           {Closed(s, "failed") : s \in Competitors(e)} \cup
                           {Closed(e, "consumed"),
                            ContinueEvent(i, inst[i].version + 1, now)}
    /\ worker' = [worker EXCEPT ![w] = NoTransition]
    /\ UNCHANGED <<now, request, consumer, faults>>

\* commit_output
Complete(w) ==
    /\ Applies(w)
    /\ Outputs(w)
    /\ LET e == PreparedEvent(w)
       IN  /\ inst' = [inst EXCEPT ![e.inst].status = "terminal",
                                   ![e.inst].version = @ + 1]
           /\ events' = (events \ {e}) \cup {Closed(e, "consumed")}
    /\ worker' = [worker EXCEPT ![w] = NoTransition]
    /\ UNCHANGED <<now, request, consumer, faults>>

\* Preparing or applying fails: nothing is committed, and the error is either
\* transient or final.
Fault(w) ==
    /\ worker[w].pc \in {"prepared", "locked"}
    /\ faults < MaxFaults
    /\ faults' = faults + 1
    /\ \E pc \in {"deferring", "failing"} :
          worker' = [worker EXCEPT ![w].pc = pc]
    /\ UNCHANGED <<now, inst, events, request, consumer>>

\* defer_transition: the event, if still pending once no open transition holds
\* its row, steps aside.
Defer(w) ==
    /\ worker[w].pc = "deferring"
    /\ ~\E v \in Workers : /\ worker[v].pc = "locked"
                           /\ worker[v].event = worker[w].event
    /\ LET e        == PreparedEvent(w)
           deferred == [e EXCEPT !.attempts = @ + 1,
                                 !.available = Earlier(now + 1, MaxTime)]
       IN  \/ /\ e.status = "pending"
              /\ events' = (events \ {e}) \cup {deferred}
              /\ worker' = [worker EXCEPT ![w] =
                               IF deferred.attempts >= RetryCeiling
                               THEN [@ EXCEPT !.pc = "failing"] ELSE NoTransition]
           \/ /\ e.status # "pending"
              /\ worker' = [worker EXCEPT ![w] = NoTransition]
              /\ UNCHANGED events
    /\ UNCHANGED <<now, inst, request, consumer, faults>>

\* fail_instance rolls back unless the instance is still at the version read
\* and the event still pending.
FailsInstance(w) ==
    /\ PreparedEvent(w).status = "pending"
    /\ inst[InstanceOf(w)].status = "running"
    /\ inst[InstanceOf(w)].version = worker[w].version

FailInstance(w) ==
    /\ worker[w].pc = "failing"
    /\ ~Locked(InstanceOf(w))
    /\ LET e == PreparedEvent(w)
           i == e.inst
       IN  IF FailsInstance(w)
           THEN /\ inst' = [inst EXCEPT ![i].status = "failed",
                                        ![i].version = @ + 1]
                /\ events' = (events \ {e}) \cup {Closed(e, "consumed")}
           ELSE UNCHANGED <<inst, events>>
    /\ worker' = [worker EXCEPT ![w] = NoTransition]
    /\ UNCHANGED <<now, request, consumer, faults>>

\* A replica dies: PostgreSQL rolls its open transaction back.
CrashConsumer(c) ==
    /\ consumer[c].pc # "idle"
    /\ faults < MaxFaults
    /\ faults' = faults + 1
    /\ consumer' = [consumer EXCEPT ![c] = NoSignal]
    /\ UNCHANGED <<now, inst, events, request, worker>>

CrashWorker(w) ==
    /\ worker[w].pc # "idle"
    /\ faults < MaxFaults
    /\ faults' = faults + 1
    /\ worker' = [worker EXCEPT ![w] = NoTransition]
    /\ UNCHANGED <<now, inst, events, request, consumer>>

-----------------------------------------------------------------------------
Consume(c) ==
    \/ \E r \in Requests : SignalDuplicate(c, r) \/ SignalRead(c, r)
    \/ SignalLock(c)
    \/ SignalCommit(c)

Transition(w) ==
    \/ \E e \in events : Prepare(w, e)
    \/ Abandon(w)
    \/ OpenTransition(w)
    \/ AdvanceWork(w)
    \/ EnterWait(w)
    \/ CompleteWait(w)
    \/ Complete(w)
    \/ Defer(w)
    \/ FailInstance(w)

Next ==
    \/ \E i \in Instances : Start(i)
    \/ \E r \in Requests : WriteRequest(r) \/ CommitRequest(r)
    \/ \E c \in Consumers : Consume(c) \/ CrashConsumer(c)
    \/ \E w \in Workers : Transition(w) \/ Fault(w) \/ CrashWorker(w)
    \/ Tick

Spec == Init /\ [][Next]_vars

\* Every replica's loops poll for as long as it is up, commands commit, the
\* database clock runs.
Fairness ==
    /\ \A r \in Requests : WF_vars(CommitRequest(r))
    /\ \A c \in Consumers : WF_vars(Consume(c))
    /\ \A w \in Workers : WF_vars(Transition(w))
    /\ WF_vars(Tick)

FairSpec == Spec /\ Fairness

-----------------------------------------------------------------------------
Statuses   == {"absent", "writing", "pending", "consumed", "duplicate",
               "unmatched", "ambiguous", "unexpected_state"}
States     == {"work", "wait", "output"}
EventType  == [kind : {"continue", "timer", "signal"}, inst : Instances,
               version : Nat, request : Requests \cup {None},
               created : Times, available : Times, deadline : Times,
               attempts : Nat, status : {"pending", "consumed", "failed"}]
MarkerType == [created : Times, available : Times]
InstanceRow == [status : {"absent", "running", "terminal", "failed"},
                state : States, version : Nat]
RequestRow == [status : Statuses, created : Times]
Identities == {"continue", "timer", "signal"} \X Instances \X Nat
                 \X (Requests \cup {None})
SignalTx   == [pc : {"idle", "read", "locked"}, request : Requests \cup {None},
               seen : UNION {[S -> MarkerType \cup {None}] : S \in SUBSET Instances},
               locks : SUBSET Instances, outcome : Statuses \cup {"none"},
               target : Instances \cup {None}]
Prepared   == [pc : {"idle", "prepared", "locked", "deferring", "failing"},
               event : Identities \cup {None}, version : Nat, state : States]

\* Every row and every open transaction has its shape, an event's identity is
\* unique, as the index on idempotency keys demands, and a worker's event exists.
TypeOK ==
    /\ now \in Times
    /\ inst \in [Instances -> InstanceRow]
    /\ events \subseteq EventType
    /\ \A e, f \in events : Id(e) = Id(f) => e = f
    /\ request \in [Requests -> RequestRow]
    /\ consumer \in [Consumers -> SignalTx]
    /\ worker \in [Workers -> Prepared]
    /\ \A w \in Workers :
          worker[w].pc # "idle" => \E e \in events : Id(e) = worker[w].event
    /\ faults \in 0..MaxFaults

\* The events that move an instance on: its token, and the timer of the wait
\* it is in.
MovesOn(i) ==
    {e \in Pending : /\ e.inst = i
                     /\ \/ e.kind = "continue"
                        \/ /\ e.kind = "timer"
                           /\ inst[i].state = "wait"
                           /\ e.version = inst[i].version}

\* The wait of a signal's version was entered: its timer exists.
Entered(e) == \E t \in events : t.kind = "timer" /\ t.inst = e.inst
                                 /\ t.version = e.version

\* A running instance never stands still, and it has exactly one event that
\* moves it on, whatever two workers prepare at once, whatever is deferred,
\* given up or fenced off by lock_prepared_snapshot; two tokens only follow a
\* signal accepted for a wait its instance had not entered.
OneWayForward ==
    \A i \in Instances :
        inst[i].status = "running" =>
            /\ MovesOn(i) # {}
            /\ (\A e \in events : e.kind = "signal" /\ e.inst = i => Entered(e))
                  => Cardinality(MovesOn(i)) = 1

\* A signal is accepted only for a wait that was entered (the markers of
\* consume_one_signal); not so when a consumer waits for the instance's lock
\* across a timeout that leads back to the wait.
AcceptedByWait == \A e \in events : e.kind = "signal" => Entered(e)

\* No losing event of an earlier wait stays due in a running instance:
\* close_competing_wait_events finds every signal and timer of the race, those
\* consume_one_signal accepts at the same time included.
NoStaleEvents ==
    \A e \in Pending :
        inst[e.inst].status = "running" /\ e.kind # "continue"
        => inst[e.inst].state = "wait" /\ e.version = inst[e.inst].version

\* At most one request of a semantic key is ever delivered, though replicas
\* consume at once and a wait entry returns early ones to the queue
\* (consume_one_signal, reopen_persisted_signals).
OneDeliveryPerKey ==
    \A q, r \in Requests :
        /\ Key[q] = Key[r]
        /\ request[q].status = "consumed"
        /\ request[r].status = "consumed"
        => q = r

\* A request is set aside as a duplicate only of one that was, or still can
\* be, decided on its merits: with persist_before_match one signal of a key is
\* not lost (consume_one_signal against reopen_persisted_signals).
DuplicateHasOriginal ==
    \A r \in Requests :
        request[r].status = "duplicate" =>
            \E q \in Requests : /\ Key[q] = Key[r]
                                /\ request[q].status # "duplicate"
                                /\ request[q].status \notin {"absent", "writing"}

\* The wait that t times out was completed by t, not ended by fail_instance.
TimedOut(t) == /\ t.kind = "timer" /\ t.status = "consumed"
               /\ inst[t.inst].status # "failed"

\* A timeout never completes a wait for which consume_one_signal has accepted a
\* signal, unless that signal was deferred: the consumer and the timeout meet at
\* the instance's row, and the timeout looks under its lock
\* (pending_signal_precedes_timer).
AcceptedBeatsTimeout ==
    \A t, s \in events :
        /\ TimedOut(t)
        /\ s.kind = "signal" /\ s.inst = t.inst /\ s.version = t.version
        => s.attempts > 0

\* Requests that were heard, or could still be, inside the wait's own window.
InWindow(e) ==
    {r \in Requests : /\ e.created <= request[r].created
                      /\ request[r].created <= e.deadline
                      /\ \/ request[r].status = "pending"
                         \/ \E s \in Competitors(e) : s.request = r}

\* A timeout never overtakes a signal committed in its wait's window, however
\* late the signal's consumer is; not so, as the request may commit after
\* pending_signal_precedes_timer has looked, or the signal's event be deferred.
NoneOvertaken ==
    [][\A e \in Pending :
          /\ e.kind = "timer"
          /\ Closed(e, "consumed") \in events'
          /\ inst'[e.inst].status = "running"
          => InWindow(e) = {}]_vars

TimerOf(e) == CHOOSE t \in events : /\ t.kind = "timer" /\ t.inst = e.inst
                                    /\ t.version = e.version

\* A delivered signal was sent no later than the deadline declared for the
\* wait that takes it (marker_matches in consume_one_signal).
HeardByDeadline ==
    \A e \in events :
        e.kind = "signal" => request[e.request].created <= TimerOf(e).deadline

\* An instance that does not ask for early signals takes none sent before it
\* first entered the wait (entered_before_request in consume_one_signal).
NotHeardEarly ==
    ~Persist =>
        \A e \in events :
            e.kind = "signal" =>
                \E t \in events : /\ t.kind = "timer" /\ t.inst = e.inst
                                  /\ t.created <= request[e.request].created

\* An instance that has ended leaves no due work behind (commit_output,
\* fail_instance), so that has_live_process_work can become false.
EndedLeavesNoWork ==
    \A e \in Pending : inst[e.inst].status = "running"

\* An early signal is not lost on a wait that asks for it: none stays unmatched
\* beside an open wait that would hear it (reopen_persisted_signals).
EarlySignalOffered ==
    Persist =>
        \A r \in Requests, i \in Candidates :
            request[r].status = "unmatched" =>
                Marker(i) = None \/ ~MarkerMatches(r, Marker(i))

\* Every started instance ends: signals, timeouts that yield to them, stale
\* claims, deferrals and crashes never leave it waiting for good.
EveryInstanceEnds ==
    \A i \in Instances :
        inst[i].status = "running" ~> inst[i].status \in {"terminal", "failed"}

=============================================================================
