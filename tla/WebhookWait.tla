----------------------------- MODULE WebhookWait -----------------------------
(***************************************************************************)
(* Verified provider events and the webhook waits they answer: the HTTP    *)
(* route (crates/server/src/connector_webhook.rs), the delivery            *)
(* transaction of crates/server/src/processes/inbound.rs, and the part of  *)
(* transition.rs that enters and completes a wait.webhook state.            *)
(*                                                                         *)
(* Every instance is about to enter one webhook wait; all waits share the  *)
(* trigger and the correlation, so an event may find none, one or several. *)
(* A provider sends an event again, and sooner than it is answered, until  *)
(* it is acknowledged.  Deliveries run at once on different replicas.      *)
(***************************************************************************)
EXTENDS Naturals, FiniteSets

CONSTANTS
    Instances,      \* instances of Processes with a compatible webhook wait
    Events,         \* provider event identities
    Receivers,      \* HTTP requests being handled
    Workers,        \* executions of consume_one_transition
    None,           \* no marker, event or outcome
    MaxFaults,      \* bound on deferrals and crashes
    MaxTime         \* bound on the database clock

ASSUME WebhookWaitAssumption ==
    /\ MaxFaults \in Nat
    /\ MaxTime \in Nat

VARIABLES
    now,        \* statement_timestamp()
    wait,       \* the instances: where each is with respect to its wait
    timer,      \* the timer event of each wait: its marker, or None
    accepted,   \* process_events of kind signal written by deliveries
    ledger,     \* process_inbound_events: outcome of an event's first delivery
    acked,      \* events the provider has had a 204 for
    receiver,   \* open delivery transactions
    worker,     \* the prepared wait event of each worker
    faults      \* deferrals and crashes so far

vars == <<now, wait, timer, accepted, ledger, acked, receiver, worker, faults>>

-----------------------------------------------------------------------------
Times == 0..MaxTime
Later(t) == IF t < MaxTime THEN t + 1 ELSE MaxTime

NoDelivery == [pc |-> "idle", event |-> None, at |-> 0, seen |-> <<>>]
NoWork == [inst |-> None, event |-> None]

Init ==
    /\ now = 0
    /\ wait = [i \in Instances |-> "ahead"]
    /\ timer = [i \in Instances |-> None]
    /\ accepted = {}
    /\ ledger = [e \in Events |-> None]
    /\ acked = {}
    /\ receiver = [r \in Receivers |-> NoDelivery]
    /\ worker = [w \in Workers |-> NoWork]
    /\ faults = 0

Tick ==
    /\ now < MaxTime
    /\ now' = now + 1
    /\ UNCHANGED <<wait, timer, accepted, ledger, acked, receiver, worker,
                   faults>>

PendingFor(i) == {a \in accepted : a.inst = i /\ a.status = "pending"}

-----------------------------------------------------------------------------
(* persist_verified *)

\* The provider delivers an event it has no answer for, more than once at a
\* time if it is impatient; the receipt time is pinned first.
Receive(r, e) ==
    /\ receiver[r].pc = "idle"
    /\ e \notin acked
    /\ receiver' = [receiver EXCEPT ![r] =
                       [NoDelivery EXCEPT !.pc = "received", !.event = e,
                                          !.at = now]]
    /\ UNCHANGED <<now, wait, timer, accepted, ledger, acked, worker, faults>>

\* The advisory lock on the provider's event identity.
IdentityFree(r) ==
    \A q \in Receivers : receiver[q].pc = "read"
                            => receiver[q].event # receiver[r].event

\* inbound_event_exists
InLedger(e) == ledger[e] # None

Duplicate(r) ==
    /\ receiver[r].pc = "received"
    /\ IdentityFree(r)
    /\ InLedger(receiver[r].event)
    /\ receiver' = [receiver EXCEPT ![r].pc = "committed"]
    /\ UNCHANGED <<now, wait, timer, accepted, ledger, acked, worker, faults>>

\* lock_candidates: what its snapshot shows of an instance at the wait state.
Seen(i) == [marker |-> IF wait[i] = "open" THEN timer[i] ELSE None,
            pending |-> PendingFor(i) # {}]

AtWait == {i \in Instances : wait[i] \in {"ahead", "open"}}

LookUp(r) ==
    /\ receiver[r].pc = "received"
    /\ IdentityFree(r)
    /\ ~InLedger(receiver[r].event)
    /\ receiver' = [receiver EXCEPT ![r].pc = "read",
                                    ![r].seen = [i \in AtWait |-> Seen(i)]]
    /\ UNCHANGED <<now, wait, timer, accepted, ledger, acked, worker, faults>>

\* Mutation of Matching: the rows of the snapshot, changed or not.
MatchingSnapshot(r) == DOMAIN receiver[r].seen

\* A row that changed while the lock was awaited is checked again, but what
\* was joined to it stays as the snapshot had it.
Matching(r) == DOMAIN receiver[r].seen \cap AtWait

Receptive(seen, at) == /\ seen.marker # None
                       /\ seen.marker.entered <= at
                       /\ at <= seen.marker.available
                       /\ ~seen.pending

\* historical_targets: instances that ever had a marker of this trigger.
Historical == {i \in Instances : timer[i] # None}

Unheard(known) == IF known = {} THEN "unmatched"
                  ELSE IF Cardinality(known) = 1 THEN "unexpected_state"
                  ELSE "ambiguous"

\* The outcome of a delivery, given the value of the guard.
Outcome(r, guard) ==
    LET receptive == {i \in Matching(r) :
                         Receptive(receiver[r].seen[i], receiver[r].at)}
    IN  IF Cardinality(receptive) > 1 THEN "ambiguous"
        ELSE IF receptive = {} THEN Unheard(Matching(r) \cup Historical)
        ELSE IF guard THEN "accepted" ELSE "guard_false"

Target(r) == CHOOSE i \in Matching(r) :
                Receptive(receiver[r].seen[i], receiver[r].at)

\* Mutation of LedgerRow: only an accepted event is remembered.
LedgerRowOfAccepted(outcome) == IF outcome = "accepted" THEN outcome ELSE None

LedgerRow(outcome) == outcome

\* Locking, matching, the audit row, the ledger row and, for an accepted event,
\* the Process event: one transaction.  The unique key of the ledger refuses a
\* second row, and the route then answers 503.
Deliver(r, guard) ==
    LET e       == receiver[r].event
        outcome == Outcome(r, guard)
    IN  /\ receiver[r].pc = "read"
        /\ IF ledger[e] # None
           THEN /\ receiver' = [receiver EXCEPT ![r] = NoDelivery]
                /\ UNCHANGED <<accepted, ledger>>
           ELSE /\ ledger' = [ledger EXCEPT ![e] = LedgerRow(outcome)]
                /\ receiver' = [receiver EXCEPT ![r].pc = "committed",
                                                ![r].seen = <<>>]
                /\ accepted' =
                      IF outcome # "accepted" THEN accepted
                      ELSE accepted \cup {[event |-> e, inst |-> Target(r),
                                           at |-> receiver[r].at,
                                           due |-> receiver[r].at,
                                           status |-> "pending"]}
        /\ UNCHANGED <<now, wait, timer, acked, worker, faults>>

\* The route answers 204, after the commit.
Acknowledge(r) ==
    /\ receiver[r].pc = "committed"
    /\ acked' = acked \cup {receiver[r].event}
    /\ receiver' = [receiver EXCEPT ![r] = NoDelivery]
    /\ UNCHANGED <<now, wait, timer, accepted, ledger, worker, faults>>

-----------------------------------------------------------------------------
(* consume_one_transition around the wait *)

\* commit_wait_entry
EnterWait(i, deadline) ==
    /\ wait[i] = "ahead"
    /\ wait' = [wait EXCEPT ![i] = "open"]
    /\ timer' = [timer EXCEPT ![i] = [entered |-> now, available |-> deadline]]
    /\ UNCHANGED <<now, accepted, ledger, acked, receiver, worker, faults>>

\* The queue is read by available_at, events before timers: a worker prepares
\* the first of an open wait.
PrepareTimer(w, i) ==
    /\ worker[w].inst = None
    /\ wait[i] = "open"
    /\ timer[i].available <= now
    /\ \A a \in PendingFor(i) : timer[i].available < a.due
    /\ worker' = [worker EXCEPT ![w] = [inst |-> i, event |-> None]]
    /\ UNCHANGED <<now, wait, timer, accepted, ledger, acked, receiver, faults>>

PrepareEvent(w, a) ==
    /\ worker[w].inst = None
    /\ a.status = "pending"
    /\ wait[a.inst] = "open"
    /\ a.due <= now
    /\ \A b \in PendingFor(a.inst) : a.due <= b.due
    /\ worker' = [worker EXCEPT ![w] = [inst |-> a.inst, event |-> a.event]]
    /\ UNCHANGED <<now, wait, timer, accepted, ledger, acked, receiver, faults>>

\* Mutation of Precedes: the timeout does not look for accepted events.
NothingPrecedes(i) == FALSE

\* pending_signal_precedes_timer of a webhook wait.
Precedes(i) == \E a \in PendingFor(i) : a.due <= timer[i].available

\* lock_prepared_snapshot: the wait is still open and the event still due.
Applies(w) ==
    LET i == worker[w].inst
        e == worker[w].event
    IN  /\ i # None
        /\ wait[i] = "open"
        /\ e = None => timer[i].available <= now /\ ~Precedes(i)
        /\ e # None => \E a \in PendingFor(i) : a.event = e /\ a.due <= now

Abandon(w) ==
    /\ worker[w].inst # None
    /\ ~Applies(w)
    /\ worker' = [worker EXCEPT ![w] = NoWork]
    /\ UNCHANGED <<now, wait, timer, accepted, ledger, acked, receiver, faults>>

\* Mutation of Closing: the losing events are recorded as consumed too.
ClosingAllConsumed(i, e) ==
    {IF a.inst = i THEN [a EXCEPT !.status = "consumed"] ELSE a : a \in accepted}

\* close_competing_wait_events: the winner is consumed, the others fail.
Closing(i, e) ==
    {IF a.inst # i THEN a
     ELSE [a EXCEPT !.status = IF a.event = e THEN "consumed" ELSE "failed"]
        : a \in accepted}

\* commit_wait_completion, by an accepted event or by the timeout.
CompleteWait(w) ==
    LET i == worker[w].inst
        e == worker[w].event
    IN  /\ Applies(w)
        /\ wait' = [wait EXCEPT ![i] = IF e = None THEN "timed_out" ELSE "heard"]
        /\ accepted' = Closing(i, e)
        /\ worker' = [worker EXCEPT ![w] = NoWork]
        /\ UNCHANGED <<now, timer, ledger, acked, receiver, faults>>

\* defer_transition: the available_at of the event moves, which for a timeout
\* is the deadline and for an accepted event its place before the deadline.
Defer(w) ==
    LET i == worker[w].inst
        e == worker[w].event
    IN  /\ Applies(w)
        /\ faults < MaxFaults
        /\ faults' = faults + 1
        /\ IF e = None
           THEN /\ timer' = [timer EXCEPT ![i].available = Later(now)]
                /\ UNCHANGED accepted
           ELSE /\ accepted' = {IF a.event = e THEN [a EXCEPT !.due = Later(now)]
                                ELSE a : a \in accepted}
                /\ UNCHANGED timer
        /\ worker' = [worker EXCEPT ![w] = NoWork]
        /\ UNCHANGED <<now, wait, ledger, acked, receiver>>

\* A replica dies or a connection drops: the open transaction is rolled back
\* and nothing is acknowledged.
CrashReceiver(r) ==
    /\ receiver[r].pc # "idle"
    /\ faults < MaxFaults
    /\ faults' = faults + 1
    /\ receiver' = [receiver EXCEPT ![r] = NoDelivery]
    /\ UNCHANGED <<now, wait, timer, accepted, ledger, acked, worker>>

CrashWorker(w) ==
    /\ worker[w].inst # None
    /\ faults < MaxFaults
    /\ faults' = faults + 1
    /\ worker' = [worker EXCEPT ![w] = NoWork]
    /\ UNCHANGED <<now, wait, timer, accepted, ledger, acked, receiver>>

-----------------------------------------------------------------------------
Handle(r) ==
    \/ Duplicate(r)
    \/ LookUp(r)
    \/ \E g \in BOOLEAN : Deliver(r, g)
    \/ Acknowledge(r)

Transition(w) ==
    \/ \E i \in Instances : PrepareTimer(w, i)
    \/ \E a \in accepted : PrepareEvent(w, a)
    \/ Abandon(w)
    \/ CompleteWait(w)

Next ==
    \/ Tick
    \/ \E r \in Receivers, e \in Events : Receive(r, e)
    \/ \E r \in Receivers : Handle(r) \/ CrashReceiver(r)
    \/ \E i \in Instances, t \in Times : EnterWait(i, t)
    \/ \E w \in Workers : Transition(w) \/ Defer(w) \/ CrashWorker(w)

Spec == Init /\ [][Next]_vars

-----------------------------------------------------------------------------
Outcomes == {"accepted", "guard_false", "ambiguous", "unexpected_state",
             "unmatched"}
Marker == [entered : Times, available : Times]
Accepted == [event : Events, inst : Instances, at : Times, due : Times,
             status : {"pending", "consumed", "failed"}]
Views == [marker : Marker \cup {None}, pending : BOOLEAN]
Delivery == [pc : {"idle", "received", "read", "committed"},
             event : Events \cup {None}, at : Times,
             seen : UNION {[S -> Views] : S \in SUBSET Instances}]

\* None is none of the values it stands for the absence of.
ASSUME NoneAssumption ==
    None \notin Instances \cup Events \cup Outcomes \cup Marker

\* Every row and every open transaction has its shape.
TypeOK ==
    /\ now \in Times
    /\ wait \in [Instances -> {"ahead", "open", "heard", "timed_out"}]
    /\ timer \in [Instances -> Marker \cup {None}]
    /\ accepted \subseteq Accepted
    /\ ledger \in [Events -> Outcomes \cup {None}]
    /\ acked \subseteq Events
    /\ receiver \in [Receivers -> Delivery]
    /\ worker \in [Workers -> [inst : Instances \cup {None},
                              event : Events \cup {None}]]
    /\ faults \in 0..MaxFaults

\* The first answer is final: once an event was recorded or acknowledged, no
\* other delivery of it, sent again after a lost answer or running at the same
\* time on another replica, writes a Process event or another outcome; an event
\* that found no receptive wait is never buffered for a later one (the ledger
\* of persist_verified).
AnswerIsFinal ==
    [][\A e \in acked \cup {f \in Events : ledger[f] # None} :
          /\ ledger'[e] = ledger[e]
          /\ {a.inst : a \in {b \in accepted' : b.event = e}}
                \subseteq {a.inst : a \in {b \in accepted : b.event = e}}]_vars

\* "An event committed at or before the deadline wins against a concurrently
\* firing timeout" (pending_signal_precedes_timer): a wait that timed out had
\* accepted nothing, or a transient failure had deferred what it had accepted
\* past the deadline.
AcceptedBeatsTimeout ==
    \A a \in accepted : wait[a.inst] = "timed_out" =>
        a.due > a.at /\ a.due > timer[a.inst].available

\* An accepted event arrived inside the window of its wait, and once the wait
\* is over none of its events is left pending for a later state to meet, those
\* of deliveries that were waiting for the row lock included.
HeardInWindow ==
    \A a \in accepted :
        /\ timer[a.inst].entered <= a.at
        /\ a.at <= timer[a.inst].available
        /\ a.status = "pending" => wait[a.inst] = "open"

\* Exactly one accepted event completes a wait that was heard; and what the
\* provider was told is true of it: an event the ledger calls accepted was
\* written, one it does not was not, and nothing is acknowledged unrecorded.
OneWinner ==
    /\ \A i \in Instances :
          wait[i] = "heard" =>
              Cardinality({a \in accepted : a.inst = i /\ a.status = "consumed"})
                 = 1
    /\ \A e \in acked : ledger[e] # None
    /\ \A e \in Events :
          ledger[e] = "accepted" <=> \E a \in accepted : a.event = e

\* A wait with an accepted event is no longer receptive: the next event is
\* recorded unexpected_state (pending_signal in lock_candidates).
OneAcceptedPerWait ==
    \A a, b \in accepted : a.inst = b.inst => a = b

=============================================================================
