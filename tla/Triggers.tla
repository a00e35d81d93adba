------------------------------ MODULE Triggers ------------------------------
(***************************************************************************)
(* The delivery loops of cron and event triggers                           *)
(* (crates/server/src/cron.rs, events.rs, invoke.rs): the materialization  *)
(* of occurrences, the claim of due events with FOR UPDATE SKIP LOCKED,    *)
(* the delivery of a whole batch inside the claiming transaction, the      *)
(* expansion of an event of an invoke trigger into work items, and the     *)
(* work items' own claims.                                                 *)
(*                                                                         *)
(* The two kinds of trigger have journals and loops of their own and the   *)
(* same machinery; a behaviour is about one kind.  An event is a pair of   *)
(* its trigger and its instant, a work item is an event and the key of a   *)
(* row.  Replicas are redeployed one after the other from the metadata Old *)
(* to New, migrate having run.  Payloads, sessions, redaction and the      *)
(* invocation logs are outside the model.                                  *)
(***************************************************************************)
EXTENDS Integers, FiniteSets, FiniteSetsExt

CONSTANTS
    Replicas,
    Old, New,       \* the triggers of the two versions of the metadata
    Invoke,         \* the triggers that run a target inside the engine
    Instants,       \* of the schedule, or of row changes
    Rows,           \* the rows a cron trigger's foreach selects
    TheRow,         \* the row of an event trigger's event
    NumRetries, RetryInterval, Tolerance,       \* retry_conf
    BatchLimit,     \* events of one claim
    ExpandLimit,    \* work items of one poll
    MaxTime,        \* bound of the clock
    MaxFaults       \* bound on rolled back transactions and deleted rows

ASSUME TriggersAssumption ==
    /\ Instants \subseteq 0..MaxTime
    /\ TheRow \notin Rows
    /\ {NumRetries, RetryInterval, Tolerance, MaxTime, MaxFaults} \subseteq Nat
    /\ {BatchLimit, ExpandLimit} \subseteq Nat \ {0}

VARIABLES
    kind,       \* "cron" or "event": fixed
    journal,    \* cron_events or event_log, and trigger_invocations
    loop,       \* the delivery loop of each replica
    metadata,   \* the triggers each replica has loaded
    rows,       \* the rows that exist
    clock,
    faults,
    sends,      \* calls of a webhook or a target, for each entry
    done        \* entries whose receiver or target did the work

vars == <<kind, journal, loop, metadata, rows, clock, faults, sends, done>>

-----------------------------------------------------------------------------
Triggers == Old \cup New
Events == Triggers \X Instants
Items == Triggers \X Instants \X (Rows \cup {TheRow})
Entries == Events \cup Items
At(x) == x[2]

Absent == [status |-> "absent", tries |-> 0, retryAt |-> 0, created |-> 0]
Scheduled(at) == [Absent EXCEPT !.status = "scheduled", !.created = at]

Resting == [pc |-> "idle", held |-> {}, writes |-> <<>>, sent |-> {},
            left |-> 0]

Init ==
    /\ kind \in {"cron", "event"}
    /\ journal = [x \in Entries |-> Absent]
    /\ loop = [r \in Replicas |-> Resting]
    /\ metadata = [r \in Replicas |-> Old]
    /\ rows = Rows
    /\ clock = 0
    /\ faults = 0
    /\ sends = [x \in Entries |-> 0]
    /\ done = {}

-----------------------------------------------------------------------------
(* tick: materialize and claim *)

\* next_occurrence, for every trigger the replica knows: one after now.
Materialized(r) ==
    LET later == {i \in Instants : i > clock} IN
    IF kind = "cron" /\ later # {} THEN metadata[r] \X {Min(later)} ELSE {}

\* Inserted ON CONFLICT DO NOTHING; row changes insert event triggers' events.
Materialize(r) ==
    /\ loop[r].pc = "idle"
    /\ metadata[r] # {}
    /\ journal' = [x \in Entries |->
                      IF x \in Materialized(r) /\ journal[x] = Absent
                      THEN Scheduled(At(x)) ELSE journal[x]]
    /\ loop' = [loop EXCEPT ![r].pc = "claim"]
    /\ UNCHANGED <<kind, metadata, rows, clock, faults, sends, done>>

\* Mutation of Locked: the claim is a plain SELECT.
LockedNever(x) == FALSE

Locked(x) == \E r \in Replicas : x \in loop[r].held

\* Mutation of Due: OR next_retry_at <= now() is missing.
DueUntried(x) ==
    /\ journal[x].status = "scheduled"
    /\ journal[x].created <= clock
    /\ journal[x].tries = 0

\* The WHERE clause of the claims of events and of work items.
Due(x) ==
    /\ journal[x].status = "scheduled"
    /\ journal[x].created <= clock
    /\ journal[x].retryAt <= clock

\* What ORDER BY ... FOR UPDATE SKIP LOCKED LIMIT n may return.
Claims(table, n) ==
    LET ready == {x \in table : Due(x) /\ ~Locked(x)}
        size == IF Cardinality(ready) < n THEN Cardinality(ready) ELSE n
    IN  {S \in kSubset(size, ready) :
            \A x \in S, y \in ready \ S :
                journal[x].created <= journal[y].created}

Claim(r) ==
    /\ loop[r].pc = "claim"
    /\ \E S \in Claims(Events, BatchLimit) :
          loop' = [loop EXCEPT ![r].pc = "deliver", ![r].held = S]
    /\ UNCHANGED <<kind, journal, metadata, rows, clock, faults, sends, done>>

-----------------------------------------------------------------------------
(* What an attempt leaves in the row of an event or a work item *)

Ended(x, how) == [journal[x] EXCEPT !.status = how]
Succeeded(x) == [Ended(x, "delivered") EXCEPT !.tries = @ + 1]

\* An instant past the model's clock is its last one.
Retried(x) ==
    LET tries == journal[x].tries + 1 IN
    IF tries > NumRetries THEN [Ended(x, "error") EXCEPT !.tries = tries]
    ELSE [journal[x] EXCEPT !.tries = tries,
             !.retryAt = Min({clock + RetryInterval, MaxTime})]

Declared(r, x) == x[1] \in metadata[r]

\* Only the first attempt, and only of a cron trigger.
TooLate(x) ==
    kind = "cron" /\ journal[x].tries = 0 /\ clock - At(x) > Tolerance

\* An orphaned event is dropped; a late one too.
Dropped(r, e) ==
    IF ~Declared(r, e)
    THEN Ended(e, IF kind = "cron" THEN "dead" ELSE "error")
    ELSE Ended(e, "dead")

\* The events of the batch, in the order of the claim.
NextOf(r, e) ==
    LET open == loop[r].held \ DOMAIN loop[r].writes IN
    /\ e \in open
    /\ \A f \in open : journal[e].created <= journal[f].created

\* The rows a transaction wrote hide those that were there.
Over(new, old) ==
    [x \in DOMAIN new \cup DOMAIN old |->
        IF x \in DOMAIN new THEN new[x] ELSE old[x]]
Only(x, row) == [y \in {x} |-> row]

Write(r, pc, new) ==
    loop' = [loop EXCEPT ![r].pc = pc, ![r].writes = Over(new, @)]

\* A call is made: it does the work or not, and the answer is good or not.
Called(r, x, pc, works, row) ==
    /\ loop' = [loop EXCEPT ![r].pc = pc, ![r].writes = Over(Only(x, row), @),
                            ![r].sent = @ \cup {x}]
    /\ sends' = [sends EXCEPT ![x] = @ + 1]
    /\ done' = IF works THEN done \cup {x} ELSE done

-----------------------------------------------------------------------------
(* tick: the events of a batch, one after the other, then one commit *)

Drop(r, e) ==
    /\ loop[r].pc = "deliver"
    /\ NextOf(r, e)
    /\ ~Declared(r, e) \/ TooLate(e)
    /\ Write(r, "deliver", Only(e, Dropped(r, e)))
    /\ UNCHANGED <<kind, journal, metadata, rows, clock, faults, sends, done>>

Live(r, e) ==
    /\ loop[r].pc = "deliver"
    /\ NextOf(r, e)
    /\ Declared(r, e) /\ ~TooLate(e)

\* Mutation of Answered: any answer will do.
AnsweredAnyhow(x, works, heard) == IF heard THEN Succeeded(x) ELSE Retried(x)

\* A 2xx answer says the receiver did the work; another answer, or none, says
\* nothing.
Answered(x, works, heard) ==
    IF works /\ heard THEN Succeeded(x) ELSE Retried(x)

\* deliver: the POST under the row's lock.
Post(r, e, works, heard) ==
    /\ Live(r, e)
    /\ e[1] \notin Invoke
    /\ Called(r, e, "deliver", works, Answered(e, works, heard))
    /\ UNCHANGED <<kind, journal, metadata, rows, clock, faults>>

\* foreach_row_keys
KeysOf == IF kind = "cron" THEN rows ELSE {TheRow}

ItemsOf(e) == {<<e[1], e[2], k>> : k \in KeysOf}

\* expand_cron, expand_event: the work items and the event's end commit as one.
Expand(r, e) ==
    /\ Live(r, e)
    /\ e[1] \in Invoke
    /\ Write(r, "deliver", Over(Only(e, Succeeded(e)),
                [i \in ItemsOf(e) |->
                    IF journal[i] = Absent THEN Scheduled(clock)
                    ELSE journal[i]]))
    /\ UNCHANGED <<kind, journal, metadata, rows, clock, faults, sends, done>>

\* The foreach query fails: a failed attempt of the occurrence.
ExpandFails(r, e) ==
    /\ Live(r, e)
    /\ e[1] \in Invoke
    /\ kind = "cron"
    /\ faults < MaxFaults
    /\ faults' = faults + 1
    /\ Write(r, "deliver", Only(e, Retried(e)))
    /\ UNCHANGED <<kind, journal, metadata, rows, clock, sends, done>>

Committed(r) == Over(loop[r].writes, journal)

Commit(r) ==
    /\ loop[r].pc = "deliver"
    /\ loop[r].held \subseteq DOMAIN loop[r].writes
    /\ journal' = Committed(r)
    /\ loop' = [loop EXCEPT ![r] = [Resting EXCEPT !.pc = "items",
                                                   !.left = ExpandLimit]]
    /\ UNCHANGED <<kind, metadata, rows, clock, faults, sends, done>>

-----------------------------------------------------------------------------
(* deliver_due, run_work_item: one transaction for each work item *)

ClaimItem(r) ==
    /\ loop[r].pc = "items"
    /\ loop[r].left > 0
    /\ \E S \in Claims(Items, 1) :
          /\ S # {}
          /\ loop' = [loop EXCEPT ![r].pc = "run", ![r].held = S,
                                  ![r].left = @ - 1]
    /\ UNCHANGED <<kind, journal, metadata, rows, clock, faults, sends, done>>

\* The cap is reached, or nothing is due: the loop idles.
EndTick(r) ==
    /\ loop[r].pc = "items"
    /\ loop[r].left = 0 \/ Claims(Items, 1) = {{}}
    /\ loop' = [loop EXCEPT ![r] = Resting]
    /\ UNCHANGED <<kind, journal, metadata, rows, clock, faults, sends, done>>

\* load_row: the row is read when the work item runs.
RowGone(i) == i[3] \in Rows \ rows

HasTarget(r, i) == Declared(r, i) /\ i[1] \in Invoke

DropItem(r, i) ==
    /\ loop[r].pc = "run"
    /\ i \in loop[r].held
    /\ ~HasTarget(r, i) \/ TooLate(i) \/ RowGone(i)
    /\ Write(r, "ran", Only(i, Ended(i, "dead")))
    /\ UNCHANGED <<kind, journal, metadata, rows, clock, faults, sends, done>>

\* run_target; a permanent failure ends the work item at once.
RunItem(r, i, works, heard, permanent) ==
    /\ loop[r].pc = "run"
    /\ i \in loop[r].held
    /\ HasTarget(r, i) /\ ~TooLate(i) /\ ~RowGone(i)
    /\ Called(r, i, "ran", works,
              IF permanent /\ ~(works /\ heard)
              THEN [Ended(i, "error") EXCEPT !.tries = @ + 1]
              ELSE Answered(i, works, heard))
    /\ UNCHANGED <<kind, journal, metadata, rows, clock, faults>>

CommitItem(r) ==
    /\ loop[r].pc = "ran"
    /\ journal' = Committed(r)
    /\ loop' = [loop EXCEPT ![r] = [Resting EXCEPT !.pc = "items",
                                                   !.left = loop[r].left]]
    /\ UNCHANGED <<kind, metadata, rows, clock, faults, sends, done>>

-----------------------------------------------------------------------------
(* The surroundings *)

\* The process dies, or a statement fails: the transaction is rolled back and
\* the tick is over.  An error that lasts is out of the bound.
Rollback(r) ==
    /\ loop[r].held # {}
    /\ faults < MaxFaults
    /\ faults' = faults + 1
    /\ loop' = [loop EXCEPT ![r] = Resting]
    /\ UNCHANGED <<kind, journal, metadata, rows, clock, sends, done>>

\* The replica stops between two ticks and starts with the new metadata.
Deploy(r) ==
    /\ loop[r].pc = "idle"
    /\ metadata[r] # New
    /\ metadata' = [metadata EXCEPT ![r] = New]
    /\ UNCHANGED <<kind, journal, loop, rows, clock, faults, sends, done>>

\* donat.notify_event: a row changes under a trigger migrate has installed.
Capture(t) ==
    /\ kind = "event"
    /\ clock \in Instants
    /\ t \in New
    /\ journal[<<t, clock>>] = Absent
    /\ journal' = [journal EXCEPT ![<<t, clock>>] = Scheduled(clock)]
    /\ UNCHANGED <<kind, loop, metadata, rows, clock, faults, sends, done>>

Delete(k) ==
    /\ k \in rows
    /\ faults < MaxFaults
    /\ faults' = faults + 1
    /\ rows' = rows \ {k}
    /\ UNCHANGED <<kind, journal, loop, metadata, clock, sends, done>>

Tick ==
    /\ clock < MaxTime
    /\ clock' = clock + 1
    /\ UNCHANGED <<kind, journal, loop, metadata, rows, faults, sends, done>>

-----------------------------------------------------------------------------
DeliverEvent(r) ==
    \E e \in loop[r].held :
        \/ Drop(r, e)
        \/ \E works, heard \in BOOLEAN : Post(r, e, works, heard)
        \/ Expand(r, e)
        \/ ExpandFails(r, e)

DeliverItem(r) ==
    \E i \in loop[r].held :
        \/ DropItem(r, i)
        \/ \E works, heard, permanent \in BOOLEAN :
              RunItem(r, i, works, heard, permanent)

Step(r) ==
    \/ Materialize(r)
    \/ Claim(r)
    \/ DeliverEvent(r)
    \/ Commit(r)
    \/ ClaimItem(r)
    \/ EndTick(r)
    \/ DeliverItem(r)
    \/ CommitItem(r)

Next ==
    \/ \E r \in Replicas : Step(r)
    \/ \E r \in Replicas : Rollback(r)
    \/ \E r \in Replicas : Deploy(r)
    \/ \E t \in Triggers : Capture(t)
    \/ \E k \in Rows : Delete(k)
    \/ Tick

Spec == Init /\ [][Next]_vars

\* Every replica's loop goes on, calls are bounded by their timeout, and time
\* passes.
FairSpec == Spec /\ WF_vars(Tick) /\ \A r \in Replicas : WF_vars(Step(r))

-----------------------------------------------------------------------------
Final == {"delivered", "error", "dead"}
Row == [status : Final \cup {"absent", "scheduled"}, tries : 0..(NumRetries + 1),
        retryAt : 0..MaxTime, created : 0..MaxTime]

\* Entries and loops have their shape.
TypeOK ==
    /\ kind \in {"cron", "event"}
    /\ journal \in [Entries -> Row]
    /\ \A r \in Replicas :
          /\ loop[r].pc \in {"idle", "claim", "deliver", "items", "run", "ran"}
          /\ {loop[r].held, loop[r].sent} \subseteq SUBSET Entries
          /\ DOMAIN loop[r].writes \subseteq Entries
          /\ loop[r].writes \in [DOMAIN loop[r].writes -> Row]
          /\ loop[r].left \in 0..ExpandLimit
    /\ metadata \in [Replicas -> {Old, New}]
    /\ rows \subseteq Rows
    /\ clock \in 0..MaxTime
    /\ faults \in 0..MaxFaults
    /\ sends \in [Entries -> Nat]
    /\ done \subseteq Entries

\* Two replicas never have calls for one event or work item under way.
OneDeliverer ==
    \A r, s \in Replicas : r # s => loop[r].sent \cap loop[s].sent = {}

\* What the journal calls delivered was done, and a delivered event of an invoke
\* trigger has a work item for every row its foreach selects that is still there.
DeliveredIsDone ==
    /\ \A x \in Entries :
          journal[x].status = "delivered" =>
              x \in done \/ x \in Invoke \X Instants
    /\ \A e \in Invoke \X Instants \cap Events :
          journal[e].status = "delivered" =>
              \A i \in ItemsOf(e) : journal[i] # Absent

\* "multi-instance safe": whatever the ticks, batches and rollbacks of the
\* replicas, a receiver is called at most once for each try of retry_conf, and
\* once more for each rollback, which forgets the try and not the call; and never
\* by two replicas at once.
CallsBounded ==
    /\ \A x \in Entries : sends[x] <= NumRetries + 1 + faults
    /\ OneDeliverer

\* A cron event or work item is given up for its lateness only before its first
\* recorded attempt; after it, only for want of its row, or by a replica whose
\* version of the metadata does not have its trigger.
NotDroppedMidRetry ==
    \A x \in Entries :
        kind = "cron" /\ journal[x].status = "dead" /\ journal[x].tries > 0
        => x[1] \notin Old \cap New \/ (x \in Items /\ RowGone(x))

\* "at-least-once": what the journal says of an end is true.  Delivered is done,
\* with a work item for every row, although a batch is one transaction and a
\* rollback forgets what was called; and what was given up as late had not been
\* tried, as retries go on to the end of retry_conf, however late.
JournalIsTrue == DeliveredIsDone /\ NotDroppedMidRetry

\* With no new occurrences and row changes the journal drains: every event and
\* every work item ends, and no trigger, row or replica keeps another's waiting
\* for ever.  Rollbacks are bounded (MaxFaults): an error that comes back at every
\* poll, of run_work_item or of the log insert, does starve what is behind it.
JournalDrains ==
    <>[](\A x \in Entries : journal[x].status # "scheduled")

\* specs/001-cron-triggers.md: each tick enqueues "the next occurrence after the
\* latest known `scheduled_time`", so no occurrence between two that were
\* enqueued is left out.
NoOccurrenceSkipped ==
    kind = "cron" =>
        \A t \in Old \cap New, i, j, k \in Instants :
            /\ i < j /\ j < k
            /\ journal[<<t, i>>] # Absent /\ journal[<<t, k>>] # Absent
            => journal[<<t, j>>] # Absent

=============================================================================
