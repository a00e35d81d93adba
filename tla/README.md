# Verification of donat's durable runtime

donat compiles declarative metadata into a server for one or more PostgreSQL
sources. Most of it translates documents into SQL. What this project verifies
is the part that keeps state over time and runs on several replicas at once:
the durable Process runtime under `crates/server/src/processes/`, which moves
long-running business processes along with nothing but rows, row locks and the
database clock between its workers, and the other loops of the server that are
built the same way: triggers, uploads and their collector, and the credentials
of connectors.

## Inventory

| Part | Source | State it keeps | Operations | Module |
|---|---|---|---|---|
| Activities | `processes/activity.rs` | `process_activity_jobs`, `process_activity_provider_steps`, `process_capacity_buckets`, `process_capacity_reservations` | claim, authorize a send, complete, retry, take over, resolve late | `Activity`; the token bucket in `RateBucket` |
| Retry horizon | `crates/processes` | none (pure) | `compile_retry_horizon`; `retry_delay_upper_ms` of the runtime | `RetryHorizon` |
| Signals | `processes/signal.rs` | `process_signal_requests`, `process_events` | consume one signal request | `SignalWait` |
| Transitions | `processes/transition.rs` | `process_instances`, `process_events`, `process_fanout_items` | prepare, fence, apply, defer, give up; waits; fan-out | `SignalWait`, `WebhookWait` (waits), `Fanout` |
| Start | `processes/start.rs` | `process_start_requests`, `process_instances` | consume one start | creation only, in `SignalWait` |
| Inbound webhooks | `processes/inbound.rs`, `connector_webhook.rs` | `process_inbound_events`, `process_inbound_deliveries` | deliver a verified event, acknowledge | `WebhookWait` |
| Catalog, reconcile | `processes/{catalog,reconcile}.rs` | `process_definition_versions` | publish, retire, omit revisions | planned |
| Worker loops | `processes/runtime.rs`, `shutdown.rs` | in-flight set, drain flag | supervise, poll, drain | fairness only |
| Cron, event triggers | `cron.rs`, `events.rs`, `invoke.rs` | `cron_events`, `event_log`, `trigger_invocations` | materialize, capture, claim, deliver, expand, retry | `Triggers`; the next occurrence in `CronZone` |
| Commands | `commands.rs`, `sqlgen` | command claims, outboxes | one statement per command | the signal outbox row only |
| Files | `files.rs`, `sqlgen`, migrations | `file_uploads`, the objects of the store | mint under a budget, complete, claim, collect | `Files` |
| Connector credentials | `credentials/` | `connector_credential` | refresh at use, replay after a 401, authorize, revoke | `Credentials` |
| Rate limiting, WebSocket, actions, authentication | `ratelimit.rs`, `ws.rs`, `action.rs`, `jwt.rs`, `oidc.rs` | caches, counters | per request | not modelled |
| Metadata, planner, SQL generation, providers, UI, SDK | the other crates | none | pure translation | not modelled |

How they interact. A command writes, in its own transaction, an outbox row that
starts or signals a Process. `consume_one_start` turns the first into an
instance and an event. `consume_one_transition` applies one event to one
instance: it may run a command, schedule an activity job, open a wait or end
the instance. `consume_one_activity` claims a job, calls the connector with no
transaction open, and appends an event for the transition consumer.
`consume_one_signal` turns the second kind of outbox row into an event of the
one instance whose wait it fits. Every consumer polls; any number of replicas
run all of them; the only order between two of them is what a row lock, an
advisory lock, a unique index or a version comparison imposes.

What is hard here, and what makes each part correct:

- *Activities.* The connector call sits between two transactions, so a worker
  may stall or die on either side of it while another takes over. An
  `AtMostOnce` operation must not be sent twice, and what the Process is told
  of it must be true. Leases must fence late completions, capacity must hold
  under expiry and takeover, retries must fit the horizon the compiler pinned,
  and every activity must be reported once, and eventually.
- *Waits.* A signal, a timeout, a wait entry and a give-up race for one
  instance, each with data it read earlier. A timeout must not overtake an
  accepted signal; a signal is heard only in the window of its wait; the
  losers of a race must not act later; one semantic key is delivered once; an
  instance must never be left with no event, or two, to move it on.

- *Fan-out.* Items of one state are completed by any worker in any order, and
  completing one does not move the instance's version, so a preparation can be
  out of date without the version fence noticing. The slots must stay full, the
  last completion must collect, over all items, and the destination must depend
  on the items' order and not on the order of their ends.
- *Webhook waits.* A provider sends an event again until it is acknowledged; two
  deliveries of one event, two events and the timer meet at one wait.
- *Credentials.* A rotating provider invalidates a refresh token the moment it
  is presented: two refreshes at once, or a crash before the commit, burn it.
- *Triggers.* Calls are made inside the transaction that claims a batch, so a
  rollback forgets calls that were made; replicas run different metadata during
  a deployment.
- *Files.* Rows and objects commit apart from each other, and minting,
  completion, claim and collection of one upload overlap.
- *Arithmetic.* Retry horizons overflow, local times do not exist or exist
  twice, a bucket is refilled with a clock read before the lock.

`PROJECT.json` lists these as hazards, each at the line where it bites.

## Modules

**`Activity`** models `consume_one_activity` completely. A job is one row of
`process_activity_jobs` (with the step row and the reservations that refer to
it); a worker is one execution of the function, with the lease, attempt and
outcome it holds in memory. The claim is one step, because `FOR UPDATE` on the
job and on the bucket makes it one, and splits by the branch it takes:
`ClaimExpired`, `ClaimLateRetry`, `ClaimLateFail`, `ClaimDeferred`,
`ClaimLease`. `authorize_provider_send` is two steps, `AuthorizeOpen` and
`AuthorizeCommit`: its transaction takes no lock on the job before its fence,
and what keeps a concurrent claim out is only the key-share lock of the
foreign key of the inserted step row. `Send` and `Answer*` are the connector
executor, which is outside the modelled code: it may or may not carry a request
out, and answers with any error class. `Complete*` are the fenced completions;
`CompleteStale` also stands for a completion that rolls back because its
reservation is gone. Time is kept as the ticks left until each timestamp, which
keeps the state space finite without a clock: `Tick` lowers them all, each
stopping below the last value a comparison tells apart.

**`ActivityContract`** is the abstract specification of one at-most-once
activity, ADR 063 without workers or tables: the provider acts at most once, and
never against a verdict the Process was given. `ImplementsContract` in
`Activity` is the refinement, with the verdict read off the job's row and the
provider's act off the history variable.

**`RetryHorizon`** is the arithmetic of retries in integers of a given width,
with the checked and saturating operations the Rust code uses, next to the
closed form of specification 005. One round of the compiler's loop is
`ChargeRetry`. `MCActivity` takes its horizon from it, so the
`activity_retry` run checks the protocol under the number the compiler pins.

**`SignalWait`** models one wait: the outbox row (`WriteRequest`,
`CommitRequest`, because `created_at` is the start of the command's
transaction), `consume_one_signal` as three steps (`SignalRead` the snapshot of
the candidate query, `SignalLock` its row locks and, in `Matching`, `Targets` and
`Outcome`, all decisions, `SignalCommit`), and `consume_one_transition` as `Prepare` without a
transaction, then `OpenTransition` (the row locks and the fence of `LockPrepared`, and
the look at signals that precede a timer) or `Abandon`, then the commit: one of
`AdvanceWork`, `EnterWait`, `CompleteWait`, `Complete`; or `Fault` with `Defer` and
`FailInstance`. Between the opening and the commit the event and the instance are
locked and nothing else is: requests are written and committed, and consumers take
their snapshots and queue for the instance's lock. The candidate query joins the marker in a lateral subquery and
locks only the instance: PostgreSQL, when a row has changed since the snapshot,
re-reads that row and keeps the joined row it had. `SignalLock` does the same.
Events are kept after they close, since the history query reads them. `Closed`
keeps an event's row and changes its status only. Workers and consumers belong
to different replicas: the in-memory set of busy instances of one replica only
removes interleavings. States other than the wait are "work" and "output"; the
wait may follow itself, which is how two waits for one signal in a row appear.

**`Fanout`** models one bounded for-each state: `Expand*` writes the item rows
and fills the slots, `Prepare` reads an event and its item without a
transaction, `Complete` applies it under the fence `Current` (the event still
pending, the version, the item still scheduled), gives the slot to the next item
(`Activated`), and, when no row is unfinished, collects and picks the
destination (`Collected`). Commands complete inside the transition; a request's
job is `Activity`'s business and appears as `RunJob`, which ends it with any
outcome. `Defer`, `Refuse` and `FailInstance` are the three ways a transition
fails, `Crash` the fourth. The compiled state and its input (`Plans`) are chosen
in `Init`: kind of activity, concurrency, length, empty and oversized included.

**`WebhookWait`** models `persist_verified` as it runs in its transaction:
`Receive`, the advisory lock of the event's identity (`IdentityFree`), the
ledger (`Duplicate`), the candidate query (`LookUp`, with its snapshot) and,
after the row locks are granted, the decision and all writes (`Deliver`), then
the answer to the provider (`Acknowledge`). The waits are entered and completed
as in `SignalWait`, with their timers. A provider may send any event again until
it was answered. As with signals, a row that changed while its lock was awaited
is checked again, and what was joined to it, the marker and whether a signal is
pending, stays that of the snapshot.

**`Credentials`** has one action per step of an attempt: `Read` without lock,
`Lock` with the re-read, `Exchange` (the provider, external), `Commit` or
`MarkUnusable`, `Call` and the one forced refresh and replay (`Unauthorized`);
next to them the operator's `Authorize` and the three steps of revoke. A grant is
a number; a rotating provider invalidates the token it was given. Faults are a
crash with the exchange done, a lost answer and a grant withdrawn by its owner.

**`Triggers`** models the loop of a replica: `Materialize` (cron), `Claim` of a
batch with `SKIP LOCKED`, per event `Drop`, `Post`, `Expand` or `ExpandFails`,
`Commit`, then `ClaimItem`, `DropItem`, `RunItem`, `CommitItem` for the work items,
up to `ExpandLimit`. Cron and event triggers have tables of their own and the same
steps; a behaviour is of one kind, and a definition that differs says so. A
replica that dies or meets a database error takes `Rollback`. `Deploy` moves one
replica after the other to the new metadata.

**`CronZone`** is `next_in_zone` with both policies, over a zone with one
transition; the library's conversions are external and modelled by what they do.
`Considered` is one candidate of its loop, `Halved` one round of the bisection, an
`Option` is a set of at most one value. `Runs` is the reference: the set of all
instants a schedule is due.
**`RateBucket`** is the refill and the next token instant of a claim (`Claimed`), in
units of one token's interval.

**`Files`** models an upload from `MintBegins` to `ReclaimDeletesRow`. The objects
are a set of their own, changed by the client's PUT, by the copy and by deletes;
the rows by the statements. A request remembers when its transaction began,
since `now()` is that. `Claimable` is the statement's condition on the snapshot,
`Rechecked` the one PostgreSQL evaluates again on a row that changed under it.
The collector lists a batch (`Lists`), then locks, deletes the object, deletes
the row, one candidate after the other, and looks at neither state nor column
again. The client may PUT as often as it likes while the URL lives, also after
completion and claim, since nothing revokes the URL; the size is signed with it. Of
the bytes nothing but the size is modelled. `store` is the object store as the
replicas see it: silent (`StoreFails`), refusing single objects (`StoreRefuses`), or no
longer declared (`Undeclares`), where the collector drops the row and leaves the
object. A change of the metadata reaches all replicas at once; a completion under way
keeps the backend it began with.

The `MC` modules give the constants their values; `MCAlgorithms` also holds
the properties of the three pure modules, whose input is its only variable. The
`*Proofs` modules hold the theorems about the module they are named after,
`AlgorithmsProofs` those about the three pure modules.

Abstractions. Names, payloads and contracts are dropped where nothing compares
them: one bucket of one operation in `Activity`; one signal contract, one
correlation and one published revision in `SignalWait`. Expressions, guards and
commands appear by what they may do (advance, fail transiently, fail finally).
A claim in `Activity` leaves out that the instance is still running
(`activity.rs:290`) and that a fan-out item is still scheduled
(`activity.rs:376-403`): an instance that ends leaves its jobs, and nothing stated
here is about them. `Exchange` in `Credentials` leaves out two refusals before the
provider is asked, a row without a refresh token (`refresh.rs:311-314`) and a token
of a foreign origin (`refresh.rs:352-354`, which a client that follows no redirect,
`oauth.rs:340`, cannot meet). `Before` orders the events of one instance; which instance a worker takes first
is left open, so no property rests on it. Two atomic steps that the code has in
separate transactions are separate actions. Sealing, signatures, sessions,
payloads and invocation logs are left out. Integers that only count versions,
generations and attempts are unbounded naturals; the 64-bit arithmetic that
saturates is in `RetryHorizon`.

## Runs

Twelve runs; each property of a passing run has a mutant in `PROJECT.json`,
a plausible bug of the code under which TLC finds it violated.

| Run | Instance | Shows |
|---|---|---|
| `activity_at_most_once` | 2 at-most-once jobs, 2 workers, capacity 1, 1 crash | `AtMostOnceSend`, `OutcomeKnown`, `InFlightBounded`, `TypeOK` and the refinement `ImplementsContract` |
| `activity_serialized` | 2 jobs of one serialization key, room for both | `SerializedByKey`, also across takeovers |
| `activity_retry` | 1 provider-idempotent job, 2 attempts, Retry-After, 1 crash | `HorizonSuffices`, `OneTerminalEvent`, and under fairness `EveryActivityResolves` |
| `activity_stranded` | 2 jobs, 1 bucket | *violated*: `LateWorkIsResolvable` |
| `wait_race` | 3 signals, 2 of one key; 2 consumers, 2 workers; early signals kept | `AcceptedBeatsTimeout`, `HeardByDeadline`, `NoStaleEvents`, `OneDeliveryPerKey` |
| `wait_cycle` | 1 signal, 2 workers, the wait repeated, 1 fault | `OneWayForward`, `NotHeardEarly`, and under fairness `EveryInstanceEnds` |
| `fanout` | up to 3 items, 2 slots, 2 workers, 2 faults, commands and requests | `SlotsFull`, `CollectedWhole`, `RouteByOrder`, `NoRaceFails`, and under fairness `FanoutEnds` |
| `webhook_race` | 2 instances, 2 events, 2 receivers, 1 worker, 1 fault | `AcceptedBeatsTimeout`, `HeardInWindow`, `OneWinner`, `AnswerIsFinal` |
| `credentials_refresh` | 2 attempts, 1 more authorization, 1 fault, rotating or not | `ExchangeIsNeeded`, `MarkIsTrue`, `OnlyFaultsBurn`, and under fairness `EveryAttemptEnds` |
| `triggers_deliver` | 2 replicas, a webhook trigger that is removed and an invoke trigger, 2 rows, 1 retry, 1 fault | `JournalIsTrue`, `CallsBounded`, and under fairness `JournalDrains` |
| `files` | 2 uploads, 2 owners, 2 requests, 2 collectors in batches of 2, repeated PUTs, 1 fault (death, outage, refusal, dropped backend) | `ReferencesSound`, `StoredBytesStayReachable`, `BudgetKept`, `EveryObjectCollectable`, and under fairness `CollectorProgress` |
| `algorithms` | all retry policies of small durations in narrow integers; all schedules around one transition; all claim sequences of length 4 | `HorizonIsExact`, `NextIsEarliestRun`, `RateKept` |

The type invariants (`TypeOK`) of the modules other than `Activity` hold over the
same instances; adding `TypeOK` to a cfg checks one.

**Bounds.** Durations of one or two ticks suffice because every comparison is
between a clock and zero, a grace or another clock: before, at and after all
occur (two crossings for a takeover: its deadline and its grace). Two workers,
consumers, receivers, attempts, replicas or collectors give every race for one
row; one fault per run gives a death between any two steps. `MaxVersion` bounds
re-entry of a wait: three lets a second wait follow the first, which is all that
a stale event needs. Three items in two slots give a waiting item, a race for
the next slot and a race for the last completion. `MaxTime` cuts the clock off: a
later timestamp is MaxTime, when everything is due; uploads are minted early
enough (`MintUntil`) for their whole life to fit. `MaxFaults` bounds failures
and crashes together. A transition of `MaxWidth` 4 is longer than the distance
between two runs of the densest schedules, and shorter than that of the others.
`CHECK_DEADLOCK FALSE` is set where behaviours end (all instances, requests or
attempts are done and the clock stands at its bound) and where a pure module's
last input is reached; the activity, fan-out, trigger and file runs check
deadlock.

**Fairness.** Weak fairness throughout: of polling, of the next step of a worker,
consumer, replica, attempt or collector, of a command's commit and of time. The
loops in `runtime.rs`, `cron.rs`, `events.rs` and `files.rs` poll for as long as
the engine is up and `supervise` restarts a worker that panicked; connector, token
and webhook calls have timeouts. Crashes are bounded by a constant and never
fair. `Files` is fair to the collectors only: clients need not come back, and
the store need not. Nothing is assumed about which of two workers wins.

## Disagreements

Places where the code does something else than a document or a comment of the
repository says. The first is the run `activity_stranded`. Each of the others
has a cfg of its own; `tlc -config <cfg> <module>` prints the counterexample.

- *Stranded activity* (`activity.rs:1947`). Any claim on a bucket releases its
  expired reservations, the job's own included; past the takeover grace the late
  resolution insists on releasing exactly one, and rolls back for ever.
- *Stale marker* (`signal.rs:290`, `MCSignalWait_stale.cfg`, `AcceptedByWait`).
  `FOR UPDATE OF instance` re-reads the row and keeps the joined marker of the
  snapshot. A consumer that queues for the lock while a timeout leads back to the
  wait accepts its request, with the marker of the wait that was left, for the
  version the instance has reached, whose wait is not entered yet. One request, no
  early signals and no fault suffice. The event then completes a wait that was never
  entered, and the continue event stays as a second token. `signal.rs:85-86`:
  "turned into one version-qualified Process event only when the wait marker predates
  the request."
- *Overtaken signal* (`transition.rs:518`, `MCSignalWait_overtaken.cfg`,
  `NoneOvertaken`). `pending_signal_precedes_timer` reads request rows without a lock,
  several statements before the commit (`transition.rs:675`): a request sent in the
  window that commits in between is overtaken by the timeout. `decisions/023` lines
  20-22: "a delayed worker must not let a later timeout overtake a signal that was
  committed while the wait was already receptive." `defer_transition` does the same by
  another way: it moves `available_at`, which orders signal against timeout and is
  the wait's deadline. `AcceptedBeatsTimeout` is what is left of the rule, for signals
  that a consumer has accepted and nobody deferred; `WebhookWait`, where only an
  accepted event counts, has it with the same exception.
- *Give-up leaves work* (`transition.rs:477`, `MCSignalWait_leftover.cfg`,
  `EndedLeavesNoWork`). `fail_instance` closes only the event it failed on;
  `decisions/023` line 66 rejects "Leave the losing event pending | It creates
  permanent due work".
- *Mutual duplicates* (`signal.rs:154`, `MCSignalWait_mutual.cfg`,
  `DuplicateHasOriginal`) and *the unoffered signal* (`transition.rs:3201`,
  `MCSignalWait_unoffered.cfg`, `EarlySignalOffered`): two ways an early signal is
  lost although `transition.rs:3191-3192` says "such a signal is not lost:
  entering the wait returns those exact correlated requests to `pending`".
- *Two accepted events* (`inbound.rs:748`, `MCWebhookWait_double.cfg`,
  `OneAcceptedPerWait`). A delivery whose snapshot precedes another's commit is
  accepted for the wait that already has its event. `decisions/025`: "A signal
  that arrives while the instance is not receptive is never buffered; it records
  `unexpected_state` when the correlation target is known". The second event is
  closed with the wait, so `OneWinner` holds; the provider was told it counts.
- *Crash after the exchange* (`refresh.rs:319`, `MCCredentials_crash.cfg`,
  `StoredTokenWorks`). With a rotating provider the rolled back row holds the
  token that was just invalidated. `refresh.rs:20-26`: "it never leaves a stored
  token nobody can use, and it never marks the credential unusable."
- *Missed occurrences* (`cron.rs:416`, `MCTriggers_skipped.cfg`,
  `NoOccurrenceSkipped`). The next occurrence is computed from the clock;
  `specs/001-cron-triggers.md:76-78` computes it from "the latest known
  `scheduled_time`".

`wait_race` therefore enters the wait once and runs without faults, since
`HeardByDeadline` and `NoStaleEvents` fail behind a second wait or a deferral, and
`wait_cycle`, which enters it again, asks for one token only while no signal was
accepted for a wait not entered, and for a signal no older than the instance's first
wait. `OnlyFaultsBurn` and `EveryObjectCollectable` say "without a fault", and
`EveryObjectCollectable` excepts what a late PUT stores at the staging key of an
upload that has moved on, which `files.rs:262-266` and `specs/008:264-266` accept as an
orphan nothing references. Smaller observations, with no cfg:

- A completion that dies between the copy and `finalize_upload` leaves an object
  no row names, although `files.rs:301-302` calls one stale staging object the
  worst case.
- `expand_limit` leaves work items to later polls, where the tolerance may drop
  them as late; `invoke.rs:63-64` says "nothing is dropped".
- During a rolling deployment a replica with the old metadata ends the events of a
  trigger it does not know (`cron.rs:467`, `events.rs:258`).
- An error inside `run_work_item` rolls back with `tries` unchanged, and the same
  item is claimed first again (`invoke.rs:556`, `621`); a batch of events does the same
  when an answer cannot be written to the log (`cron.rs:535`). `Rollback` is bounded, so
  `JournalDrains` says that the journals drain once such errors end: one that lasts
  keeps every later entry waiting.
- `revoke` reads the row without a lock; a refresh before its delete leaves a
  rotated token that is neither stored nor revoked (`credentials/cli.rs:227`).
- `pending_ttl_days` of 0 is accepted; `Files` assumes that a request is shorter
  than it (`FilesAssumption`). A full batch of rows whose objects the store refuses
  for good keeps later rows from being listed (`files.rs:470`), so `CollectorProgress`
  asks for fewer.

## Proofs

Each `*Proofs` module extends the module it is about and proves, for every value
of the constants that satisfies the module's assumptions, `Init => Inv`,
`Inv /\ [Next]_vars => Inv'` action by action, and what `Inv` implies. TLC checked
each `Inv` on the runs' instances before it was proved. All of it follows from the
named `ASSUME`s; nothing else is assumed.

**`ActivityProofs`**, for every set of jobs and workers, effect, retry policy and
capacity:

- `TypeCorrect`: `Spec => []TypeOK`. By itself `TypeOK` is not inductive: that
  attempts stay within `MaxAttempts` needs `BudgetLeft` (a scheduled job has an
  attempt left), and that a worker's job is a job needs `WorkersBusy`. `Safe` is
  their conjunction.
- `SentAtMostOnce`: `Spec => []AtMostOnceSend`. The invariant `SendInv` adds to
  `Safe`, for at-most-once operations, `SendDiscipline`: a send happens only
  under a committed step row and only one worker is ever on the way from the
  insert to the provider (`RowsHonest`, `WorkersHonest`, `OneSender`).
- `ReportedOutcomeIsTrue`: `Spec => []OutcomeKnown`. `FailuresKnown` says what
  a worker holding a failure knows of the send; `VerdictsHold` that a job
  reported as failed has no sender left, which needs the lock that `Due` waits
  for: without it the proof, as the mutant, breaks.
- `ContractImplemented`: for an at-most-once operation the specification
  implements `ActivityContract`, step by step under `SendInv`.
- `CapacityNeverExceeded`, `KeysAreSerial`, `ReportedExactlyOnce`. A lease by itself
  says nothing about the bucket, whose expired reservations any claim removes.
  `CapacityInv` adds to `Safe` that workers on one job are of different lease
  generations (`LeasesApart`), that a worker inside its deadline has the lease and
  its reservation (`HoldersReserved`), and that unexpired reservations fit the bucket
  and are apart by serialization key (`BucketKept`). That a lease and its reservation
  expire together is what carries the argument across a takeover.
- `HorizonCoversRetries`: `HorizonPinned => (Spec => []HorizonSuffices)`. The
  hypothesis says that the horizon of a provider-idempotent activity is no less than
  the closed form of specification 005; that the compiler pins that number is
  `HorizonAlwaysExact` below. `HorizonInv` adds to `CapacityInv` that a step row being
  inserted is its worker's alone (`RowsLocked`), and `HorizonKept`: as long as no
  attempt sat past its grace, what is left of the horizon covers the rest of the
  current attempt with its grace, or the time until the next one must start, and all
  the attempts after it (`Covered`), and a worker is refused for the horizon only past
  its grace (`InTime`). The ticks left on the horizon and on the attempt fall together,
  so the charge of an attempt pays for the time it takes.

The assumptions are those a compiled Process satisfies: an at-most-once
operation has one attempt and no retry, intervals and timeouts are positive, the
horizon fits the usable window.

**`SignalWaitProofs`**, for any instances, requests, consumers, workers and faults:

- `DeliveredOnce` (`OneDeliveryPerKey`) and `NoneHeardEarly` (`NotHeardEarly`) hold for
  waits entered any number of times. `SignalInv` says that a consumer's request is
  pending and no request of its key delivered (`ConsumerSound`), that no two consumers
  are at one key (`KeysApart`), that a locked instance stays the candidate it was locked
  as, that no event is newer than its instance, and that an undeferred event is due at
  its deadline (`EventSound`). `SentInv` adds that a marker in a snapshot is that of some
  timer of the instance, so what it lets through was sent after one was created
  (`Opened`).
- `NeverTwoTokens` (`OneWayForward`, and with it `AcceptedByWait`, so exactly one
  token), `LosersClosed` (`NoStaleEvents`) and, undeferred, `NoneHeardLate`
  (`HeardByDeadline`) hold for a wait that is entered once (`EnteredOnce`). `OnceInv`
  reads the phase off the version (`PhaseSound`, `KindSound`), says that what is due
  of a running instance is of its version and moves it on (`DueSound`), and that a
  marker in a consumer's snapshot is that of the instance's one timer
  (`MarkerSound`): the timer outlives every step, so a stale snapshot is stale about
  nothing that is compared.
- `AcceptedFirst` (`AcceptedBeatsTimeout`), also for a wait entered once. The check
  and the commit of a timeout are two steps; `AcceptInv` carries what the check saw to
  the commit: no undeferred signal of the wait is pending while a timeout's
  transaction is open (`LookedSound`), because a consumer needs the instance's lock to
  accept one, and an undeferred signal is due no later than the timer that let it
  through (`HeardSound`).

The hypotheses are needed. After a deferral the code compares with an
`available_at` that is no longer the deadline, and with a second wait behind the
first the marker of a snapshot may be that of the wait that was left: these are the
disagreements above, with a counterexample each.

**`FanoutProofs`**, for every plan, number of workers, slots and faults:
`SlotsStayFull`, `CollectedOnlyWhole`, `RouteFollowsOrder`, `RacesNeverFail`.
`FanoutInv` says that row, event, job and outcome of each item agree (`RowSound`),
that min(concurrency, unfinished) items hold a slot (`SlotsCounted`), that nothing
moves once the state is left (`LeftSound`), and that a worker which found no
scheduled item read an event that is gone or a version that has moved
(`TransitionSound`). The slots are a cardinality argument (`SlotPassedOn`): one
completion frees one slot and fills one if an item waits. The walk over the items
that picks the destination is a recursive function; that it ends at an ambiguous
item or else at the failed item of the lowest ordinal is proved by its smallest
counterexample, which the well-foundedness of the naturals provides.

**`WebhookWaitProofs`**, for any instances, events, receivers, workers and faults:
`EventsHeardInWindow`, `TimeoutLosesToAccepted`, `OneEventWins`, and the action
property `FirstAnswerIsFinal`. `WebhookInv` adds to the properties that a marker
exists from the entry on (`MarkerKept`), that what a snapshot shows of it was only
moved later since (`DeliveryKnows`), that an accepted event is pending exactly while
its wait is open (`PendingWhileOpen`) and that a provider event has one Process event,
and only if the ledger says accepted (`OnePerEvent`).

**`CredentialsProofs`**, for any attempts, authorizations and faults, rotating
provider or not: `ExchangesAreNeeded`, `MarksAreTrue`, `NoTokenBurnt`.
`CredentialsInv` says that nothing moves under the attempt that holds the row
(`RowHeld`), that what a provider refused stays refused (`RefusalHolds`), and where
the good token is between an exchange and its commit (`TokenSomewhere`).

**`FilesProofs`**, for any finite set of uploads, any requests, owners, collectors
and faults: `ReferencesAreSound`, `BytesStayReachable`, `ObjectsAreCollectable`,
`BudgetIsKept`. `FilesInv` ties rows to objects (`RowsSound`, `BytesReachable`), bounds
what a completion or claim in flight may still find (`RequestsSound`), says what a
collector between lock and delete may rely on (`CollectorsSound`) and, without faults,
which completion still owes a copy its row (`Collectable`). `ObjectsAreCollectable` is
about steps: `StagingKeepsName` shows for every action that a staging object with a
name keeps it or goes, and `StagingComesFromClient` that only a PUT makes a nameless
one. `BudgetInv` is the
advisory lock of the session: one mint at a time is between count and insert, and its
count still holds. `FilesAssumption` asks that a request be shorter than
`pending_ttl_days` and the orphan grace: true from one day up, but the code accepts
0 for both, as noted above. It also asks that an upload URL live no longer than the
orphan grace (`loader.rs:577-580` caps it at a day).

**`TriggersProofs`**, for any triggers, rows, replicas, retry configuration and
deployments: `CallsAreBounded`, `JournalTellsTheTruth`. `TriggersInv` says what a
replica between claim and commit knows of its batch (`LoopsSound`), that a work item
was written with the end of its event (`JournalSound`), and that every call is in its
row, about to be, or was rolled back (`CallsCounted`). The proof corrected a property:
`NotDroppedMidRetry` excepts triggers that one of the two versions does not have,
since an old replica may end a new trigger's event between two retries of it.

**`AlgorithmsProofs`**, for every input. The loops are recursive functions; that such
a function exists is `RecursionExists`, and what it computes is shown on its smallest
counterexample, from one lemma about one round.

- `HorizonAlwaysExact` (`HorizonIsExact`), for any policy and width. `OneRound` keeps
  `LoopHolds`: the loop has charged exactly the retries so far, or has taken the rest
  in one product, or has overflowed, which stays so because sums only grow
  (`SumsGrow`). Facts about powers of two come from the number of subsets
  (`PowerOfTwo`), the prover having no induction over exponents.
- `RateAlwaysKept` (`RateKept`), for any burst, interval and sequence of claims, in any
  order of their instants: `Budgeted` bounds tokens left and taken together, `Ahead`
  compares a bucket with the one that got every claim at the current instant, and
  `RefusedWakesWithToken` is the next token instant.
- `NextRunIs`, `NextAlwaysEarliest` (`NextIsEarliestRun`). `NextRunIs` is about any zone
  with one transition, any schedule with a time past it, any policies and any instant
  (`IsOccasion`); the inputs of the run, of any width, are such occasions
  (`InputsAreOccasions`). The bisection finds the transition (`BisectionFinds`), a
  candidate resolves to its runs (`ResolvedIs`, `OnceIsOne`), and each candidate
  preserves `WalkHolds`: the best run is the earliest of those visited, the local
  times reported are the swallowed ones visited, no candidate's first instant
  (`Arrival`, which grows with local time) is later than a run found before it, and
  the walk is done only when nothing to come can be earlier.

`IsOccasion`, and `ZoneAssumption` for the run's inputs, state what the code relies on:
no repeated span is wider than the two-hour back-off, no offset larger than the day's
window, and the 4096 candidates of the loop reach past `after` and past the
transition. A five-field schedule has at most one candidate per minute, 120 of them in
the back-off, so the last holds for a transition within about two days; one further
ahead plays no part, and such a zone is one whose offsets before and after are equal.

Only model-checked: liveness under fairness (`EveryActivityResolves`,
`EveryInstanceEnds`, `FanoutEnds`, `EveryAttemptEnds`, `JournalDrains`,
`CollectorProgress`), which the prover does not reach. Every other property of a
passing run is also a theorem.

## Plan

1. `Revisions`: publish, retire, omit against live work, and the worker loop
   whose signal consumer bails at an absent revision.
2. `Start` and `CommandClaims`: dedupe of start requests and of command
   identities; transitions on a single activity's result.
3. The client-credentials cache, artifacts of activities.

## Not modelled

Metadata, planner, SQL generation, rules, templates and value contracts are pure
translations with golden tests. Connector providers are seen as the executor.
Authentication is cryptography and configuration. HTTP, GraphQL, REST, MCP, CLI,
UI, SDK and WASM keep no state of their own. The rate limiter is one counter
under one mutex. `persist_invalid` only writes an audit row. Cancellation of
instances exists in the schema but no code under `processes/` performs it. The
Process compiler beyond the horizon appears as the assumptions of `Activity`.
