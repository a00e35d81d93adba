------------------------------- MODULE Fanout -------------------------------
(***************************************************************************)
(* A bounded for-each state of a Process (crates/server/src/processes/     *)
(* transition.rs): the expansion into item rows, the slots of              *)
(* max_concurrency, the completion of items by workers of several          *)
(* replicas, and the collection that picks the next state.                 *)
(*                                                                         *)
(* The item rows of a state are written once: the compiled graph is        *)
(* acyclic.  Completing an item that is not the last one does not move the *)
(* instance's version, so the version fence alone does not tell a worker   *)
(* that its preparation is out of date.                                    *)
(*                                                                         *)
(* An item is either a Command, run inside the completing transaction, or  *)
(* a connector request, whose job the activity consumer (module Activity)  *)
(* brings to an end.  Workers belong to different replicas.                *)
(***************************************************************************)
EXTENDS Naturals, FiniteSets, FiniteSetsExt

CONSTANTS
    Workers,        \* executions of consume_one_transition
    MaxItems,       \* max_items of the state
    MaxLength,      \* bound on the length of the input list
    MaxConcurrency, \* bound on max_concurrency
    RetryCeiling,   \* TRANSITION_RETRY_MAX_ATTEMPTS
    MaxFaults       \* bound on transient failures, refusals and crashes

ASSUME FanoutAssumption ==
    /\ MaxItems \in Nat \ {0}
    /\ MaxLength \in Nat
    /\ MaxConcurrency \in Nat \ {0}
    /\ RetryCeiling \in Nat \ {0}
    /\ MaxFaults \in Nat

VARIABLES
    plan,       \* the compiled state and its input: fixed
    inst,       \* the row of process_instances
    item,       \* process_fanout_items: status of each ordinal
    outcome,    \* result_json or failure_json of each ordinal
    job,        \* the activity job of each ordinal
    token,      \* process_events: the entry, one per item, the continuation
    worker,     \* the transition each worker is inside
    faults      \* failing transitions and crashes so far

vars == <<plan, inst, item, outcome, job, token, worker, faults>>

-----------------------------------------------------------------------------
Ordinals == 1..MaxItems
Entry == 0                  \* the continue event that entered the state
Onward == MaxItems + 1      \* the continue event of the collected fan-out
Tokens == Entry..Onward

CommandOutcomes == {"ok", "refused"}
RequestOutcomes == {"ok", "routed", "unrouted", "ambiguous"}
Failures == {"refused", "routed", "unrouted", "ambiguous"}

NoToken == [status |-> "absent", version |-> 0, attempts |-> 0]
NewToken(version) == [status |-> "pending", version |-> version, attempts |-> 0]
Idle == [pc |-> "idle", token |-> Entry, version |-> 0, state |-> "fanout",
         code |-> "none"]

Plans == [activity : {"command", "request"}, length : 0..MaxLength,
          valid : BOOLEAN, concurrency : 1..MaxConcurrency]

Init ==
    /\ plan \in Plans
    /\ inst = [status |-> "running", state |-> "fanout", version |-> 0,
               code |-> "none"]
    /\ item = [n \in Ordinals |-> "absent"]
    /\ outcome = [n \in Ordinals |-> "none"]
    /\ job = [n \in Ordinals |-> "none"]
    /\ token = [t \in Tokens |-> IF t = Entry THEN NewToken(0) ELSE NoToken]
    /\ worker = [w \in Workers |-> Idle]
    /\ faults = 0

Unfinished(rows) == {n \in Ordinals : rows[n] \in {"pending", "scheduled"}}
Lowest(S) == CHOOSE n \in S : \A m \in S : n <= m

-----------------------------------------------------------------------------
(* prepare_one_transition *)

\* A worker reads a due event with the instance as it is.
Read(w, t) ==
    /\ worker[w].pc = "idle"
    /\ t \in Entry..MaxItems
    /\ token[t].status = "pending"
    /\ inst.status = "running"
    /\ worker' = [worker EXCEPT ![w] =
                     [Idle EXCEPT !.pc = "read", !.token = t,
                                  !.version = inst.version,
                                  !.state = inst.state]]
    /\ UNCHANGED <<plan, inst, item, outcome, job, token, faults>>

\* The item of an event is still scheduled, and the event is of this entry.
ItemIsScheduled(w) ==
    LET t == worker[w].token
    IN  /\ item[t] = "scheduled"
        /\ plan.activity = "command" => token[t].version = worker[w].version
        /\ plan.activity = "request" => job[t] = "done"

\* prepare_one_snapshot reads the item row on its own, after the batch.
Prepare(w) ==
    /\ worker[w].pc = "read"
    /\ worker' = [worker EXCEPT
          ![w].pc = IF worker[w].token = Entry \/ ItemIsScheduled(w)
                    THEN "prepared" ELSE "failing",
          ![w].code = IF worker[w].token = Entry \/ ItemIsScheduled(w)
                      THEN "none" ELSE "transition_preparation_failed"]
    /\ UNCHANGED <<plan, inst, item, outcome, job, token, faults>>

\* Mutation of Current: the version is compared with the event's.
CurrentByEvent(w) ==
    /\ worker[w].pc = "prepared"
    /\ token[worker[w].token].status = "pending"
    /\ inst.status = "running"
    /\ inst.version = token[worker[w].token].version
    /\ inst.state = worker[w].state

\* lock_prepared_snapshot.
Current(w) ==
    /\ worker[w].pc = "prepared"
    /\ token[worker[w].token].status = "pending"
    /\ inst.status = "running"
    /\ inst.version = worker[w].version
    /\ inst.state = worker[w].state

\* The snapshot is stale: the transaction is committed empty.
Abandon(w) ==
    /\ worker[w].pc = "prepared"
    /\ ~Current(w)
    /\ worker' = [worker EXCEPT ![w] = Idle]
    /\ UNCHANGED <<plan, inst, item, outcome, job, token, faults>>

-----------------------------------------------------------------------------
(* commit_fanout_expansion, commit_fanout_failure *)

Scheduled == Min({plan.length, plan.concurrency})

\* The events or the jobs of the items that have a slot.
Expand(w) ==
    /\ Current(w)
    /\ worker[w].token = Entry
    /\ plan.valid /\ plan.length \in 1..MaxItems
    /\ item' = [n \in Ordinals |->
                   IF n > plan.length THEN "absent"
                   ELSE IF n <= Scheduled THEN "scheduled" ELSE "pending"]
    /\ job' = [n \in Ordinals |->
                   IF plan.activity = "command" \/ n > plan.length THEN "none"
                   ELSE IF n <= Scheduled THEN "live" ELSE "parked"]
    /\ token' = [t \in Tokens |->
                   IF t = Entry THEN [token[t] EXCEPT !.status = "consumed"]
                   ELSE IF t <= Scheduled /\ plan.activity = "command"
                        THEN NewToken(worker[w].version + 1)
                        ELSE NoToken]
    /\ inst' = [inst EXCEPT !.version = @ + 1]
    /\ worker' = [worker EXCEPT ![w] = Idle]
    /\ UNCHANGED <<plan, outcome, faults>>

ExpandEmpty(w) ==
    /\ Current(w)
    /\ worker[w].token = Entry
    /\ plan.valid /\ plan.length = 0
    /\ inst' = [inst EXCEPT !.state = "next", !.version = @ + 1]
    /\ token' = [token EXCEPT ![Entry].status = "consumed",
                              ![Onward] = NewToken(inst.version + 1)]
    /\ worker' = [worker EXCEPT ![w] = Idle]
    /\ UNCHANGED <<plan, item, outcome, job, faults>>

\* Too many items, or an item without a key of its own.
ExpandInvalid(w) ==
    /\ Current(w)
    /\ worker[w].token = Entry
    /\ ~plan.valid \/ plan.length > MaxItems
    /\ inst' = [inst EXCEPT !.status = "failed", !.version = @ + 1,
                            !.code = "fanout_input"]
    /\ token' = [token EXCEPT ![Entry].status = "consumed"]
    /\ worker' = [worker EXCEPT ![w] = Idle]
    /\ UNCHANGED <<plan, item, outcome, job, faults>>

\* The activity consumer brings the job of a scheduled item to an end and
\* writes its terminal event.
RunJob(n, r) ==
    /\ job[n] = "live"
    /\ job' = [job EXCEPT ![n] = "done"]
    /\ outcome' = [outcome EXCEPT ![n] = r]
    /\ token' = [token EXCEPT ![n] = NewToken(0)]
    /\ UNCHANGED <<plan, inst, item, worker, faults>>

-----------------------------------------------------------------------------
(* commit_fanout_item_completion *)

RouteOf(o) == CASE o = "ambiguous" -> "on_ambiguous"
                [] o = "routed" -> "on_error"
                [] OTHER -> "next"

\* Mutation of Collected: the first failure keeps the route.
CollectedFirstFailure(results) ==
    LET step[n \in 0..MaxItems] ==
            IF n = 0 THEN [chosen |-> FALSE, ambiguous |-> FALSE, to |-> "next"]
            ELSE IF results[n] \in Failures /\ ~step[n - 1].chosen
                 THEN [chosen |-> TRUE, ambiguous |-> FALSE,
                       to |-> RouteOf(results[n])]
                 ELSE step[n - 1]
    IN  step[MaxItems].to

\* A failed item takes the route from none, an ambiguous one from any that is
\* not ambiguous.
Unrouted == [chosen |-> FALSE, ambiguous |-> FALSE, to |-> "next"]
Supersedes(before, o) ==
    o \in Failures /\ (before.chosen => ~before.ambiguous /\ o = "ambiguous")
Routed(before, o) ==
    IF Supersedes(before, o)
    THEN [chosen |-> TRUE, ambiguous |-> o = "ambiguous", to |-> RouteOf(o)]
    ELSE before

\* The walk over the rows in the order of their ordinals.
Collected(results) ==
    LET step[n \in 0..MaxItems] ==
            IF n = 0 THEN Unrouted ELSE Routed(step[n - 1], results[n])
    IN  step[MaxItems].to

\* Mutation of Activated: a failed item gives up its slot.
ActivatedAfterSuccess(rows, o) ==
    LET waiting == {n \in Ordinals : rows[n] = "pending"}
    IN  IF waiting = {} \/ o # "ok" THEN {} ELSE {Lowest(waiting)}

\* activate_next_fanout_item: the lowest pending ordinal, if there is one.
Activated(rows, o) ==
    LET waiting == {n \in Ordinals : rows[n] = "pending"}
    IN  IF waiting = {} THEN {} ELSE {Lowest(waiting)}

\* Mutation of Remaining: counted before the next item is activated.
RemainingScheduled(rows) == {n \in Ordinals : rows[n] = "scheduled"}

Remaining(rows) == Unfinished(rows)

\* The whole transaction for an item that ended with outcome o.
Complete(w, o) ==
    LET n     == worker[w].token
        ended == [item EXCEPT ![n] = IF o = "ok" THEN "succeeded" ELSE "failed"]
        next  == Activated(ended, o)
        last  == Remaining(ended) = {}
        to    == Collected([outcome EXCEPT ![n] = o])
    IN  /\ Current(w)
        /\ n \in Ordinals
        /\ item[n] = "scheduled"
        /\ o \in (IF plan.activity = "command" THEN CommandOutcomes
                  ELSE {outcome[n]})
        /\ item' = [m \in Ordinals |->
                       IF m \in next THEN "scheduled" ELSE ended[m]]
        /\ outcome' = [outcome EXCEPT ![n] = o]
        /\ job' = [m \in Ordinals |->
                       IF m \in next /\ plan.activity = "request"
                       THEN "live" ELSE job[m]]
        /\ token' = [t \in Tokens |->
               CASE t = n -> [token[t] EXCEPT !.status = "consumed"]
                 [] t \in next /\ plan.activity = "command" ->
                       NewToken(worker[w].version)
                 [] t = Onward /\ last -> NewToken(inst.version + 1)
                 [] OTHER -> token[t]]
        /\ inst' = IF last
                   THEN [inst EXCEPT !.state = to, !.version = @ + 1]
                   ELSE inst
        /\ worker' = [worker EXCEPT ![w] = Idle]
        /\ UNCHANGED <<plan, faults>>

-----------------------------------------------------------------------------
(* Failing transitions: defer_transition, fail_instance *)

\* A transient failure: the event steps aside with one more attempt, and at
\* the ceiling the worker goes on to fail the instance.
Defer(w) ==
    LET t == worker[w].token
    IN  /\ worker[w].pc \in {"read", "prepared"}
        /\ worker[w].pc = "prepared" => Current(w)
        /\ faults < MaxFaults
        /\ faults' = faults + 1
        /\ IF token[t].status = "pending"
           THEN /\ token' = [token EXCEPT ![t].attempts = @ + 1]
                /\ worker' = [worker EXCEPT ![w] =
                      IF token[t].attempts + 1 >= RetryCeiling
                      THEN [worker[w] EXCEPT !.pc = "failing",
                               !.code = "transition_retry_exhausted"]
                      ELSE Idle]
           ELSE /\ worker' = [worker EXCEPT ![w] = Idle]
                /\ UNCHANGED token
        /\ UNCHANGED <<plan, inst, item, outcome, job>>

\* A refusal that is not transient: a result outside its contract.
Refuse(w) ==
    /\ Current(w)
    /\ faults < MaxFaults
    /\ faults' = faults + 1
    /\ worker' = [worker EXCEPT ![w].pc = "failing",
                                ![w].code = "transition_failed"]
    /\ UNCHANGED <<plan, inst, item, outcome, job, token>>

\* Mutation of Failable: whether the event is still pending is not looked at.
FailableAnyEvent(w) == inst.status = "running" /\ inst.version = worker[w].version

\* The guarded UPDATE and consume_event: either one missing rolls both back.
Failable(w) == /\ inst.status = "running"
               /\ inst.version = worker[w].version
               /\ token[worker[w].token].status = "pending"

FailInstance(w) ==
    /\ worker[w].pc = "failing"
    /\ IF Failable(w)
       THEN /\ inst' = [inst EXCEPT !.status = "failed", !.version = @ + 1,
                                    !.code = worker[w].code]
            /\ token' = [token EXCEPT ![worker[w].token].status = "consumed"]
       ELSE UNCHANGED <<inst, token>>
    /\ worker' = [worker EXCEPT ![w] = Idle]
    /\ UNCHANGED <<plan, item, outcome, job, faults>>

\* The replica of a worker dies: nothing it had not committed remains.
Crash(w) ==
    /\ worker[w].pc # "idle"
    /\ faults < MaxFaults
    /\ faults' = faults + 1
    /\ worker' = [worker EXCEPT ![w] = Idle]
    /\ UNCHANGED <<plan, inst, item, outcome, job, token>>

-----------------------------------------------------------------------------
Work(w) ==
    \/ \E t \in Tokens : Read(w, t)
    \/ Prepare(w)
    \/ Abandon(w)
    \/ Expand(w)
    \/ ExpandEmpty(w)
    \/ ExpandInvalid(w)
    \/ \E o \in CommandOutcomes \cup RequestOutcomes : Complete(w, o)
    \/ FailInstance(w)

Activities == \E n \in Ordinals, r \in RequestOutcomes : RunJob(n, r)

\* Nothing is left to do here: the instance has failed or gone on.
Done == /\ inst.status = "failed" \/ inst.state # "fanout"
        /\ \A w \in Workers : worker[w].pc = "idle"
        /\ \A n \in Ordinals : job[n] # "live"
        /\ UNCHANGED vars

Next ==
    \/ \E w \in Workers : Work(w)
    \/ Activities
    \/ \E w \in Workers : Defer(w)
    \/ \E w \in Workers : Refuse(w)
    \/ \E w \in Workers : Crash(w)
    \/ Done

\* The worker loops run for ever, and so does the activity consumer.
Fairness == /\ \A w \in Workers : WF_vars(Work(w))
            /\ WF_vars(Activities)

Spec == Init /\ [][Next]_vars /\ Fairness

-----------------------------------------------------------------------------
Codes == {"none", "fanout_input", "transition_preparation_failed",
          "transition_retry_exhausted", "transition_failed"}
States == {"fanout", "next", "on_error", "on_ambiguous"}
InstanceRow == [status : {"running", "failed"}, state : States,
                version : 0..3, code : Codes]
EventRow == [status : {"absent", "pending", "consumed"}, version : 0..2,
             attempts : 0..MaxFaults]
Transition == [pc : {"idle", "read", "prepared", "failing"},
               token : Entry..MaxItems, version : 0..2, state : States,
               code : Codes]

\* The rows and the workers hold what the columns and the code allow: versions
\* move at most three times, and a retry is counted once per transient failure.
TypeOK ==
    /\ plan \in Plans
    /\ inst \in InstanceRow
    /\ item \in [Ordinals -> {"absent", "pending", "scheduled", "succeeded",
                              "failed"}]
    /\ outcome \in [Ordinals -> Failures \cup {"none", "ok"}]
    /\ job \in [Ordinals -> {"none", "parked", "live", "done"}]
    /\ token \in [Tokens -> EventRow]
    /\ worker \in [Workers -> Transition]
    /\ faults \in 0..MaxFaults

Open == inst.status = "running" /\ inst.state = "fanout" /\ inst.version > 0

\* What brings an item on: its event, or its job that can be claimed.
Live(n) == {k \in {"event", "job"} :
               \/ k = "event" /\ token[n].status = "pending"
               \/ k = "job" /\ job[n] = "live"}

\* An item that holds a slot has exactly one thing that will finish it, an item
\* without a slot has none, and events are of this entry of the state.
OneTokenPerSlot ==
    \A n \in Ordinals :
        /\ item[n] = "scheduled" => Cardinality(Live(n)) = 1
        /\ item[n] # "scheduled" => Live(n) = {}
        /\ token[n].status = "pending" /\ plan.activity = "command"
              => token[n].version = inst.version

\* Completions that race for the next slot (activate_next_fanout_item) neither
\* lose one nor open one too many: in every state as many items are scheduled
\* as max_concurrency and the unfinished items allow, and each of them has
\* exactly one event or claimable job, so that none is stuck or started early.
SlotsFull ==
    Open => /\ Cardinality({n \in Ordinals : item[n] = "scheduled"})
                 = Min({plan.concurrency, Cardinality(Unfinished(item))})
            /\ OneTokenPerSlot

\* The state is left only when every item of the input has ended, whichever
\* worker counted the last one (the count of unfinished rows).
CollectedWhole ==
    inst.status = "running" /\ inst.state # "fanout" =>
        {n \in Ordinals : item[n] \in {"succeeded", "failed"}}
           = 1..plan.length

\* "the destination stays a function of the item journal's order": whatever
\* the order in which items ended, an ambiguous item sends the instance to
\* on_ambiguous, and otherwise the failed item of the lowest ordinal decides.
RouteByOrder ==
    inst.status = "running" /\ inst.state # "fanout" =>
        LET failed == {n \in Ordinals : item[n] = "failed"}
        IN  inst.state =
               IF \E n \in failed : outcome[n] = "ambiguous"
               THEN "on_ambiguous"
               ELSE IF failed = {} THEN "next"
               ELSE RouteOf(outcome[Lowest(failed)])

\* A worker that finds "no scheduled item" has only lost a race, because the
\* version does not move between two items; that reading never becomes the
\* failure of a healthy instance (consume_event inside fail_instance).
NoRaceFails == inst.code # "transition_preparation_failed"

\* The fan-out comes to an end: the instance goes on or fails, through any
\* interleaving of workers and any bounded number of faults.
FanoutEnds == <>(inst.status = "failed" \/ inst.state # "fanout")

=============================================================================
