-------------------------- MODULE SignalWaitProofs --------------------------
(***************************************************************************)
(* Proofs about the durable signal wait, for any number of instances,      *)
(* requests, consumers and workers, any clock and any number of faults.    *)
(***************************************************************************)
EXTENDS SignalWait, FiniteSetTheorems, TLAPS

-----------------------------------------------------------------------------
(* What holds of every wait *)

\* Events are no newer than their instance, are due at their time until they are
\* deferred, and a signal's event stands for a consumed request.
EventSound(e) ==
    /\ inst[e.inst].status # "absent" /\ e.version <= inst[e.inst].version
    /\ e.attempts = 0 => e.available = e.deadline
    /\ e.kind # "signal" => e.request = None
    /\ e.kind = "signal" => /\ e.request \in Requests
                            /\ request[e.request].status = "consumed"
                            /\ e.deadline = request[e.request].created

Decisions == {"consumed", "ambiguous", "unmatched", "unexpected_state"}

\* A consumer holds a pending request of whose key none is delivered, and once
\* it has its locks, the waiting instances it locked.
ConsumerSound(c) ==
    /\ consumer[c].pc = "idle" <=> consumer[c].request = None
    /\ consumer[c].pc # "idle" =>
          /\ request[consumer[c].request].status = "pending"
          /\ \A q \in Requests : Key[q] = Key[consumer[c].request]
                                    => request[q].status # "consumed"
    /\ consumer[c].pc # "locked" => consumer[c].locks = {} /\ consumer[c].target = None
    /\ consumer[c].pc = "locked" =>
          /\ consumer[c].outcome \in Decisions
          /\ consumer[c].locks \subseteq Candidates
          /\ consumer[c].target = None <=> consumer[c].outcome # "consumed"
          /\ consumer[c].target # None => consumer[c].target \in consumer[c].locks

\* The advisory lock: no two consumers at one key.
KeysApart ==
    \A c, d \in Consumers :
        /\ consumer[c].pc # "idle" /\ consumer[d].pc # "idle"
        /\ Key[consumer[c].request] = Key[consumer[d].request]
        => c = d

\* The row locks: no instance is held by an open transition and by a consumer.
LocksApart ==
    \A w \in Workers, c \in Consumers :
        worker[w].pc = "locked" => worker[w].event[2] \notin consumer[c].locks

NeverDeferred == \A e \in events : e.attempts = 0

SignalInv ==
    /\ TypeOK
    /\ \A e \in events : EventSound(e)
    /\ \A c \in Consumers : ConsumerSound(c)
    /\ KeysApart
    /\ OneDeliveryPerKey

-----------------------------------------------------------------------------
(* What holds of a wait that is entered once *)

\* No wait leads back to a wait: AfterWait is {"output"} at the version a wait
\* completes from.
EnteredOnce == MaxVersion <= 2

\* The version tells where the instance is.
PhaseSound(i) ==
    /\ inst[i].status = "absent" => inst[i].version = 0 /\ inst[i].state = "work"
    /\ inst[i].status = "running" =>
          \/ inst[i].version = 0 /\ inst[i].state = "work"
          \/ inst[i].version \in {1, 2} /\ inst[i].state = "wait"
          \/ inst[i].version = 3 /\ inst[i].state = "output"

\* t is the timer of the wait of i.
IsTimer(t, i) == t \in events /\ t.kind = "timer" /\ t.inst = i /\ t.version = 2

\* A request suits the wait of i.
Suits(r, i) ==
    \E t \in events :
        /\ IsTimer(t, i)
        /\ Persist \/ t.created <= request[r].created
        /\ t.attempts = 0 => request[r].created <= t.deadline

KindSound(e) ==
    /\ e.kind = "continue" => e.version \in {0, 1, 3}
    /\ e.kind = "timer" => e.version = 2
    /\ e.kind = "signal" => e.version = 2 /\ Suits(e.request, e.inst)

\* What is due of a running instance is of its version, and something is that
\* moves it on.
DueSound(i) ==
    inst[i].status = "running" =>
        /\ \A e \in Pending : e.inst = i => e.version = inst[i].version
        /\ \E e \in Pending : /\ e.inst = i /\ e.kind # "signal"
                              /\ e.version = inst[i].version

\* A marker in a consumer's snapshot is that of the one timer, unless deferred.
MarkerSound(c) ==
    /\ consumer[c].pc = "read" =>
          \A i \in DOMAIN consumer[c].seen :
              consumer[c].seen[i] # None =>
                  \E t \in events :
                      /\ IsTimer(t, i)
                      /\ consumer[c].seen[i].created = t.created
                      /\ t.attempts = 0 => consumer[c].seen[i].available = t.deadline
    /\ consumer[c].pc = "locked" /\ consumer[c].target # None =>
          Suits(consumer[c].request, consumer[c].target)

OnceInv ==
    /\ \A i \in Instances : PhaseSound(i)
    /\ \A e \in events : KindSound(e)
    /\ \A i \in Instances : DueSound(i)
    /\ \A c \in Consumers : MarkerSound(c)
-----------------------------------------------------------------------------
(* Identities and rewriting of events *)

LEMMA IdIsFields ==
    ASSUME NEW e, NEW f
    PROVE  Id(e) = Id(f) <=> /\ e.kind = f.kind /\ e.inst = f.inst
                             /\ e.version = f.version /\ e.request = f.request
BY DEF Id

\* m is the row of the event c after an update.
Moved(c, m) ==
    /\ m \in EventType
    /\ m.kind = c.kind /\ m.inst = c.inst /\ m.version = c.version /\ m.request = c.request
    /\ m.created = c.created /\ m.deadline = c.deadline
    /\ m.attempts = 0 => c.attempts = 0 /\ m.available = c.available

\* The events C are updated to M, and at most one, F, is inserted.
Rewritten(C, M, F) ==
    /\ C \subseteq events
    /\ \A m \in M : \E c \in C : Moved(c, m)
    /\ \A c \in C : \E m \in M : Moved(c, m)
    /\ \A m, n \in M : Id(m) = Id(n) => m = n
    /\ F \subseteq EventType
    /\ \A f, g \in F : f = g
    /\ \A f \in F, e \in events : Id(e) # Id(f)
    /\ events' = (events \ C) \cup M \cup F

LEMMA Rewriting ==
    ASSUME SignalInv, NEW C, NEW M, NEW F, Rewritten(C, M, F),
           \A i \in Instances : /\ inst'[i].version \in Nat
                                /\ inst[i].version <= inst'[i].version
                                /\ inst[i].status # "absent" => inst'[i].status # "absent",
           \A r \in Requests : request[r].status = "consumed" => request'[r] = request[r],
           \A f \in F : EventSound(f)'
    PROVE  /\ events' \subseteq EventType
           /\ \A e, f \in events' : Id(e) = Id(f) => e = f
           /\ \A e \in events : \E f \in events' : Id(f) = Id(e)
           /\ \A e \in events' : EventSound(e)'
<1>1. /\ events \subseteq EventType
      /\ \A e, f \in events : Id(e) = Id(f) => e = f
      /\ \A e \in events : EventSound(e)
      /\ inst \in [Instances -> InstanceRow]
  BY DEF SignalInv, TypeOK
<1>2. \A m \in M : \E c \in events : c \in C /\ Moved(c, m) /\ Id(m) = Id(c)
  BY IdIsFields DEF Rewritten, Moved
<1>3. events' = (events \ C) \cup M \cup F
  BY DEF Rewritten
<1>4. events' \subseteq EventType
  <2>1. \A m \in M : m \in EventType
    BY DEF Rewritten, Moved
  <2> QED
    BY <1>1, <1>3, <2>1 DEF Rewritten
<1>5. ASSUME NEW e \in events', NEW f \in events', Id(e) = Id(f) PROVE e = f
  <2>1. CASE e \in F
    <3>1. f \in F
      BY <1>2, <1>3, <1>5, <2>1 DEF Rewritten
    <3> QED
      BY <2>1, <3>1 DEF Rewritten
  <2>2. CASE f \in F
    <3>1. e \in F
      BY <1>2, <1>3, <1>5, <2>2 DEF Rewritten
    <3> QED
      BY <2>2, <3>1 DEF Rewritten
  <2>3. CASE e \in M /\ f \in M
    BY <1>5, <2>3 DEF Rewritten
  <2>4. CASE e \in M /\ f \in events \ C
    <3>1. PICK c \in events : c \in C /\ Id(e) = Id(c)
      BY <1>2, <2>4
    <3>2. f = c
      BY <1>1, <1>5, <2>4, <3>1
    <3> QED
      BY <2>4, <3>1, <3>2
  <2>5. CASE f \in M /\ e \in events \ C
    <3>1. PICK c \in events : c \in C /\ Id(f) = Id(c)
      BY <1>2, <2>5
    <3>2. e = c
      BY <1>1, <1>5, <2>5, <3>1
    <3> QED
      BY <2>5, <3>1, <3>2
  <2>6. CASE e \in events \ C /\ f \in events \ C
    BY <1>1, <1>5, <2>6
  <2> QED
    BY <1>3, <2>1, <2>2, <2>3, <2>4, <2>5, <2>6
<1>6. ASSUME NEW e \in events PROVE \E f \in events' : Id(f) = Id(e)
  <2>1. CASE e \in C
    <3>1. PICK m \in M : Moved(e, m)
      BY <2>1 DEF Rewritten
    <3>2. Id(m) = Id(e)
      BY <3>1, IdIsFields DEF Moved
    <3> QED
      BY <1>3, <3>2
  <2>2. CASE e \notin C
    BY <1>3, <2>2
  <2> QED
    BY <2>1, <2>2
<1>7. ASSUME NEW e \in events, NEW m, Moved(e, m) PROVE EventSound(m)'
  <2>1. EventSound(e) /\ e.inst \in Instances /\ e.version \in Nat
    BY <1>1 DEF EventType
  <2>2. /\ m.kind = e.kind /\ m.inst = e.inst /\ m.version = e.version /\ m.request = e.request
        /\ m.deadline = e.deadline
        /\ m.attempts = 0 => e.attempts = 0 /\ m.available = e.available
    BY <1>7 DEF Moved
  <2>3. PICK i \in Instances : i = e.inst
    BY <2>1
  <2>4. /\ inst[i].version \in Nat /\ inst'[i].version \in Nat
        /\ inst[i].version <= inst'[i].version
        /\ inst[i].status # "absent" => inst'[i].status # "absent"
    BY <1>1 DEF InstanceRow
  <2>5. inst'[i].status # "absent" /\ e.version <= inst'[i].version
    BY <2>1, <2>3, <2>4 DEF EventSound
  <2>6. e.kind = "signal" => /\ e.request \in Requests
                             /\ request'[e.request] = request[e.request]
    BY <2>1 DEF EventSound
  <2> QED
    BY <2>1, <2>2, <2>3, <2>5, <2>6 DEF EventSound
<1>8. \A e \in events' : EventSound(e)'
  <2>1. ASSUME NEW e \in events PROVE EventSound(e)'
    <3>1. Moved(e, e)
      BY <1>1 DEF Moved
    <3> QED
      BY <1>7, <3>1
  <2>2. \A m \in M : EventSound(m)'
    BY <1>2, <1>7
  <2> QED
    BY <1>3, <2>1, <2>2
<1> QED
  BY <1>4, <1>5, <1>6, <1>8

-----------------------------------------------------------------------------
(* Steps that leave the consumers alone *)

\* The row locks of the consumers hold: a locked instance does not move.
LEMMA ConsumersStay ==
    ASSUME SignalInv, UNCHANGED consumer,
           \A r \in Requests : /\ request[r].status = "pending" => request'[r].status = "pending"
                               /\ request'[r].status = "consumed" => request[r].status = "consumed",
           \A i \in Instances : ConsumerLocks(i) => inst'[i] = inst[i]
    PROVE  (\A c \in Consumers : ConsumerSound(c)') /\ KeysApart' /\ OneDeliveryPerKey'
<1>1. consumer \in [Consumers -> SignalTx]
  BY DEF SignalInv, TypeOK
<1>2. ASSUME NEW c \in Consumers PROVE ConsumerSound(c)'
  <2>1. ConsumerSound(c) /\ consumer'[c] = consumer[c]
    BY DEF SignalInv
  <2>2. consumer[c].request \in Requests \cup {None} /\ consumer[c].locks \subseteq Instances
    BY <1>1 DEF SignalTx
  <2>3. \A i \in consumer[c].locks : inst'[i] = inst[i]
    BY <2>2 DEF ConsumerLocks
  <2>4. consumer[c].locks \subseteq Candidates => consumer[c].locks \subseteq Candidates'
    BY <2>2, <2>3 DEF Candidates
  <2>5. consumer[c].pc # "idle" =>
          /\ request'[consumer[c].request].status = "pending"
          /\ \A q \in Requests : Key[q] = Key[consumer[c].request]
                                    => request'[q].status # "consumed"
    BY <2>1, <2>2 DEF ConsumerSound
  <2> QED
    BY <2>1, <2>4, <2>5 DEF ConsumerSound
<1>3. KeysApart'
  BY DEF SignalInv, KeysApart
<1>4. OneDeliveryPerKey'
  BY DEF SignalInv, OneDeliveryPerKey
<1> QED
  BY <1>2, <1>3, <1>4

LEMMA WorkerStep ==
    ASSUME SignalInv, NEW C, NEW M, NEW F, Rewritten(C, M, F),
           \A f \in F : EventSound(f)',
           now' \in Times, faults' \in 0..MaxFaults,
           inst' \in [Instances -> InstanceRow],
           \A i \in Instances : /\ inst[i].version <= inst'[i].version
                                /\ inst[i].status # "absent" => inst'[i].status # "absent"
                                /\ ConsumerLocks(i) => inst'[i] = inst[i],
           request' \in [Requests -> RequestRow],
           \A r \in Requests : /\ request[r].status = "pending" => request'[r].status = "pending"
                               /\ request'[r].status = "consumed" => request[r].status = "consumed"
                               /\ request[r].status = "consumed" => request'[r] = request[r],
           UNCHANGED consumer,
           worker' \in [Workers -> Prepared],
           \A w \in Workers : worker'[w].pc # "idle" =>
               \E e \in events : Id(e) = worker'[w].event
    PROVE  SignalInv'
<1>1. \A i \in Instances : /\ inst'[i].version \in Nat
                           /\ inst[i].version <= inst'[i].version
                           /\ inst[i].status # "absent" => inst'[i].status # "absent"
  BY DEF InstanceRow
<1>2. /\ events' \subseteq EventType
      /\ \A e, f \in events' : Id(e) = Id(f) => e = f
      /\ \A e \in events : \E f \in events' : Id(f) = Id(e)
      /\ \A e \in events' : EventSound(e)'
  BY <1>1, Rewriting
<1>3. (\A c \in Consumers : ConsumerSound(c)') /\ KeysApart' /\ OneDeliveryPerKey'
  BY ConsumersStay
<1>4. \A w \in Workers : worker'[w].pc # "idle" => \E e \in events' : Id(e) = worker'[w].event
  BY <1>2
<1>5. TypeOK'
  BY <1>2, <1>4 DEF SignalInv, TypeOK
<1> QED
  BY <1>2, <1>3, <1>5 DEF SignalInv

LEMMA Unmoved ==
    ASSUME UNCHANGED events
    PROVE  Rewritten({}, {}, {})
BY DEF Rewritten

\* One worker gets p.
LEMMA WorkerGets ==
    ASSUME SignalInv, NEW w \in Workers, NEW p \in Prepared,
           worker' = [worker EXCEPT ![w] = p],
           p.pc # "idle" => \E e \in events : Id(e) = p.event
    PROVE  /\ worker' \in [Workers -> Prepared]
           /\ \A x \in Workers : worker'[x].pc # "idle" =>
                 \E e \in events : Id(e) = worker'[x].event
<1>1. /\ worker \in [Workers -> Prepared]
      /\ \A x \in Workers : worker[x].pc # "idle" => \E e \in events : Id(e) = worker[x].event
  BY DEF SignalInv, TypeOK
<1>2. \A x \in Workers : worker'[x] = IF x = w THEN p ELSE worker[x]
  BY <1>1
<1> QED
  BY <1>1, <1>2

LEMMA NoTransitionFits == NoTransition \in Prepared /\ NoTransition.pc = "idle"
BY DEF NoTransition, Prepared, States

\* The event of a busy worker.
LEMMA PreparedFacts ==
    ASSUME SignalInv, NEW w \in Workers, worker[w].pc # "idle"
    PROVE  /\ PreparedEvent(w) \in events /\ PreparedEvent(w) \in EventType
           /\ Id(PreparedEvent(w)) = worker[w].event
           /\ InstanceOf(w) = PreparedEvent(w).inst /\ InstanceOf(w) \in Instances
           /\ EventSound(PreparedEvent(w))
           /\ worker[w] \in Prepared
<1>1. \E e \in events : Id(e) = worker[w].event
  BY DEF SignalInv, TypeOK
<1>2. Event(worker[w].event) \in events /\ Id(Event(worker[w].event)) = worker[w].event
  BY <1>1 DEF Event
<1>3. PreparedEvent(w) \in EventType
  BY <1>2 DEF PreparedEvent, SignalInv, TypeOK
<1> QED
  BY <1>2, <1>3 DEF PreparedEvent, InstanceOf, EventType, SignalInv, TypeOK

LEMMA Numbers ==
    /\ MaxFaults \in Nat /\ MaxTime \in Nat /\ MaxVersion \in Nat /\ RetryCeiling \in Nat
    /\ Times \subseteq Nat /\ 0 \in Times /\ None \notin Instances /\ None \notin Requests
BY SignalWaitAssumption DEF Times

\* A step that moves neither events nor instances nor requests.
LEMMA QuietStep ==
    ASSUME SignalInv, UNCHANGED <<inst, events, request, consumer>>,
           now' \in Times, faults' \in 0..MaxFaults,
           worker' \in [Workers -> Prepared],
           \A w \in Workers : worker'[w].pc # "idle" =>
               \E e \in events : Id(e) = worker'[w].event
    PROVE  SignalInv'
<1>1. Rewritten({}, {}, {})
  BY Unmoved
<1>2. /\ inst' \in [Instances -> InstanceRow] /\ request' \in [Requests -> RequestRow]
  BY DEF SignalInv, TypeOK
<1>3. \A i \in Instances : inst[i].version <= inst'[i].version
  BY <1>2 DEF InstanceRow
<1>4. \A r \in Requests : request'[r] = request[r]
  OBVIOUS
<1>5. \A i \in Instances : inst'[i] = inst[i]
  OBVIOUS
<1> QED
  BY <1>1, <1>2, <1>3, <1>4, <1>5, WorkerStep

LEMMA TickKeeps ==
    ASSUME SignalInv, Tick
    PROVE  SignalInv'
<1>1. now' \in Times
  BY Numbers DEF Tick, SignalInv, TypeOK, Times
<1>2. /\ faults' \in 0..MaxFaults /\ worker' \in [Workers -> Prepared]
      /\ \A w \in Workers : worker'[w].pc # "idle" =>
               \E e \in events : Id(e) = worker'[w].event
  BY DEF Tick, SignalInv, TypeOK
<1> QED
  BY <1>1, <1>2, QuietStep DEF Tick

LEMMA GoesIdle ==
    ASSUME SignalInv, UNCHANGED <<now, inst, events, request, consumer>>,
           faults' \in 0..MaxFaults, NEW w \in Workers,
           worker' = [worker EXCEPT ![w] = NoTransition]
    PROVE  SignalInv'
<1>1. /\ worker' \in [Workers -> Prepared]
      /\ \A x \in Workers : worker'[x].pc # "idle" =>
               \E e \in events : Id(e) = worker'[x].event
  BY WorkerGets, NoTransitionFits
<1>2. now' \in Times
  BY DEF SignalInv, TypeOK
<1> QED
  BY <1>1, <1>2, QuietStep

LEMMA PrepareKeeps ==
    ASSUME SignalInv, NEW w \in Workers, NEW e \in events, Prepare(w, e)
    PROVE  SignalInv'
<1>1. e \in EventType /\ inst \in [Instances -> InstanceRow]
  BY DEF SignalInv, TypeOK
<1>2. PICK p : p = Snapshot(e)
  OBVIOUS
<1>3. Id(e) \in Identities /\ e.inst \in Instances
  BY <1>1 DEF Id, Identities, EventType
<1>4. p \in Prepared /\ p.event = Id(e)
  <2>1. inst[e.inst].version \in Nat /\ inst[e.inst].state \in States
    BY <1>1, <1>3 DEF InstanceRow
  <2> QED
    BY <1>2, <1>3, <2>1 DEF Snapshot, Prepared
<1>5. worker' = [worker EXCEPT ![w] = p]
  BY <1>2 DEF Prepare
<1>6. /\ worker' \in [Workers -> Prepared]
      /\ \A x \in Workers : worker'[x].pc # "idle" =>
               \E f \in events : Id(f) = worker'[x].event
  BY <1>4, <1>5, WorkerGets
<1>7. now' \in Times /\ faults' \in 0..MaxFaults
  BY DEF Prepare, SignalInv, TypeOK
<1> QED
  BY <1>6, <1>7, QuietStep DEF Prepare

LEMMA AbandonKeeps ==
    ASSUME SignalInv, NEW w \in Workers, Abandon(w)
    PROVE  SignalInv'
<1>1. faults' \in 0..MaxFaults
  BY DEF Abandon, SignalInv, TypeOK
<1> QED
  BY <1>1, GoesIdle DEF Abandon

LEMMA CrashWorkerKeeps ==
    ASSUME SignalInv, NEW w \in Workers, CrashWorker(w)
    PROVE  SignalInv'
<1>1. faults' \in 0..MaxFaults
  BY Numbers DEF CrashWorker, SignalInv, TypeOK
<1> QED
  BY <1>1, GoesIdle DEF CrashWorker

LEMMA OpenTransitionKeeps ==
    ASSUME SignalInv, NEW w \in Workers, OpenTransition(w)
    PROVE  SignalInv'
<1>1. worker' = [worker EXCEPT ![w].pc = "locked"]
  BY DEF OpenTransition
<1>2. PICK p : p = [worker[w] EXCEPT !.pc = "locked"]
  OBVIOUS
<1>3. worker \in [Workers -> Prepared] /\ worker[w] \in Prepared
      /\ \E e \in events : Id(e) = worker[w].event
  BY DEF OpenTransition, SignalInv, TypeOK
<1>4. p \in Prepared /\ p.event = worker[w].event
  BY <1>2, <1>3 DEF Prepared
<1>5. worker' = [worker EXCEPT ![w] = p]
  BY <1>1, <1>2, <1>3
<1>6. /\ worker' \in [Workers -> Prepared]
      /\ \A x \in Workers : worker'[x].pc # "idle" =>
               \E f \in events : Id(f) = worker'[x].event
  BY <1>3, <1>4, <1>5, WorkerGets
<1>7. now' \in Times /\ faults' \in 0..MaxFaults
  BY Numbers DEF OpenTransition, SignalInv, TypeOK
<1> QED
  BY <1>6, <1>7, QuietStep DEF OpenTransition

LEMMA FaultKeeps ==
    ASSUME SignalInv, NEW w \in Workers, Fault(w)
    PROVE  SignalInv'
<1>1. PICK pc \in {"deferring", "failing"} : worker' = [worker EXCEPT ![w].pc = pc]
  BY DEF Fault
<1>2. PICK p : p = [worker[w] EXCEPT !.pc = pc]
  OBVIOUS
<1>3. worker \in [Workers -> Prepared] /\ worker[w] \in Prepared
      /\ \E e \in events : Id(e) = worker[w].event
  BY DEF Fault, SignalInv, TypeOK
<1>4. p \in Prepared /\ p.event = worker[w].event
  BY <1>2, <1>3 DEF Prepared
<1>5. worker' = [worker EXCEPT ![w] = p]
  BY <1>1, <1>2, <1>3
<1>6. /\ worker' \in [Workers -> Prepared]
      /\ \A x \in Workers : worker'[x].pc # "idle" =>
               \E f \in events : Id(f) = worker'[x].event
  BY <1>3, <1>4, <1>5, WorkerGets
<1>7. now' \in Times /\ faults' \in 0..MaxFaults
  BY Numbers DEF Fault, SignalInv, TypeOK
<1> QED
  BY <1>6, <1>7, QuietStep DEF Fault

-----------------------------------------------------------------------------
(* The steps that apply an event *)

LEMMA ClosedMoves ==
    ASSUME NEW e \in EventType, NEW status \in {"pending", "consumed", "failed"}
    PROVE  Moved(e, Closed(e, status)) /\ Closed(e, status).status = status
BY DEF Moved, Closed, EventType

LEMMA InstanceMoves ==
    ASSUME SignalInv, NEW i \in Instances, NEW x \in InstanceRow, ~ConsumerLocks(i),
           inst' = [inst EXCEPT ![i] = x], inst[i].version <= x.version, x.status # "absent"
    PROVE  /\ inst' \in [Instances -> InstanceRow]
           /\ \A j \in Instances : /\ inst[j].version <= inst'[j].version
                                   /\ inst[j].status # "absent" => inst'[j].status # "absent"
                                   /\ ConsumerLocks(j) => inst'[j] = inst[j]
<1>1. inst \in [Instances -> InstanceRow]
  BY DEF SignalInv, TypeOK
<1>2. \A j \in Instances : inst'[j] = IF j = i THEN x ELSE inst[j]
  BY <1>1
<1>3. \A j \in Instances : inst[j].version \in Nat
  BY <1>1 DEF InstanceRow
<1> QED
  BY <1>1, <1>2, <1>3

\* The events C are updated to M.
Updates(C, M) ==
    /\ C \subseteq events
    /\ \A m \in M : \E c \in C : Moved(c, m)
    /\ \A c \in C : \E m \in M : Moved(c, m)
    /\ \A m, n \in M : Id(m) = Id(n) => m = n

\* F holds at most one event, of the next version of i.
Opens(F, i) ==
    /\ F \subseteq EventType
    /\ \A f, g \in F : f = g
    /\ \A f \in F : /\ f.inst = i /\ f.version = inst[i].version + 1
                    /\ f.available = f.deadline /\ f.kind # "signal" /\ f.request = None

\* Requests stay pending and delivered ones stay as they are.
RequestsKept ==
    /\ request' \in [Requests -> RequestRow]
    /\ \A r \in Requests : /\ request[r].status = "pending" => request'[r].status = "pending"
                           /\ request'[r].status = "consumed" => request[r].status = "consumed"
                           /\ request[r].status = "consumed" => request'[r] = request[r]

\* An instance moves to its next version: the events C are updated, and F
\* inserted for the new version.
LEMMA Applied ==
    ASSUME SignalInv, NEW w \in Workers, NEW i \in Instances, ~ConsumerLocks(i),
           NEW x \in InstanceRow, x.version = inst[i].version + 1, x.status # "absent",
           inst' = [inst EXCEPT ![i] = x],
           NEW C, NEW M, NEW F, Updates(C, M), Opens(F, i),
           events' = (events \ C) \cup M \cup F,
           UNCHANGED <<now, consumer, faults>>,
           RequestsKept, worker' = [worker EXCEPT ![w] = NoTransition]
    PROVE  SignalInv'
<1>1. inst \in [Instances -> InstanceRow] /\ inst[i].version \in Nat
  BY DEF SignalInv, TypeOK, InstanceRow
<1>2. inst'[i] = x
  BY <1>1
<1>3. \A f \in F : EventSound(f)'
  <2>1. inst[i].version + 1 <= x.version
    BY <1>1
  <2> QED
    BY <1>1, <1>2, <2>1 DEF EventSound, Opens
<1>4. \A f \in F, e \in events : Id(e) # Id(f)
  <2>1. ASSUME NEW f \in F, NEW e \in events, Id(e) = Id(f) PROVE FALSE
    <3>1. e.inst = i /\ e.version = inst[i].version + 1
      BY <2>1, IdIsFields DEF Opens
    <3>2. e.version <= inst[e.inst].version
      BY DEF SignalInv, EventSound
    <3> QED
      BY <1>1, <3>1, <3>2
  <2> QED
    BY <2>1
<1>5. Rewritten(C, M, F)
  BY <1>4 DEF Rewritten, Updates, Opens
<1>6. /\ inst' \in [Instances -> InstanceRow]
      /\ \A j \in Instances : /\ inst[j].version <= inst'[j].version
                              /\ inst[j].status # "absent" => inst'[j].status # "absent"
                              /\ ConsumerLocks(j) => inst'[j] = inst[j]
  <2>1. inst[i].version <= x.version
    BY <1>1
  <2> QED
    BY <2>1, InstanceMoves
<1>7. /\ worker' \in [Workers -> Prepared]
      /\ \A y \in Workers : worker'[y].pc # "idle" =>
               \E e \in events : Id(e) = worker'[y].event
  BY WorkerGets, NoTransitionFits
<1>8. now' \in Times /\ faults' \in 0..MaxFaults
  BY DEF SignalInv, TypeOK
<1> QED
  BY <1>3, <1>5, <1>6, <1>7, <1>8, WorkerStep DEF RequestsKept

\* The same with one event that is consumed, and nothing else of note.
LEMMA AppliedOne ==
    ASSUME SignalInv, NEW w \in Workers, NEW e \in events, NEW i \in Instances,
           i = e.inst, ~ConsumerLocks(i),
           NEW x \in InstanceRow, x.version = inst[i].version + 1, x.status # "absent",
           inst' = [inst EXCEPT ![i] = x],
           NEW F, Opens(F, i),
           events' = (events \ {e}) \cup {Closed(e, "consumed")} \cup F,
           UNCHANGED <<now, consumer, faults>>,
           RequestsKept, worker' = [worker EXCEPT ![w] = NoTransition]
    PROVE  SignalInv'
<1>1. PICK C, M : C = {e} /\ M = {Closed(e, "consumed")}
  OBVIOUS
<1>2. e \in EventType
  BY DEF SignalInv, TypeOK
<1>3. Moved(e, Closed(e, "consumed"))
  BY <1>2, ClosedMoves
<1>4. Updates(C, M) /\ events' = (events \ C) \cup M \cup F
  BY <1>1, <1>3 DEF Updates
<1> QED
  BY <1>4, Applied

LEMMA ContinueFits ==
    ASSUME SignalInv, NEW i \in Instances, NEW v \in Nat, NEW at \in Times
    PROVE  LET f == ContinueEvent(i, v, at)
           IN  /\ f \in EventType /\ f.inst = i /\ f.version = v /\ f.available = f.deadline
               /\ f.kind = "continue" /\ f.request = None /\ f.attempts = 0
               /\ f.status = "pending"
BY DEF ContinueEvent, EventType

LEMMA TimerFits ==
    ASSUME SignalInv, NEW i \in Instances, NEW v \in Nat, NEW at \in Times
    PROVE  LET f == TimerEvent(i, v, at)
           IN  /\ f \in EventType /\ f.inst = i /\ f.version = v /\ f.available = f.deadline
               /\ f.kind = "timer" /\ f.request = None /\ f.attempts = 0
               /\ f.status = "pending" /\ f.created = now /\ f.deadline = at
BY DEF TimerEvent, EventType, SignalInv, TypeOK

LEMMA ApplyFacts ==
    ASSUME SignalInv, NEW w \in Workers, Applies(w)
    PROVE  /\ PreparedEvent(w) \in events /\ PreparedEvent(w) \in EventType
           /\ PreparedEvent(w).inst \in Instances
           /\ PreparedEvent(w).status = "pending"
           /\ inst[PreparedEvent(w).inst].status = "running"
           /\ inst[PreparedEvent(w).inst].state = worker[w].state
           /\ inst[PreparedEvent(w).inst].version \in Nat
           /\ inst[PreparedEvent(w).inst].version + 1 \in Nat
           /\ inst \in [Instances -> InstanceRow] /\ request \in [Requests -> RequestRow]
           /\ now \in Times
<1>1. worker[w].pc # "idle" /\ Fenced(w)
  BY DEF Applies
<1>2. /\ PreparedEvent(w) \in events /\ PreparedEvent(w) \in EventType
      /\ InstanceOf(w) = PreparedEvent(w).inst /\ InstanceOf(w) \in Instances
  BY <1>1, PreparedFacts
<1>3. inst \in [Instances -> InstanceRow] /\ request \in [Requests -> RequestRow] /\ now \in Times
  BY DEF SignalInv, TypeOK
<1>4. inst[InstanceOf(w)].version \in Nat
  BY <1>2, <1>3 DEF InstanceRow
<1> QED
  BY <1>1, <1>2, <1>3, <1>4 DEF Fenced

\* A worker that applies its event holds its instance.
LEMMA AppliesFree ==
    ASSUME SignalInv, LocksApart, NEW w \in Workers, Applies(w)
    PROVE  ~ConsumerLocks(PreparedEvent(w).inst)
<1>1. worker[w].pc = "locked"
  BY DEF Applies
<1>2. Id(PreparedEvent(w)) = worker[w].event
  BY <1>1, PreparedFacts
<1>3. worker[w].event[2] = PreparedEvent(w).inst
  BY <1>2 DEF Id
<1> QED
  BY <1>1, <1>3 DEF LocksApart, ConsumerLocks

LEMMA AdvanceWorkKeeps ==
    ASSUME SignalInv, LocksApart, NEW w \in Workers, AdvanceWork(w)
    PROVE  SignalInv'
<1>1. PICK e : e = PreparedEvent(w)
  OBVIOUS
<1>2. PICK i : i = e.inst
  OBVIOUS
<1>3. /\ e \in events /\ i \in Instances /\ ~ConsumerLocks(i) /\ inst[i].version \in Nat
      /\ inst[i].version + 1 \in Nat /\ inst \in [Instances -> InstanceRow]
      /\ inst[i].status = "running" /\ now \in Times /\ request \in [Requests -> RequestRow]
  BY <1>1, <1>2, ApplyFacts, AppliesFree DEF AdvanceWork
<1>4. PICK x : x = [inst[i] EXCEPT !.state = "wait", !.version = inst[i].version + 1]
  OBVIOUS
<1>5. x \in InstanceRow /\ x.version = inst[i].version + 1 /\ x.status = "running"
  BY <1>3, <1>4 DEF InstanceRow, States
<1>6. inst' = [inst EXCEPT ![i] = x]
  BY <1>1, <1>2, <1>3, <1>4 DEF AdvanceWork
<1>7. PICK f : f = ContinueEvent(i, inst[i].version + 1, now)
  OBVIOUS
<1>8. /\ f \in EventType /\ f.inst = i /\ f.version = inst[i].version + 1
      /\ f.available = f.deadline /\ f.kind # "signal" /\ f.request = None
  BY <1>3, <1>7, ContinueFits
<1>9. events' = (events \ {e}) \cup {Closed(e, "consumed")} \cup {f}
  BY <1>1, <1>2, <1>7 DEF AdvanceWork
<1>10. UNCHANGED <<now, request, consumer, faults>>
       /\ worker' = [worker EXCEPT ![w] = NoTransition]
  BY DEF AdvanceWork
<1>11. PICK F : F = {f}
  OBVIOUS
<1>12. Opens(F, i) /\ RequestsKept /\ events' = (events \ {e}) \cup {Closed(e, "consumed")} \cup F
  BY <1>3, <1>8, <1>9, <1>10, <1>11 DEF Opens, RequestsKept
<1> QED
  BY <1>2, <1>3, <1>5, <1>6, <1>10, <1>12, AppliedOne

LEMMA CompleteKeeps ==
    ASSUME SignalInv, LocksApart, NEW w \in Workers, Complete(w)
    PROVE  SignalInv'
<1>1. PICK e : e = PreparedEvent(w)
  OBVIOUS
<1>2. PICK i : i = e.inst
  OBVIOUS
<1>3. /\ e \in events /\ i \in Instances /\ ~ConsumerLocks(i) /\ inst[i].version \in Nat
      /\ inst[i].version + 1 \in Nat /\ inst \in [Instances -> InstanceRow]
      /\ request \in [Requests -> RequestRow]
  BY <1>1, <1>2, ApplyFacts, AppliesFree DEF Complete
<1>4. PICK x : x = [inst[i] EXCEPT !.status = "terminal", !.version = inst[i].version + 1]
  OBVIOUS
<1>5. x \in InstanceRow /\ x.version = inst[i].version + 1 /\ x.status = "terminal"
  BY <1>3, <1>4 DEF InstanceRow
<1>6. inst' = [inst EXCEPT ![i] = x]
  BY <1>1, <1>2, <1>3, <1>4 DEF Complete
<1>7. events' = (events \ {e}) \cup {Closed(e, "consumed")} \cup {}
  BY <1>1 DEF Complete
<1>8. UNCHANGED <<now, request, consumer, faults>>
      /\ worker' = [worker EXCEPT ![w] = NoTransition]
  BY DEF Complete
<1>9. Opens({}, i) /\ RequestsKept
  BY <1>3, <1>8 DEF Opens, RequestsKept
<1> QED
  BY <1>2, <1>3, <1>5, <1>6, <1>7, <1>8, <1>9, AppliedOne

LEMMA FailInstanceKeeps ==
    ASSUME SignalInv, NEW w \in Workers, FailInstance(w)
    PROVE  SignalInv'
<1>1. CASE ~FailsInstance(w)
  <2>1. faults' \in 0..MaxFaults
    BY DEF FailInstance, SignalInv, TypeOK
  <2> QED
    BY <1>1, <2>1, GoesIdle DEF FailInstance
<1>2. CASE FailsInstance(w)
  <2>1. PICK e : e = PreparedEvent(w)
    OBVIOUS
  <2>2. PICK i : i = e.inst
    OBVIOUS
  <2>3. e \in events /\ i \in Instances /\ i = InstanceOf(w)
    BY <2>1, <2>2, PreparedFacts DEF FailInstance
  <2>4. /\ ~ConsumerLocks(i) /\ inst[i].version \in Nat
        /\ inst[i].version + 1 \in Nat /\ inst \in [Instances -> InstanceRow]
        /\ request \in [Requests -> RequestRow]
    BY <2>3 DEF FailInstance, Locked, SignalInv, TypeOK, InstanceRow
  <2>5. PICK x : x = [inst[i] EXCEPT !.status = "failed", !.version = inst[i].version + 1]
    OBVIOUS
  <2>6. x \in InstanceRow /\ x.version = inst[i].version + 1 /\ x.status = "failed"
    BY <2>3, <2>4, <2>5 DEF InstanceRow
  <2>7. inst' = [inst EXCEPT ![i] = x]
    BY <1>2, <2>1, <2>2, <2>4, <2>5 DEF FailInstance
  <2>8. events' = (events \ {e}) \cup {Closed(e, "consumed")} \cup {}
    BY <1>2, <2>1 DEF FailInstance
  <2>9. UNCHANGED <<now, request, consumer, faults>>
        /\ worker' = [worker EXCEPT ![w] = NoTransition]
    BY DEF FailInstance
  <2>10. Opens({}, i) /\ RequestsKept
    BY <2>4, <2>9 DEF Opens, RequestsKept
  <2> QED
    BY <2>2, <2>3, <2>4, <2>6, <2>7, <2>8, <2>9, <2>10, AppliedOne
<1> QED
  BY <1>1, <1>2

LEMMA EnterWaitKeeps ==
    ASSUME SignalInv, LocksApart, NEW w \in Workers, EnterWait(w)
    PROVE  SignalInv'
<1>1. PICK e : e = PreparedEvent(w)
  OBVIOUS
<1>2. PICK i : i = e.inst
  OBVIOUS
<1>3. /\ e \in events /\ i \in Instances /\ ~ConsumerLocks(i) /\ inst[i].version \in Nat
      /\ inst[i].version + 1 \in Nat /\ inst \in [Instances -> InstanceRow]
      /\ inst[i].status = "running" /\ now \in Times /\ request \in [Requests -> RequestRow]
  BY <1>1, <1>2, ApplyFacts, AppliesFree DEF EnterWait
<1>4. PICK at \in Times :
        /\ inst' = [inst EXCEPT ![i].version = @ + 1]
        /\ events' = (events \ {e}) \cup
              {Closed(e, "consumed"), TimerEvent(i, inst[i].version + 1, at)}
  BY <1>1, <1>2 DEF EnterWait, Deadlines
<1>5. PICK x : x = [inst[i] EXCEPT !.version = inst[i].version + 1]
  OBVIOUS
<1>6. x \in InstanceRow /\ x.version = inst[i].version + 1 /\ x.status = "running"
  BY <1>3, <1>5 DEF InstanceRow
<1>7. inst' = [inst EXCEPT ![i] = x]
  BY <1>3, <1>4, <1>5
<1>8. PICK f : f = TimerEvent(i, inst[i].version + 1, at)
  OBVIOUS
<1>9. /\ f \in EventType /\ f.inst = i /\ f.version = inst[i].version + 1
      /\ f.available = f.deadline /\ f.kind # "signal" /\ f.request = None
  BY <1>3, <1>8, TimerFits
<1>10. PICK F : F = {f}
  OBVIOUS
<1>11. Opens(F, i) /\ events' = (events \ {e}) \cup {Closed(e, "consumed")} \cup F
  BY <1>4, <1>8, <1>9, <1>10 DEF Opens
<1>12. RequestsKept
  <2>1. \A r \in Requests : request[r] \in RequestRow
    BY <1>3
  <2>2. request' = Reopened
    BY DEF EnterWait
  <2>3. ASSUME NEW r \in Requests
        PROVE  /\ request'[r] \in RequestRow
               /\ request[r].status # "unmatched" => request'[r] = request[r]
               /\ request'[r].status = "consumed" => request[r].status = "consumed"
    <3>1. PICK q : q = request[r]
      OBVIOUS
    <3>2. q \in RequestRow
      BY <2>1, <3>1
    <3>3. request'[r] = IF Persist /\ q.status = "unmatched"
                        THEN [q EXCEPT !.status = "pending"] ELSE q
      BY <2>2, <3>1 DEF Reopened
    <3>4. [q EXCEPT !.status = "pending"] \in RequestRow
          /\ [q EXCEPT !.status = "pending"].status = "pending"
      BY <3>2 DEF RequestRow, Statuses
    <3> QED
      BY <3>1, <3>2, <3>3, <3>4
  <2>4. request' \in [Requests -> RequestRow]
    BY <2>2, <2>3 DEF Reopened
  <2> QED
    BY <2>3, <2>4 DEF RequestsKept
<1>13. UNCHANGED <<now, consumer, faults>>
       /\ worker' = [worker EXCEPT ![w] = NoTransition]
  BY DEF EnterWait
<1> QED
  BY <1>2, <1>3, <1>6, <1>7, <1>11, <1>12, <1>13, AppliedOne

\* The events of the race, and what becomes of them.
Race(e) == {e} \cup Competitors(e)
Settled(e) == {Closed(s, "failed") : s \in Competitors(e)} \cup {Closed(e, "consumed")}

LEMMA RaceSettles ==
    ASSUME SignalInv, NEW e \in events
    PROVE  Updates(Race(e), Settled(e))
<1>1. Competitors(e) \subseteq events /\ e \notin Competitors(e)
  BY DEF Competitors, Pending
<1>2. /\ events \subseteq EventType
      /\ \A a, b \in events : Id(a) = Id(b) => a = b
  BY DEF SignalInv, TypeOK
<1>3. \A s \in events : Moved(s, Closed(s, "failed")) /\ Moved(s, Closed(s, "consumed"))
  BY <1>2, ClosedMoves
<1>4. \A m \in Settled(e) : \E c \in Race(e) :
         Moved(c, m) /\ m = IF c = e THEN Closed(c, "consumed") ELSE Closed(c, "failed")
  BY <1>1, <1>3 DEF Settled, Race
<1>5. \A c \in Race(e) : \E m \in Settled(e) : Moved(c, m)
  BY <1>1, <1>3 DEF Settled, Race
<1>6. Race(e) \subseteq events
  BY <1>1 DEF Race
<1>7. ASSUME NEW m \in Settled(e), NEW n \in Settled(e), Id(m) = Id(n) PROVE m = n
  <2>1. PICK c \in Race(e) :
           Moved(c, m) /\ m = IF c = e THEN Closed(c, "consumed") ELSE Closed(c, "failed")
    BY <1>4
  <2>2. PICK d \in Race(e) :
           Moved(d, n) /\ n = IF d = e THEN Closed(d, "consumed") ELSE Closed(d, "failed")
    BY <1>4
  <2>3. Id(c) = Id(m) /\ Id(d) = Id(n)
    BY <2>1, <2>2, IdIsFields DEF Moved
  <2>4. c = d
    BY <1>2, <1>6, <1>7, <2>3
  <2> QED
    BY <2>1, <2>2, <2>4
<1> QED
  BY <1>4, <1>5, <1>6, <1>7 DEF Updates

LEMMA CompleteWaitKeeps ==
    ASSUME SignalInv, LocksApart, NEW w \in Workers, CompleteWait(w)
    PROVE  SignalInv'
<1>1. PICK e : e = PreparedEvent(w)
  OBVIOUS
<1>2. PICK i : i = e.inst
  OBVIOUS
<1>3. /\ e \in events /\ i \in Instances /\ ~ConsumerLocks(i) /\ inst[i].version \in Nat
      /\ inst[i].version + 1 \in Nat /\ inst \in [Instances -> InstanceRow]
      /\ inst[i].status = "running" /\ now \in Times /\ request \in [Requests -> RequestRow]
  BY <1>1, <1>2, ApplyFacts, AppliesFree DEF CompleteWait
<1>4. PICK next \in AfterWait(i) :
         inst' = [inst EXCEPT ![i].state = next, ![i].version = @ + 1]
  BY <1>1, <1>2 DEF CompleteWait
<1>5. next \in States
  BY DEF AfterWait, States
<1>6. PICK x : x = [inst[i] EXCEPT !.state = next, !.version = inst[i].version + 1]
  OBVIOUS
<1>7. x \in InstanceRow /\ x.version = inst[i].version + 1 /\ x.status = "running"
  BY <1>3, <1>5, <1>6 DEF InstanceRow
<1>8. inst' = [inst EXCEPT ![i] = x]
  BY <1>3, <1>4, <1>6
<1>9. PICK f : f = ContinueEvent(i, inst[i].version + 1, now)
  OBVIOUS
<1>10. /\ f \in EventType /\ f.inst = i /\ f.version = inst[i].version + 1
       /\ f.available = f.deadline /\ f.kind # "signal" /\ f.request = None
  BY <1>3, <1>9, ContinueFits
<1>11. PICK F : F = {f}
  OBVIOUS
<1>12. Opens(F, i)
  BY <1>10, <1>11 DEF Opens
<1>13. events' = ((events \ {e}) \ Competitors(e)) \cup
                    {Closed(s, "failed") : s \in Competitors(e)} \cup
                    {Closed(e, "consumed"), f}
  BY <1>1, <1>2, <1>9 DEF CompleteWait
<1>14. PICK C, M : C = Race(e) /\ M = Settled(e)
  OBVIOUS
<1>15. events' = (events \ C) \cup M \cup F
  BY <1>11, <1>13, <1>14 DEF Race, Settled
<1>16. Updates(C, M)
  BY <1>3, <1>14, RaceSettles
<1>17. UNCHANGED <<now, request, consumer, faults>>
       /\ worker' = [worker EXCEPT ![w] = NoTransition]
  BY <1>1 DEF CompleteWait
<1>18. RequestsKept
  BY <1>3, <1>17 DEF RequestsKept
<1> QED
  BY <1>3, <1>7, <1>8, <1>12, <1>15, <1>16, <1>17, <1>18, Applied

LEMMA DeferKeeps ==
    ASSUME SignalInv, NEW w \in Workers, Defer(w)
    PROVE  SignalInv'
<1>1. PICK e : e = PreparedEvent(w)
  OBVIOUS
<1>2. worker[w].pc # "idle"
  BY DEF Defer
<1>3. /\ e \in events /\ e \in EventType /\ Id(e) = worker[w].event
      /\ worker[w] \in Prepared
  BY <1>1, <1>2, PreparedFacts
<1>4. PICK m : m = [e EXCEPT !.attempts = e.attempts + 1,
                             !.available = Earlier(now + 1, MaxTime)]
  OBVIOUS
<1>5. /\ now \in Times /\ faults \in 0..MaxFaults
      /\ UNCHANGED <<now, inst, request, consumer, faults>>
  BY DEF Defer, SignalInv, TypeOK
<1>6. CASE e.status # "pending"
  BY <1>1, <1>5, <1>6, GoesIdle DEF Defer
<1>7. CASE e.status = "pending"
  <2>1. Earlier(now + 1, MaxTime) \in Times /\ e.attempts \in Nat
    BY <1>3, <1>5, Numbers DEF Earlier, Times, EventType
  <2>2. m \in EventType /\ m.attempts = e.attempts + 1
        /\ m.kind = e.kind /\ m.inst = e.inst /\ m.version = e.version /\ m.request = e.request
        /\ m.created = e.created /\ m.deadline = e.deadline
    <3>1. PICK n \in Nat, t \in Times : n = e.attempts + 1 /\ t = Earlier(now + 1, MaxTime)
      BY <2>1
    <3>2. m = [e EXCEPT !.attempts = n, !.available = t]
      BY <1>4, <3>1
    <3>3. m \in EventType /\ m.attempts = n
      BY <1>3, <3>2 DEF EventType
    <3> QED
      BY <1>3, <3>1, <3>2, <3>3 DEF EventType
  <2>3. Moved(e, m)
    BY <2>1, <2>2 DEF Moved
  <2>4. events' = (events \ {e}) \cup {m}
    BY <1>1, <1>4, <1>7 DEF Defer
  <2>5. PICK C, M : C = {e} /\ M = {m}
    OBVIOUS
  <2>6. Rewritten(C, M, {})
    BY <1>3, <2>3, <2>4, <2>5 DEF Rewritten
  <2>7. PICK p : p = IF m.attempts >= RetryCeiling
                     THEN [worker[w] EXCEPT !.pc = "failing"] ELSE NoTransition
    OBVIOUS
  <2>8. worker \in [Workers -> Prepared]
    BY DEF SignalInv, TypeOK
  <2>9. worker' = [worker EXCEPT ![w] = p]
    BY <1>1, <1>4, <1>7, <2>7, <2>8 DEF Defer
  <2>10. [worker[w] EXCEPT !.pc = "failing"] \in Prepared
         /\ [worker[w] EXCEPT !.pc = "failing"].event = worker[w].event
    BY <1>3 DEF Prepared
  <2>11. p \in Prepared /\ (p.pc # "idle" => p.event = Id(e))
    BY <1>3, <2>7, <2>10, NoTransitionFits
  <2>12. /\ worker' \in [Workers -> Prepared]
         /\ \A x \in Workers : worker'[x].pc # "idle" =>
                 \E f \in events : Id(f) = worker'[x].event
    BY <1>3, <2>9, <2>11, WorkerGets
  <2>13. /\ inst \in [Instances -> InstanceRow] /\ request \in [Requests -> RequestRow]
    BY DEF SignalInv, TypeOK
  <2>14. \A i \in Instances : inst[i].version <= inst'[i].version
    BY <1>5, <2>13 DEF InstanceRow
  <2>15. \A f \in {} : EventSound(f)'
    OBVIOUS
  <2> QED
    BY <1>5, <2>6, <2>12, <2>13, <2>14, <2>15, WorkerStep
<1> QED
  BY <1>6, <1>7

-----------------------------------------------------------------------------
(* The steps around the two consumers *)

LEMMA StartKeeps ==
    ASSUME SignalInv, NEW i \in Instances, Start(i)
    PROVE  SignalInv'
<1>1. /\ inst \in [Instances -> InstanceRow] /\ now \in Times
      /\ consumer \in [Consumers -> SignalTx]
      /\ request \in [Requests -> RequestRow]
      /\ faults \in 0..MaxFaults /\ worker \in [Workers -> Prepared]
      /\ \A w \in Workers : worker[w].pc # "idle" => \E e \in events : Id(e) = worker[w].event
  BY DEF SignalInv, TypeOK
<1>2. ~ConsumerLocks(i)
  <2>1. ASSUME NEW c \in Consumers, i \in consumer[c].locks PROVE FALSE
    <3>1. ConsumerSound(c)
      BY DEF SignalInv
    <3>2. i \in Candidates
      BY <2>1, <3>1 DEF ConsumerSound
    <3> QED
      BY <3>2 DEF Candidates, Start
  <2> QED
    BY <2>1 DEF ConsumerLocks
<1>3. PICK x : x = [inst[i] EXCEPT !.status = "running"]
  OBVIOUS
<1>4. x \in InstanceRow /\ x.version = inst[i].version /\ x.status = "running"
      /\ inst[i].version \in Nat
  BY <1>1, <1>3 DEF InstanceRow
<1>5. inst' = [inst EXCEPT ![i] = x]
  BY <1>1, <1>3 DEF Start
<1>6. /\ inst' \in [Instances -> InstanceRow]
      /\ \A j \in Instances : /\ inst[j].version <= inst'[j].version
                              /\ inst[j].status # "absent" => inst'[j].status # "absent"
                              /\ ConsumerLocks(j) => inst'[j] = inst[j]
  <2>1. inst[i].version <= x.version
    BY <1>4
  <2> QED
    BY <1>2, <1>4, <1>5, <2>1, InstanceMoves
<1>7. PICK f : f = ContinueEvent(i, 0, now)
  OBVIOUS
<1>8. /\ f \in EventType /\ f.inst = i /\ f.version = 0
      /\ f.available = f.deadline /\ f.kind = "continue" /\ f.request = None
  BY <1>1, <1>7, ContinueFits
<1>9. PICK F : F = {f}
  OBVIOUS
<1>10. \A g \in F : EventSound(g)'
  <2>1. inst'[i] = x /\ 0 <= x.version
    BY <1>1, <1>4, <1>5
  <2> QED
    BY <1>4, <1>8, <1>9, <2>1 DEF EventSound
<1>11. \A g \in F, e \in events : Id(e) # Id(g)
  <2>1. ASSUME NEW e \in events, Id(e) = Id(f) PROVE FALSE
    <3>1. e.inst = i
      BY <1>8, <2>1, IdIsFields
    <3>2. inst[i].status # "absent"
      BY <3>1 DEF SignalInv, EventSound
    <3> QED
      BY <3>2 DEF Start
  <2> QED
    BY <1>9, <2>1
<1>12. Rewritten({}, {}, F)
  BY <1>7, <1>8, <1>9, <1>11 DEF Rewritten, Start
<1>13. UNCHANGED <<now, request, consumer, worker, faults>>
  BY DEF Start
<1> QED
  BY <1>1, <1>6, <1>10, <1>12, <1>13, WorkerStep

\* A request moves before it is decided.
LEMMA RequestMoves ==
    ASSUME SignalInv, NEW r \in Requests, NEW x \in RequestRow,
           request' = [request EXCEPT ![r] = x],
           request[r].status = "pending" => x.status = "pending",
           x.status # "consumed", request[r].status # "consumed",
           UNCHANGED <<now, inst, events, consumer, worker, faults>>
    PROVE  SignalInv'
<1>1. /\ inst \in [Instances -> InstanceRow] /\ now \in Times
      /\ request \in [Requests -> RequestRow]
      /\ faults \in 0..MaxFaults /\ worker \in [Workers -> Prepared]
      /\ \A w \in Workers : worker[w].pc # "idle" => \E e \in events : Id(e) = worker[w].event
  BY DEF SignalInv, TypeOK
<1>2. \A q \in Requests : request'[q] = IF q = r THEN x ELSE request[q]
  BY <1>1
<1>3. request' \in [Requests -> RequestRow]
  BY <1>1
<1>4. Rewritten({}, {}, {})
  BY Unmoved
<1>5. \A i \in Instances : inst[i].version <= inst'[i].version
  BY <1>1 DEF InstanceRow
<1>6. \A q \in Requests : /\ request[q].status = "pending" => request'[q].status = "pending"
                          /\ request'[q].status = "consumed" => request[q].status = "consumed"
                          /\ request[q].status = "consumed" => request'[q] = request[q]
  BY <1>2
<1> QED
  BY <1>1, <1>3, <1>4, <1>5, <1>6, WorkerStep

LEMMA WriteRequestKeeps ==
    ASSUME SignalInv, NEW r \in Requests, WriteRequest(r)
    PROVE  SignalInv'
<1>1. PICK x : x = [status |-> "writing", created |-> now]
  OBVIOUS
<1>2. x \in RequestRow /\ x.status = "writing"
  BY <1>1 DEF RequestRow, Statuses, SignalInv, TypeOK
<1> QED
  BY <1>1, <1>2, RequestMoves DEF WriteRequest

LEMMA CommitRequestKeeps ==
    ASSUME SignalInv, NEW r \in Requests, CommitRequest(r)
    PROVE  SignalInv'
<1>1. request \in [Requests -> RequestRow]
  BY DEF SignalInv, TypeOK
<1>2. PICK x : x = [request[r] EXCEPT !.status = "pending"]
  OBVIOUS
<1>3. x \in RequestRow /\ x.status = "pending"
  BY <1>1, <1>2 DEF RequestRow, Statuses
<1>4. request' = [request EXCEPT ![r] = x]
  BY <1>1, <1>2 DEF CommitRequest
<1> QED
  BY <1>3, <1>4, RequestMoves DEF CommitRequest

-----------------------------------------------------------------------------
(* The steps of the consumers *)

LEMMA ConsumerStep ==
    ASSUME SignalInv, NEW F, Rewritten({}, {}, F), \A f \in F : EventSound(f)',
           UNCHANGED <<now, inst, worker>>, faults' \in 0..MaxFaults,
           request' \in [Requests -> RequestRow],
           \A q \in Requests : request[q].status = "consumed" => request'[q] = request[q],
           consumer' \in [Consumers -> SignalTx],
           \A c \in Consumers : ConsumerSound(c)', KeysApart', OneDeliveryPerKey'
    PROVE  SignalInv'
<1>1. /\ inst \in [Instances -> InstanceRow] /\ now' \in Times
      /\ worker' \in [Workers -> Prepared] /\ inst' \in [Instances -> InstanceRow]
      /\ \A w \in Workers : worker'[w].pc # "idle" => \E e \in events : Id(e) = worker'[w].event
  BY DEF SignalInv, TypeOK
<1>2. \A i \in Instances : /\ inst'[i].version \in Nat
                           /\ inst[i].version <= inst'[i].version
                           /\ inst[i].status # "absent" => inst'[i].status # "absent"
  BY <1>1 DEF InstanceRow
<1>3. /\ events' \subseteq EventType
      /\ \A e, f \in events' : Id(e) = Id(f) => e = f
      /\ \A e \in events : \E f \in events' : Id(f) = Id(e)
      /\ \A e \in events' : EventSound(e)'
  BY <1>2, Rewriting
<1>4. \A w \in Workers : worker'[w].pc # "idle" => \E e \in events' : Id(e) = worker'[w].event
  BY <1>1, <1>3
<1>5. TypeOK'
  BY <1>1, <1>3, <1>4 DEF TypeOK
<1> QED
  BY <1>3, <1>5 DEF SignalInv

LEMMA RequestTyped ==
    ASSUME SignalInv, NEW r \in Requests, NEW s \in Statuses,
           request' = [request EXCEPT ![r].status = s]
    PROVE  /\ request' \in [Requests -> RequestRow]
           /\ request'[r].status = s /\ request'[r].created = request[r].created
           /\ \A q \in Requests : q # r => request'[q] = request[q]
<1>1. request \in [Requests -> RequestRow]
  BY DEF SignalInv, TypeOK
<1>2. PICK x : x = [request[r] EXCEPT !.status = s]
  OBVIOUS
<1>3. x \in RequestRow /\ x.status = s /\ x.created = request[r].created
  BY <1>1, <1>2 DEF RequestRow
<1>4. request' = [request EXCEPT ![r] = x]
  BY <1>1, <1>2
<1> QED
  BY <1>1, <1>3, <1>4

LEMMA SignalDuplicateKeeps ==
    ASSUME SignalInv, NEW c \in Consumers, NEW r \in Requests, SignalDuplicate(c, r)
    PROVE  SignalInv'
<1>1. /\ request[r].status = "pending" /\ ~Claimed(r)
      /\ request' = [request EXCEPT ![r].status = "duplicate"]
      /\ UNCHANGED <<now, inst, events, consumer, worker, faults>>
  BY DEF SignalDuplicate, Claimable
<1>2. /\ request' \in [Requests -> RequestRow]
      /\ request'[r].status = "duplicate"
      /\ \A q \in Requests : q # r => request'[q] = request[q]
  BY <1>1, RequestTyped DEF Statuses
<1>3. consumer \in [Consumers -> SignalTx] /\ faults \in 0..MaxFaults
  BY DEF SignalInv, TypeOK
<1>4. ASSUME NEW d \in Consumers PROVE ConsumerSound(d)'
  <2>1. ConsumerSound(d) /\ consumer'[d] = consumer[d]
    BY <1>1 DEF SignalInv
  <2>2. consumer[d].request \in Requests \cup {None} /\ consumer[d].request # r
    BY <1>1, <1>3 DEF SignalTx, Claimed
  <2>3. consumer[d].pc # "idle" =>
          /\ request'[consumer[d].request].status = "pending"
          /\ \A q \in Requests : Key[q] = Key[consumer[d].request]
                                    => request'[q].status # "consumed"
    BY <1>2, <2>1, <2>2 DEF ConsumerSound
  <2>4. Candidates' = Candidates
    BY <1>1 DEF Candidates
  <2> QED
    BY <2>1, <2>3, <2>4 DEF ConsumerSound
<1>5. KeysApart'
  BY <1>1 DEF SignalInv, KeysApart
<1>6. OneDeliveryPerKey'
  BY <1>2 DEF SignalInv, OneDeliveryPerKey
<1>7. Rewritten({}, {}, {}) /\ \A f \in {} : EventSound(f)'
  BY <1>1, Unmoved
<1>8. \A q \in Requests : request[q].status = "consumed" => request'[q] = request[q]
  BY <1>1, <1>2
<1> QED
  BY <1>1, <1>2, <1>3, <1>4, <1>5, <1>6, <1>7, <1>8, ConsumerStep

\* A consumer gets the transaction t; the others' hold.
LEMMA ConsumerGets ==
    ASSUME SignalInv, NEW c \in Consumers, NEW t \in SignalTx,
           consumer' = [consumer EXCEPT ![c] = t],
           UNCHANGED <<inst, events, request, now, worker>>,
           faults' \in 0..MaxFaults,
           ConsumerSound(c)',
           t.pc # "idle" => \A d \in Consumers \ {c} :
               consumer[d].pc # "idle" => Key[consumer[d].request] # Key[t.request]
    PROVE  SignalInv'
<1>1. consumer \in [Consumers -> SignalTx] /\ request \in [Requests -> RequestRow]
  BY DEF SignalInv, TypeOK
<1>2. consumer'[c] = t /\ \A d \in Consumers \ {c} : consumer'[d] = consumer[d]
  BY <1>1
<1>3. ASSUME NEW d \in Consumers PROVE ConsumerSound(d)'
  <2>1. ConsumerSound(d)
    BY DEF SignalInv
  <2>2. Candidates' = Candidates
    BY DEF Candidates
  <2>3. CASE d # c
    BY <1>2, <2>1, <2>2, <2>3 DEF ConsumerSound
  <2> QED
    BY <2>3
<1>4. KeysApart'
  BY <1>2 DEF SignalInv, KeysApart
<1>5. OneDeliveryPerKey'
  BY DEF SignalInv, OneDeliveryPerKey
<1>6. Rewritten({}, {}, {}) /\ \A f \in {} : EventSound(f)'
  BY Unmoved
<1>7. consumer' \in [Consumers -> SignalTx]
  BY <1>1
<1>8. \A q \in Requests : request'[q] = request[q]
  OBVIOUS
<1> QED
  BY <1>1, <1>3, <1>4, <1>5, <1>6, <1>7, <1>8, ConsumerStep

LEMMA NothingSeen == <<>> \in UNION {[S -> MarkerType \cup {None}] : S \in SUBSET Instances}
<1>1. <<>> \in [{} -> MarkerType \cup {None}]
  OBVIOUS
<1> QED
  BY <1>1

LEMMA NoSignalFits ==
    /\ NoSignal \in SignalTx /\ NoSignal.pc = "idle" /\ NoSignal.request = None
    /\ NoSignal.locks = {} /\ NoSignal.target = None /\ NoSignal.seen = <<>>
BY NothingSeen DEF NoSignal, SignalTx, Statuses

LEMMA CrashConsumerKeeps ==
    ASSUME SignalInv, NEW c \in Consumers, CrashConsumer(c)
    PROVE  SignalInv'
<1>1. faults' \in 0..MaxFaults
  BY Numbers DEF CrashConsumer, SignalInv, TypeOK
<1>2. consumer' = [consumer EXCEPT ![c] = NoSignal] /\ consumer'[c] = NoSignal
  BY DEF CrashConsumer, SignalInv, TypeOK
<1>3. ConsumerSound(c)'
  BY <1>2, NoSignalFits DEF ConsumerSound
<1> QED
  BY <1>1, <1>2, <1>3, NoSignalFits, ConsumerGets DEF CrashConsumer

LEMMA MarkerFits ==
    ASSUME SignalInv, NEW i
    PROVE  Marker(i) \in MarkerType \cup {None}
<1>1. PICK T : T = {e \in Pending : e.kind = "timer" /\ e.inst = i /\ e.version = inst[i].version}
  OBVIOUS
<1>2. CASE T = {}
  BY <1>1, <1>2 DEF Marker
<1>3. CASE T # {}
  <2>1. PICK e : e = CHOOSE t \in T : TRUE
    OBVIOUS
  <2>2. e \in T
    BY <1>3, <2>1
  <2>3. e \in EventType
    BY <1>1, <2>2 DEF Pending, SignalInv, TypeOK
  <2>4. Marker(i) = [created |-> e.created, available |-> e.available]
    BY <1>1, <1>3, <2>1 DEF Marker
  <2> QED
    BY <2>3, <2>4 DEF MarkerType, EventType
<1> QED
  BY <1>2, <1>3

LEMMA SignalReadKeeps ==
    ASSUME SignalInv, NEW c \in Consumers, NEW r \in Requests, SignalRead(c, r)
    PROVE  SignalInv'
<1>1. PICK seen : seen = [i \in Candidates |-> Marker(i)]
  OBVIOUS
<1>2. Candidates \in SUBSET Instances
  BY DEF Candidates
<1>3. seen \in UNION {[S -> MarkerType \cup {None}] : S \in SUBSET Instances}
  <2>1. seen \in [Candidates -> MarkerType \cup {None}]
    BY <1>1, MarkerFits
  <2> QED
    BY <1>2, <2>1
<1>4. PICK t : t = [NoSignal EXCEPT !.pc = "read", !.request = r, !.seen = seen]
  OBVIOUS
<1>5. t \in SignalTx /\ t.pc = "read" /\ t.request = r /\ t.locks = {} /\ t.target = None
  BY <1>3, <1>4, NoSignalFits DEF SignalTx
<1>6. consumer' = [consumer EXCEPT ![c] = t] /\ consumer'[c] = t
  BY <1>1, <1>4 DEF SignalRead, SignalInv, TypeOK
<1>7. request[r].status = "pending" /\ \A q \in Requests :
         Key[q] = Key[r] => request[q].status # "consumed"
  BY DEF SignalRead, Claimable, IsDuplicate
<1>8. ConsumerSound(c)'
  <2>1. request' = request
    BY DEF SignalRead
  <2> QED
    BY <1>5, <1>6, <1>7, <2>1, Numbers DEF ConsumerSound
<1>9. ASSUME NEW d \in Consumers, consumer[d].pc # "idle"
      PROVE  Key[consumer[d].request] # Key[t.request]
  <2>1. consumer[d].request # None
    BY <1>9 DEF SignalInv, ConsumerSound
  <2> QED
    BY <1>5, <2>1 DEF SignalRead, KeyFree
<1>10. faults' \in 0..MaxFaults
  BY DEF SignalRead, SignalInv, TypeOK
<1> QED
  BY <1>5, <1>6, <1>8, <1>9, <1>10, ConsumerGets DEF SignalRead

\* The lock leaves the consumer with a decision, delivering to a target of its
\* own, if it does.
LEMMA LockDecides ==
    ASSUME SignalInv, NEW c \in Consumers, SignalLock(c)
    PROVE  \E t \in SignalTx :
              /\ consumer' = [consumer EXCEPT ![c] = t] /\ consumer'[c] = t
              /\ t.pc = "locked" /\ t.request = consumer[c].request
              /\ t.locks = Matching(c)
              /\ t.outcome \in Decisions
              /\ t.target = None <=> t.outcome # "consumed"
              /\ t.target # None => t.target \in Targets(c)
<1>1. consumer \in [Consumers -> SignalTx] /\ consumer[c] \in SignalTx
  BY DEF SignalInv, TypeOK
<1>2. PICK M, T, outcome : M = Matching(c) /\ T = Targets(c) /\ outcome = Outcome(c)
  OBVIOUS
<1>3. M \subseteq Instances /\ T \subseteq M
  BY <1>2 DEF Matching, Targets, Candidates
<1>6. PICK target : target = IF outcome = "consumed" THEN CHOOSE i \in T : TRUE ELSE None
  OBVIOUS
<1>7. outcome \in Decisions /\ (outcome = "consumed" => T # {})
  <2>1. outcome = "consumed" => Cardinality(T) = 1
    BY <1>2 DEF Outcome
  <2>2. T = {} => Cardinality(T) = 0
    BY FS_EmptySet
  <2>3. outcome \in Decisions
    BY <1>2 DEF Decisions, Outcome
  <2> QED
    BY <2>1, <2>2, <2>3
<1>8. /\ target = None <=> outcome # "consumed"
      /\ target # None => target \in T
      /\ target \in Instances \cup {None}
  <2>1. outcome = "consumed" => target \in T
    BY <1>6, <1>7
  <2> QED
    BY <1>3, <1>6, <2>1, Numbers
<1>9. PICK t : t = [consumer[c] EXCEPT !.pc = "locked", !.locks = M, !.seen = <<>>,
                                       !.outcome = outcome, !.target = target]
  OBVIOUS
<1>10. t \in SignalTx /\ t.pc = "locked" /\ t.request = consumer[c].request
       /\ t.locks = M /\ t.outcome = outcome /\ t.target = target
  BY <1>1, <1>3, <1>7, <1>8, <1>9, NothingSeen DEF SignalTx, Decisions, Statuses
<1>11. consumer' = [consumer EXCEPT ![c].pc = "locked", ![c].locks = M, ![c].seen = <<>>,
                      ![c].outcome = outcome, ![c].target = target]
  BY <1>2, <1>6 DEF SignalLock
<1>12. consumer' = [consumer EXCEPT ![c] = t] /\ consumer'[c] = t
  BY <1>1, <1>9, <1>11
<1> QED
  BY <1>2, <1>7, <1>8, <1>10, <1>12

LEMMA SignalLockKeeps ==
    ASSUME SignalInv, NEW c \in Consumers, SignalLock(c)
    PROVE  SignalInv'
<1>1. PICK t \in SignalTx :
              /\ consumer' = [consumer EXCEPT ![c] = t] /\ consumer'[c] = t
              /\ t.pc = "locked" /\ t.request = consumer[c].request
              /\ t.locks = Matching(c)
              /\ t.outcome \in Decisions
              /\ t.target = None <=> t.outcome # "consumed"
              /\ t.target # None => t.target \in Targets(c)
  BY LockDecides
<1>2. /\ consumer[c].pc = "read"
      /\ UNCHANGED <<now, inst, events, request, worker, faults>>
  BY DEF SignalLock
<1>3. ConsumerSound(c) /\ Candidates' = Candidates /\ Matching(c) \subseteq Candidates
      /\ Targets(c) \subseteq Matching(c)
  BY <1>2 DEF SignalInv, Candidates, Matching, Targets
<1>4. ConsumerSound(c)'
  BY <1>1, <1>2, <1>3 DEF ConsumerSound
<1>5. \A d \in Consumers \ {c} :
         consumer[d].pc # "idle" => Key[consumer[d].request] # Key[t.request]
  BY <1>1, <1>2 DEF SignalInv, KeysApart
<1>6. faults' \in 0..MaxFaults
  BY <1>2 DEF SignalInv, TypeOK
<1> QED
  BY <1>1, <1>2, <1>4, <1>5, <1>6, ConsumerGets

LEMMA SignalFits ==
    ASSUME SignalInv, NEW i \in Instances, NEW v \in Nat, NEW r \in Requests
    PROVE  LET f == SignalEvent(i, v, r)
           IN  /\ f \in EventType /\ f.inst = i /\ f.version = v /\ f.available = f.deadline
               /\ f.kind = "signal" /\ f.request = r /\ f.attempts = 0
               /\ f.status = "pending" /\ f.deadline = request[r].created
<1>1. now \in Times /\ request[r].created \in Times
  BY DEF SignalInv, TypeOK, RequestRow
<1> QED
  BY <1>1 DEF SignalEvent, EventType

\* What a commit inserts.
Delivered(c) ==
    LET i == consumer[c].target
    IN  IF i = None THEN {} ELSE {SignalEvent(i, inst[i].version, consumer[c].request)}

LEMMA SignalCommitKeeps ==
    ASSUME SignalInv, NEW c \in Consumers, SignalCommit(c)
    PROVE  SignalInv'
<1>1. PICK r, i, s : r = consumer[c].request /\ i = consumer[c].target
                     /\ s = consumer[c].outcome
  OBVIOUS
<1>2. /\ consumer[c].pc = "locked"
      /\ request' = [request EXCEPT ![r].status = s]
      /\ consumer' = [consumer EXCEPT ![c] = NoSignal]
      /\ UNCHANGED <<now, inst, worker, faults>>
  BY <1>1 DEF SignalCommit
<1>3. consumer \in [Consumers -> SignalTx] /\ inst \in [Instances -> InstanceRow]
      /\ consumer[c] \in SignalTx /\ faults' \in 0..MaxFaults
  BY <1>2 DEF SignalInv, TypeOK
<1>4. ConsumerSound(c)
  BY DEF SignalInv
<1>5. /\ r \in Requests /\ s \in Decisions /\ request[r].status = "pending"
      /\ \A q \in Requests : Key[q] = Key[r] => request[q].status # "consumed"
      /\ i # None => i \in Candidates /\ s = "consumed"
      /\ i = None => s # "consumed"
  BY <1>1, <1>2, <1>3, <1>4 DEF ConsumerSound, SignalTx
<1>6. /\ request' \in [Requests -> RequestRow]
      /\ request'[r].status = s /\ request'[r].created = request[r].created
      /\ \A q \in Requests : q # r => request'[q] = request[q]
  BY <1>2, <1>5, RequestTyped DEF Decisions, Statuses
<1>7. consumer'[c] = NoSignal /\ \A d \in Consumers \ {c} : consumer'[d] = consumer[d]
  BY <1>2, <1>3
<1>8. consumer' \in [Consumers -> SignalTx]
  BY <1>2, <1>3, NoSignalFits
<1>9. ASSUME NEW d \in Consumers PROVE ConsumerSound(d)'
  <2>1. CASE d = c
    BY <1>7, <2>1, NoSignalFits DEF ConsumerSound
  <2>2. CASE d # c
    <3>1. ConsumerSound(d) /\ consumer'[d] = consumer[d]
      BY <1>7, <2>2 DEF SignalInv
    <3>2. consumer[d].pc # "idle" => Key[consumer[d].request] # Key[r]
      BY <1>1, <1>2, <2>2 DEF SignalInv, KeysApart
    <3>3. consumer[d].request \in Requests \cup {None}
      BY <1>3 DEF SignalTx
    <3>4. consumer[d].pc # "idle" =>
          /\ request'[consumer[d].request].status = "pending"
          /\ \A q \in Requests : Key[q] = Key[consumer[d].request]
                                    => request'[q].status # "consumed"
      BY <1>6, <3>1, <3>2, <3>3 DEF ConsumerSound
    <3>5. Candidates' = Candidates
      BY <1>2 DEF Candidates
    <3> QED
      BY <3>1, <3>4, <3>5 DEF ConsumerSound
  <2> QED
    BY <2>1, <2>2
<1>10. KeysApart'
  BY <1>7, NoSignalFits DEF SignalInv, KeysApart
<1>11. OneDeliveryPerKey'
  BY <1>5, <1>6 DEF SignalInv, OneDeliveryPerKey
<1>12. PICK F : F = Delivered(c)
  OBVIOUS
<1>13. events' = (events \ {}) \cup {} \cup F
  BY <1>1, <1>12 DEF Delivered, SignalCommit
<1>14. ASSUME NEW f \in F
       PROVE  /\ f \in EventType /\ EventSound(f)'
              /\ \A e \in events : Id(e) # Id(f)
  <2>1. i # None /\ f = SignalEvent(i, inst[i].version, r)
    BY <1>1, <1>12 DEF Delivered
  <2>2. i \in Instances /\ inst[i].status = "running" /\ inst[i].version \in Nat
    BY <1>3, <1>5, <2>1 DEF Candidates, InstanceRow
  <2>3. /\ f \in EventType /\ f.inst = i /\ f.version = inst[i].version
        /\ f.available = f.deadline
        /\ f.kind = "signal" /\ f.request = r /\ f.deadline = request[r].created
    BY <1>5, <2>1, <2>2, SignalFits
  <2>4. EventSound(f)'
    <3>1. inst' = inst /\ inst[i].version <= inst[i].version
      BY <1>2, <2>2
    <3> QED
      BY <1>5, <1>6, <2>1, <2>2, <2>3, <3>1 DEF EventSound
  <2>5. ASSUME NEW e \in events, Id(e) = Id(f) PROVE FALSE
    <3>1. e.kind = "signal" /\ e.request = r
      BY <2>3, <2>5, IdIsFields
    <3>2. request[r].status = "consumed"
      BY <3>1 DEF SignalInv, EventSound
    <3> QED
      BY <1>5, <3>2
  <2> QED
    BY <2>3, <2>4, <2>5
<1>15. Rewritten({}, {}, F)
  <2>1. \A f, g \in F : f = g
    BY <1>12 DEF Delivered
  <2> QED
    BY <1>13, <1>14, <2>1 DEF Rewritten
<1>16. \A q \in Requests : request[q].status = "consumed" => request'[q] = request[q]
  BY <1>5, <1>6
<1> QED
  BY <1>2, <1>3, <1>6, <1>8, <1>9, <1>10, <1>11, <1>14, <1>15, <1>16, ConsumerStep

-----------------------------------------------------------------------------
(* The invariant, and what it says *)

LEMMA SignalInvStart ==
    ASSUME Init PROVE SignalInv
<1>1. NoInstance \in InstanceRow /\ NoRequest \in RequestRow /\ NoRequest.status = "absent"
  BY Numbers DEF NoInstance, InstanceRow, States, NoRequest, RequestRow, Statuses
<1>2. TypeOK
  BY <1>1, Numbers, NoSignalFits, NoTransitionFits DEF Init, TypeOK
<1>3. \A c \in Consumers : ConsumerSound(c)
  BY NoSignalFits DEF Init, ConsumerSound
<1>4. KeysApart
  BY NoSignalFits DEF Init, KeysApart
<1>5. OneDeliveryPerKey
  BY <1>1 DEF Init, OneDeliveryPerKey
<1>6. \A e \in events : EventSound(e)
  BY DEF Init
<1> QED
  BY <1>2, <1>3, <1>4, <1>5, <1>6 DEF SignalInv

LEMMA SignalInvKept ==
    ASSUME SignalInv, LocksApart, [Next]_vars PROVE SignalInv'
<1>1. CASE UNCHANGED vars
  <2>1. UNCHANGED <<inst, events, request, consumer>> /\ now' = now
        /\ faults' = faults /\ worker' = worker
    BY <1>1 DEF vars
  <2>2. now' \in Times /\ faults' \in 0..MaxFaults /\ worker' \in [Workers -> Prepared]
        /\ \A w \in Workers : worker'[w].pc # "idle" =>
               \E e \in events : Id(e) = worker'[w].event
    BY <2>1 DEF SignalInv, TypeOK
  <2> QED
    BY <2>1, <2>2, QuietStep
<1>2. ASSUME NEW i \in Instances, Start(i) PROVE SignalInv'
  BY <1>2, StartKeeps
<1>3. ASSUME NEW r \in Requests, WriteRequest(r) \/ CommitRequest(r) PROVE SignalInv'
  BY <1>3, WriteRequestKeeps, CommitRequestKeeps
<1>4. ASSUME NEW c \in Consumers, Consume(c) \/ CrashConsumer(c) PROVE SignalInv'
  <2>1. ASSUME NEW r \in Requests, SignalDuplicate(c, r) \/ SignalRead(c, r) PROVE SignalInv'
    BY <2>1, SignalDuplicateKeeps, SignalReadKeeps
  <2> QED
    BY <1>4, <2>1, SignalLockKeeps, SignalCommitKeeps, CrashConsumerKeeps DEF Consume
<1>5. ASSUME NEW w \in Workers, Transition(w) \/ Fault(w) \/ CrashWorker(w) PROVE SignalInv'
  <2>1. ASSUME NEW e \in events, Prepare(w, e) PROVE SignalInv'
    BY <2>1, PrepareKeeps
  <2> QED
    BY <1>5, <2>1, AbandonKeeps, OpenTransitionKeeps, AdvanceWorkKeeps, EnterWaitKeeps, CompleteWaitKeeps,
       CompleteKeeps, DeferKeeps, FailInstanceKeeps, FaultKeeps, CrashWorkerKeeps
       DEF Transition
<1> QED
  BY <1>1, <1>2, <1>3, <1>4, <1>5, TickKeeps DEF Next

\* SKIP LOCKED and the wait for a row lock keep the lock holders apart.
LEMMA LocksApartKept ==
    ASSUME SignalInv, LocksApart, [Next]_vars PROVE LocksApart'
<1>1. worker \in [Workers -> Prepared] /\ consumer \in [Consumers -> SignalTx]
  BY DEF SignalInv, TypeOK
<1>2. ASSUME NEW w \in Workers, UNCHANGED consumer,
             \A v \in Workers : v # w => worker'[v] = worker[v],
             worker'[w].pc # "locked"
      PROVE  LocksApart'
  BY <1>2 DEF LocksApart
<1>3. ASSUME NEW c \in Consumers, UNCHANGED worker,
             \A d \in Consumers : d # c => consumer'[d] = consumer[d],
             consumer'[c].locks = {}
      PROVE  LocksApart'
  BY <1>3 DEF LocksApart
<1>4. ASSUME UNCHANGED <<worker, consumer>> PROVE LocksApart'
  BY <1>4 DEF LocksApart
<1>5. CASE UNCHANGED vars \/ Tick
  BY <1>4, <1>5 DEF vars, Tick
<1>6. ASSUME NEW i \in Instances, Start(i) PROVE LocksApart'
  BY <1>4, <1>6 DEF Start
<1>7. ASSUME NEW r \in Requests, WriteRequest(r) \/ CommitRequest(r) PROVE LocksApart'
  BY <1>4, <1>7 DEF WriteRequest, CommitRequest
<1>8. ASSUME NEW c \in Consumers, Consume(c) \/ CrashConsumer(c) PROVE LocksApart'
  <2>1. ASSUME NEW r \in Requests, SignalDuplicate(c, r) PROVE LocksApart'
    BY <1>4, <2>1 DEF SignalDuplicate
  <2>2. ASSUME NEW t, consumer' = [consumer EXCEPT ![c] = t], t.locks = {}, UNCHANGED worker
        PROVE  LocksApart'
    BY <1>1, <1>3, <2>2
  <2>3. ASSUME NEW r \in Requests, SignalRead(c, r) PROVE LocksApart'
    <3>1. PICK seen : seen = [i \in Candidates |-> Marker(i)]
      OBVIOUS
    <3>2. PICK t : t = [NoSignal EXCEPT !.pc = "read", !.request = r, !.seen = seen]
      OBVIOUS
    <3>3. t.locks = {}
      BY <3>2 DEF NoSignal
    <3>4. consumer' = [consumer EXCEPT ![c] = t] /\ UNCHANGED worker
      BY <2>3, <3>1, <3>2 DEF SignalRead
    <3> QED
      BY <2>2, <3>3, <3>4
  <2>4. CASE SignalLock(c)
    <3>1. PICK t \in SignalTx : /\ consumer' = [consumer EXCEPT ![c] = t]
                                /\ t.locks = Matching(c)
      BY <2>4, LockDecides
    <3>2. \A d \in Consumers : consumer'[d] = IF d = c THEN t ELSE consumer[d]
      BY <1>1, <3>1
    <3>3. UNCHANGED worker /\ \A i \in Matching(c) : ~WorkerLocks(i)
      BY <2>4 DEF SignalLock, Locked
    <3> QED
      BY <3>1, <3>2, <3>3 DEF LocksApart, WorkerLocks
  <2>5. CASE SignalCommit(c) \/ CrashConsumer(c)
    BY <2>2, <2>5, NoSignalFits DEF SignalCommit, CrashConsumer
  <2> QED
    BY <1>8, <2>1, <2>3, <2>4, <2>5 DEF Consume
<1>9. ASSUME NEW w \in Workers, Transition(w) \/ Fault(w) \/ CrashWorker(w) PROVE LocksApart'
  <2>1. ASSUME NEW p, worker' = [worker EXCEPT ![w] = p], p.pc # "locked", UNCHANGED consumer
        PROVE  LocksApart'
    BY <1>1, <1>2, <2>1
  <2>2. CASE worker' = [worker EXCEPT ![w] = NoTransition] /\ UNCHANGED consumer
    BY <2>1, <2>2, NoTransitionFits
  <2>3. ASSUME NEW e \in events, Prepare(w, e) PROVE LocksApart'
    <3>1. PICK p : p = Snapshot(e)
      OBVIOUS
    <3>2. p.pc # "locked"
      BY <3>1 DEF Snapshot
    <3>3. worker' = [worker EXCEPT ![w] = p] /\ UNCHANGED consumer
      BY <2>3, <3>1 DEF Prepare
    <3> QED
      BY <2>1, <3>2, <3>3
  <2>4. CASE OpenTransition(w)
    <3>1. Id(PreparedEvent(w)) = worker[w].event /\ InstanceOf(w) = PreparedEvent(w).inst
      BY <2>4, PreparedFacts DEF OpenTransition
    <3>2. worker[w].event[2] = InstanceOf(w)
      BY <3>1 DEF Id
    <3>3. ~ConsumerLocks(InstanceOf(w)) /\ UNCHANGED consumer
      BY <2>4 DEF OpenTransition, LockPrepared, Locked
    <3>4. worker'[w].event = worker[w].event /\ \A v \in Workers : v # w => worker'[v] = worker[v]
      BY <1>1, <2>4 DEF OpenTransition, Prepared
    <3> QED
      BY <3>2, <3>3, <3>4 DEF LocksApart, ConsumerLocks
  <2>5. CASE Abandon(w) \/ AdvanceWork(w) \/ EnterWait(w) \/ CompleteWait(w) \/ Complete(w)
             \/ FailInstance(w) \/ CrashWorker(w)
    BY <2>2, <2>5
       DEF Abandon, AdvanceWork, EnterWait, CompleteWait, Complete, FailInstance, CrashWorker
  <2>6. \A pc : [worker[w] EXCEPT !.pc = pc].pc = pc
    BY <1>1 DEF Prepared
  <2>7. CASE Fault(w)
    <3>1. PICK pc \in {"deferring", "failing"} : worker' = [worker EXCEPT ![w].pc = pc]
      BY <2>7 DEF Fault
    <3>2. worker' = [worker EXCEPT ![w] = [worker[w] EXCEPT !.pc = pc]] /\ UNCHANGED consumer
      BY <1>1, <2>7, <3>1 DEF Fault
    <3> QED
      BY <2>1, <2>6, <3>1, <3>2
  <2>8. CASE Defer(w)
    <3>1. \/ worker' = [worker EXCEPT ![w] = NoTransition]
          \/ worker' = [worker EXCEPT ![w] = [worker[w] EXCEPT !.pc = "failing"]]
      BY <1>1, <2>8 DEF Defer
    <3>2. UNCHANGED consumer
      BY <2>8 DEF Defer
    <3> QED
      BY <2>1, <2>2, <2>6, <3>1, <3>2
  <2> QED
    BY <1>9, <2>3, <2>4, <2>5, <2>7, <2>8 DEF Transition
<1> QED
  BY <1>5, <1>6, <1>7, <1>8, <1>9 DEF Next

LEMMA SignalInvHolds == Spec => [](SignalInv /\ LocksApart)
<1>1. Init => SignalInv /\ LocksApart
  BY SignalInvStart, NoTransitionFits DEF Init, LocksApart
<1>2. SignalInv /\ LocksApart /\ [Next]_vars => (SignalInv /\ LocksApart)'
  BY SignalInvKept, LocksApartKept
<1> QED
  BY <1>1, <1>2, PTL DEF Spec

\* Among the requests of one semantic key consume_one_signal delivers at most
\* one, with any number of consumers on any number of replicas and with the
\* entries of waits returning requests to the queue: the advisory lock keeps the
\* lookup of the key true until the decision is committed.
THEOREM DeliveredOnce == Spec => []OneDeliveryPerKey
<1>1. SignalInv => OneDeliveryPerKey
  BY DEF SignalInv
<1> QED
  BY <1>1, SignalInvHolds, PTL

-----------------------------------------------------------------------------
(* What every step keeps *)

\* The requests that consumers hold or events stand for keep their date.
DatesKept ==
    \A r \in Requests : request[r].status \in {"pending", "consumed"}
                           => request'[r].created = request[r].created

\* m is the row of e after a step: it is closed only as its instance moves on,
\* consumed only by the open transition that holds it or as the instance fails,
\* and put off only by a worker that is busy with it.
Follows(e, m) ==
    /\ Moved(e, m)
    /\ e.attempts <= m.attempts
    /\ \/ m.available = e.available
       \/ /\ m.available = Earlier(now + 1, MaxTime) /\ now' = now
          /\ \E w \in Workers : worker[w].pc # "idle" /\ worker[w].event = Id(e)
    /\ m.status = e.status \/ inst[e.inst].version < inst'[e.inst].version
    /\ m.status = "consumed" =>
          \/ e.status = "consumed" \/ inst'[e.inst].status = "failed"
          \/ \E w \in Workers : worker[w].pc = "locked" /\ worker[w].event = Id(e)

Known(m) == \E e \in events : Id(e) = Id(m)

\* c inserts m for the instance it has locked.
Delivers(c, m) ==
    /\ consumer[c].pc = "locked" /\ consumer[c].target \in Instances
    /\ m = SignalEvent(consumer[c].target, inst[consumer[c].target].version,
                       consumer[c].request)
    /\ events' = events \cup {m} /\ UNCHANGED inst

Inserted(m) == /\ m.status = "pending"
               /\ m.kind = "signal" => \E c \in Consumers : Delivers(c, m)

InstanceFollows(i) == \/ inst'[i] = inst[i]
                      \/ inst[i].status = "absent"
                      \/ inst[i].status = "running" /\ inst[i].version < inst'[i].version

\* What a step does to events and instances.
EventsFollow ==
    /\ \A e \in events : \E m \in events' : Follows(e, m)
    /\ \A m \in events' : Known(m) \/ Inserted(m)
    /\ \A i \in Instances : InstanceFollows(i)

LEMMA FollowsItself ==
    ASSUME SignalInv, NEW e \in events PROVE Follows(e, e)
<1>1. e \in EventType
  BY DEF SignalInv, TypeOK
<1>2. Moved(e, e)
  BY <1>1 DEF Moved
<1>3. e.attempts <= e.attempts
  BY <1>1 DEF EventType
<1> QED
  BY <1>2, <1>3 DEF Follows

LEMMA QuietFollow ==
    ASSUME SignalInv, UNCHANGED <<events, inst>> PROVE EventsFollow
<1>1. \A m \in events' : Known(m)
  BY DEF Known
<1>2. \A e \in events : e \in events' /\ Follows(e, e)
  BY FollowsItself
<1> QED
  BY <1>1, <1>2 DEF EventsFollow, InstanceFollows

LEMMA ClosedFollows ==
    ASSUME SignalInv, NEW e \in events, NEW status \in {"consumed", "failed"},
           inst[e.inst].version < inst'[e.inst].version,
           status = "consumed" =>
              \/ inst'[e.inst].status = "failed"
              \/ \E w \in Workers : worker[w].pc = "locked" /\ worker[w].event = Id(e)
    PROVE  Follows(e, Closed(e, status)) /\ Id(Closed(e, status)) = Id(e)
<1>1. e \in EventType
  BY DEF SignalInv, TypeOK
<1>2. PICK m : m = Closed(e, status)
  OBVIOUS
<1>3. Moved(e, m) /\ m.status = status
  BY <1>1, <1>2, ClosedMoves
<1>4. m.attempts = e.attempts /\ m.available = e.available /\ e.attempts \in Nat
  BY <1>1, <1>2 DEF Closed, EventType
<1>5. e.attempts <= m.attempts
  BY <1>4
<1>6. Follows(e, m)
  BY <1>3, <1>4, <1>5 DEF Follows
<1>7. Id(m) = Id(e)
  BY <1>3, IdIsFields DEF Moved
<1> QED
  BY <1>2, <1>6, <1>7

\* An instance moves on: the events C are closed, F, which is no signal, opened.
LEMMA MovesFollow ==
    ASSUME SignalInv, NEW i \in Instances, inst[i].status = "running",
           \A j \in Instances : j # i => inst'[j] = inst[j],
           inst[i].version < inst'[i].version,
           NEW e \in events, e.inst = i,
           \/ inst'[i].status = "failed"
           \/ \E w \in Workers : worker[w].pc = "locked" /\ worker[w].event = Id(e),
           NEW C \in SUBSET events, \A s \in C : s.inst = i,
           NEW F, \A f \in F : f.status = "pending" /\ f.kind # "signal",
           events' = ((events \ {e}) \ C) \cup {Closed(s, "failed") : s \in C}
                        \cup {Closed(e, "consumed")} \cup F
    PROVE  EventsFollow
<1>1. Follows(e, Closed(e, "consumed")) /\ Id(Closed(e, "consumed")) = Id(e)
  BY ClosedFollows
<1>2. ASSUME NEW s \in C PROVE Follows(s, Closed(s, "failed")) /\ Id(Closed(s, "failed")) = Id(s)
  <2>1. s \in events /\ s.inst = i
    OBVIOUS
  <2> QED
    BY <2>1, ClosedFollows
<1>3. ASSUME NEW f \in events PROVE \E m \in events' : Follows(f, m)
  <2>1. CASE f = e
    BY <1>1, <2>1
  <2>2. CASE f \in C
    BY <1>2, <2>2
  <2>3. CASE f # e /\ f \notin C
    BY <2>3, FollowsItself
  <2> QED
    BY <2>1, <2>2, <2>3
<1>4. ASSUME NEW m \in events' PROVE Known(m) \/ Inserted(m)
  <2>1. CASE m \in events
    BY <2>1 DEF Known
  <2>2. CASE m = Closed(e, "consumed")
    BY <1>1, <2>2 DEF Known
  <2>3. CASE m \in {Closed(s, "failed") : s \in C}
    BY <1>2, <2>3 DEF Known
  <2>4. CASE m \in F
    BY <2>4 DEF Inserted
  <2> QED
    BY <2>1, <2>2, <2>3, <2>4
<1> QED
  BY <1>3, <1>4 DEF EventsFollow, InstanceFollows

LEMMA AppliesFollow ==
    ASSUME SignalInv, NEW w \in Workers,
           AdvanceWork(w) \/ EnterWait(w) \/ CompleteWait(w) \/ Complete(w)
    PROVE  EventsFollow
<1>1. PICK e : e = PreparedEvent(w)
  OBVIOUS
<1>2. PICK i : i = e.inst
  OBVIOUS
<1>3. Applies(w)
  BY DEF AdvanceWork, EnterWait, CompleteWait, Complete
<1>4. /\ e \in events /\ i \in Instances /\ inst[i].status = "running"
      /\ inst[i].version \in Nat /\ inst \in [Instances -> InstanceRow] /\ inst[i] \in InstanceRow
  BY <1>1, <1>2, <1>3, ApplyFacts
<1>5. worker[w].pc = "locked" /\ worker[w].event = Id(e)
  BY <1>1, <1>3, PreparedFacts DEF Applies
<1>6. ASSUME NEW v, v = inst[i].version + 1,
             \/ inst' = [inst EXCEPT ![i].state = "wait", ![i].version = v]
             \/ inst' = [inst EXCEPT ![i].version = v]
             \/ \E next \in AfterWait(i) :
                   inst' = [inst EXCEPT ![i].state = next, ![i].version = v]
             \/ inst' = [inst EXCEPT ![i].status = "terminal", ![i].version = v]
      PROVE  /\ inst[i].version < inst'[i].version
             /\ \A j \in Instances : j # i => inst'[j] = inst[j]
  <2>1. inst[i].version < v
    BY <1>4, <1>6
  <2>2. inst'[i].version = v
    <3>1. \A next : [inst[i] EXCEPT !.state = next, !.version = v].version = v
      BY <1>4 DEF InstanceRow
    <3>2. [inst[i] EXCEPT !.version = v].version = v
      BY <1>4 DEF InstanceRow
    <3>3. [inst[i] EXCEPT !.status = "terminal", !.version = v].version = v
      BY <1>4 DEF InstanceRow
    <3>4. \/ \E next : inst'[i] = [inst[i] EXCEPT !.state = next, !.version = v]
          \/ inst'[i] = [inst[i] EXCEPT !.version = v]
          \/ inst'[i] = [inst[i] EXCEPT !.status = "terminal", !.version = v]
      BY <1>4, <1>6
    <3> QED
      BY <3>1, <3>2, <3>3, <3>4
  <2>3. \A j \in Instances : j # i => inst'[j] = inst[j]
    BY <1>4, <1>6
  <2> QED
    BY <2>1, <2>2, <2>3
<1>7. /\ inst[i].version < inst'[i].version
      /\ \A j \in Instances : j # i => inst'[j] = inst[j]
  <2>1. PICK v : v = inst[i].version + 1
    OBVIOUS
  <2>2. CASE AdvanceWork(w)
    BY <1>1, <1>2, <1>6, <2>1, <2>2 DEF AdvanceWork
  <2>3. CASE EnterWait(w)
    BY <1>1, <1>2, <1>6, <2>1, <2>3 DEF EnterWait
  <2>4. CASE CompleteWait(w)
    BY <1>1, <1>2, <1>6, <2>1, <2>4 DEF CompleteWait
  <2>5. CASE Complete(w)
    BY <1>1, <1>2, <1>6, <2>1, <2>5 DEF Complete
  <2> QED
    BY <2>2, <2>3, <2>4, <2>5
<1>8. ASSUME NEW C \in SUBSET events, \A s \in C : s.inst = i,
             NEW F, \A f \in F : f.status = "pending" /\ f.kind # "signal",
             events' = ((events \ {e}) \ C) \cup {Closed(s, "failed") : s \in C}
                          \cup {Closed(e, "consumed")} \cup F
      PROVE  EventsFollow
  BY <1>2, <1>4, <1>5, <1>7, <1>8, MovesFollow
<1>9. PICK f : f = ContinueEvent(i, inst[i].version + 1, now)
  OBVIOUS
<1>10. f.status = "pending" /\ f.kind # "signal"
  BY <1>9 DEF ContinueEvent
<1>11. PICK N, F : N = {} /\ F = {f}
  OBVIOUS
<1>12. N \in SUBSET events /\ (\A s \in N : s.inst = i)
       /\ \A g \in F : g.status = "pending" /\ g.kind # "signal"
  BY <1>10, <1>11
<1>13. CASE AdvanceWork(w)
  <2>1. events' = ((events \ {e}) \ N) \cup {Closed(s, "failed") : s \in N}
                     \cup {Closed(e, "consumed")} \cup F
    BY <1>1, <1>2, <1>9, <1>11, <1>13 DEF AdvanceWork
  <2> QED
    BY <1>8, <1>12, <2>1
<1>14. CASE EnterWait(w)
  <2>1. PICK at : events' = (events \ {e}) \cup
              {Closed(e, "consumed"), TimerEvent(i, inst[i].version + 1, at)}
    BY <1>1, <1>2, <1>14 DEF EnterWait
  <2>2. PICK G : G = {TimerEvent(i, inst[i].version + 1, at)}
    OBVIOUS
  <2>3. \A g \in G : g.status = "pending" /\ g.kind # "signal"
    BY <2>2 DEF TimerEvent
  <2>4. events' = ((events \ {e}) \ N) \cup {Closed(s, "failed") : s \in N}
                     \cup {Closed(e, "consumed")} \cup G
    BY <1>11, <2>1, <2>2
  <2> QED
    BY <1>8, <1>12, <2>3, <2>4
<1>15. CASE CompleteWait(w)
  <2>1. PICK C : C = Competitors(e)
    OBVIOUS
  <2>2. C \in SUBSET events /\ \A s \in C : s.inst = i
    BY <1>2, <2>1 DEF Competitors, WaitEvents
  <2>3. events' = ((events \ {e}) \ C) \cup {Closed(s, "failed") : s \in C}
                     \cup {Closed(e, "consumed")} \cup F
    BY <1>1, <1>2, <1>9, <1>11, <1>15, <2>1 DEF CompleteWait
  <2> QED
    BY <1>8, <1>12, <2>2, <2>3
<1>16. CASE Complete(w)
  <2>1. events' = ((events \ {e}) \ N) \cup {Closed(s, "failed") : s \in N}
                     \cup {Closed(e, "consumed")} \cup N
    BY <1>1, <1>11, <1>16 DEF Complete
  <2> QED
    <3>1. \A g \in N : g.status = "pending" /\ g.kind # "signal"
      BY <1>11
    <3> QED
      BY <1>8, <1>12, <2>1, <3>1
<1> QED
  BY <1>13, <1>14, <1>15, <1>16

LEMMA FailFollows ==
    ASSUME SignalInv, NEW w \in Workers, FailInstance(w)
    PROVE  EventsFollow
<1>1. CASE ~FailsInstance(w)
  BY <1>1, QuietFollow DEF FailInstance
<1>2. CASE FailsInstance(w)
  <2>1. PICK e : e = PreparedEvent(w)
    OBVIOUS
  <2>2. PICK i : i = e.inst
    OBVIOUS
  <2>3. e \in events /\ i \in Instances /\ i = InstanceOf(w)
    BY <2>1, <2>2, PreparedFacts DEF FailInstance
  <2>4. /\ inst \in [Instances -> InstanceRow] /\ inst[i] \in InstanceRow
        /\ inst[i].version \in Nat /\ inst[i].status = "running"
    BY <1>2, <2>3 DEF FailsInstance, SignalInv, TypeOK, InstanceRow
  <2>5. PICK v : v = inst[i].version + 1
    OBVIOUS
  <2>6. inst' = [inst EXCEPT ![i].status = "failed", ![i].version = v]
    BY <1>2, <2>1, <2>2, <2>5 DEF FailInstance
  <2>7. /\ inst'[i].version = v /\ inst'[i].status = "failed"
        /\ \A j \in Instances : j # i => inst'[j] = inst[j]
    BY <2>3, <2>4, <2>6 DEF InstanceRow
  <2>8. inst[i].version < inst'[i].version
    BY <2>4, <2>5, <2>7
  <2>9. PICK N : N = {}
    OBVIOUS
  <2>10. events' = ((events \ {e}) \ N) \cup {Closed(s, "failed") : s \in N}
                      \cup {Closed(e, "consumed")} \cup N
    BY <1>2, <2>1, <2>9 DEF FailInstance
  <2>11. /\ N \in SUBSET events /\ (\A s \in N : s.inst = i)
         /\ \A f \in N : f.status = "pending" /\ f.kind # "signal"
    BY <2>9
  <2> QED
    BY <2>2, <2>3, <2>4, <2>7, <2>8, <2>10, <2>11, MovesFollow
<1> QED
  BY <1>1, <1>2

LEMMA DeferFollows ==
    ASSUME SignalInv, NEW w \in Workers, Defer(w)
    PROVE  EventsFollow
<1>1. PICK e : e = PreparedEvent(w)
  OBVIOUS
<1>2. e \in events /\ e \in EventType /\ Id(e) = worker[w].event /\ worker[w].pc # "idle"
  BY <1>1, PreparedFacts DEF Defer
<1>3. UNCHANGED <<inst, now>> /\ now \in Times
  BY DEF Defer, SignalInv, TypeOK
<1>4. CASE e.status # "pending"
  BY <1>1, <1>3, <1>4, QuietFollow DEF Defer
<1>5. CASE e.status = "pending"
  <2>1. Earlier(now + 1, MaxTime) \in Times /\ e.attempts \in Nat /\ e.attempts + 1 \in Nat
    BY <1>2, <1>3, Numbers DEF Earlier, Times, EventType
  <2>2. PICK n \in Nat, t \in Times : n = e.attempts + 1 /\ t = Earlier(now + 1, MaxTime)
    BY <2>1
  <2>3. PICK m : m = [e EXCEPT !.attempts = n, !.available = t]
    OBVIOUS
  <2>4. m \in EventType /\ m.attempts = n /\ m.status = "pending" /\ m.available = t
        /\ m.kind = e.kind /\ m.inst = e.inst /\ m.version = e.version /\ m.request = e.request
        /\ m.created = e.created /\ m.deadline = e.deadline
    BY <1>2, <1>5, <2>3 DEF EventType
  <2>5. e.attempts <= m.attempts /\ m.attempts # 0
    BY <2>1, <2>2, <2>4
  <2>6. Follows(e, m)
    BY <1>2, <1>3, <1>5, <2>2, <2>4, <2>5 DEF Follows, Moved
  <2>7. events' = (events \ {e}) \cup {m}
    BY <1>1, <1>5, <2>2, <2>3 DEF Defer
  <2>8. \A f \in events : \E g \in events' : Follows(f, g)
    BY <2>6, <2>7, FollowsItself
  <2>9. \A g \in events' : Known(g)
    BY <1>2, <2>4, <2>7, IdIsFields DEF Known
  <2> QED
    BY <1>3, <2>8, <2>9 DEF EventsFollow, InstanceFollows
<1> QED
  BY <1>4, <1>5

LEMMA CommitFollows ==
    ASSUME SignalInv, NEW c \in Consumers, SignalCommit(c)
    PROVE  EventsFollow
<1>1. PICK r, i : r = consumer[c].request /\ i = consumer[c].target
  OBVIOUS
<1>2. UNCHANGED inst /\ consumer[c].pc = "locked" /\ i \in Instances \cup {None}
  BY <1>1 DEF SignalCommit, SignalInv, TypeOK, SignalTx
<1>3. CASE i = None
  BY <1>1, <1>2, <1>3, QuietFollow DEF SignalCommit
<1>4. CASE i # None
  <2>1. PICK m : m = SignalEvent(i, inst[i].version, r)
    OBVIOUS
  <2>2. events' = events \cup {m}
    BY <1>1, <1>4, <2>1 DEF SignalCommit
  <2>3. Delivers(c, m)
    BY <1>1, <1>2, <1>4, <2>1, <2>2 DEF Delivers
  <2>4. m.status = "pending"
    BY <2>1 DEF SignalEvent
  <2>5. Inserted(m)
    BY <2>3, <2>4 DEF Inserted
  <2>6. \A e \in events : Known(e) /\ Follows(e, e)
    BY FollowsItself DEF Known
  <2> QED
    BY <1>2, <2>2, <2>5, <2>6 DEF EventsFollow, InstanceFollows
<1> QED
  BY <1>3, <1>4

LEMMA StartFollows ==
    ASSUME SignalInv, NEW i \in Instances, Start(i)
    PROVE  EventsFollow
<1>1. inst \in [Instances -> InstanceRow] /\ inst[i].status = "absent"
  BY DEF SignalInv, TypeOK, Start
<1>2. PICK f : f = ContinueEvent(i, 0, now)
  OBVIOUS
<1>3. f.status = "pending" /\ f.kind # "signal"
  BY <1>2 DEF ContinueEvent
<1>4. events' = events \cup {f} /\ \A j \in Instances : j # i => inst'[j] = inst[j]
  BY <1>1, <1>2 DEF Start
<1>5. \A e \in events : Known(e) /\ Follows(e, e)
  BY FollowsItself DEF Known
<1> QED
  BY <1>1, <1>3, <1>4, <1>5 DEF EventsFollow, InstanceFollows, Inserted

LEMMA StepFollows ==
    ASSUME SignalInv, [Next]_vars PROVE EventsFollow
<1>1. CASE UNCHANGED vars \/ Tick
  BY <1>1, QuietFollow DEF vars, Tick
<1>2. ASSUME NEW i \in Instances, Start(i) PROVE EventsFollow
  BY <1>2, StartFollows
<1>3. ASSUME NEW r \in Requests, WriteRequest(r) \/ CommitRequest(r) PROVE EventsFollow
  BY <1>3, QuietFollow DEF WriteRequest, CommitRequest
<1>4. ASSUME NEW c \in Consumers, Consume(c) \/ CrashConsumer(c) PROVE EventsFollow
  <2>1. ASSUME NEW r \in Requests, SignalDuplicate(c, r) \/ SignalRead(c, r) PROVE EventsFollow
    BY <2>1, QuietFollow DEF SignalDuplicate, SignalRead
  <2>2. CASE SignalLock(c) \/ CrashConsumer(c)
    BY <2>2, QuietFollow DEF SignalLock, CrashConsumer
  <2> QED
    BY <1>4, <2>1, <2>2, CommitFollows DEF Consume
<1>5. ASSUME NEW w \in Workers, Transition(w) \/ Fault(w) \/ CrashWorker(w) PROVE EventsFollow
  <2>1. ASSUME NEW e \in events, Prepare(w, e) PROVE EventsFollow
    BY <2>1, QuietFollow DEF Prepare
  <2>2. CASE Abandon(w) \/ OpenTransition(w) \/ Fault(w) \/ CrashWorker(w)
    BY <2>2, QuietFollow DEF Abandon, OpenTransition, Fault, CrashWorker
  <2> QED
    BY <1>5, <2>1, <2>2, AppliesFollow, DeferFollows, FailFollows DEF Transition
<1> QED
  BY <1>1, <1>2, <1>3, <1>4, <1>5 DEF Next

LEMMA StepDates ==
    ASSUME SignalInv, [Next]_vars PROVE DatesKept
<1>1. CASE UNCHANGED request
  BY <1>1 DEF DatesKept
<1>2. CASE UNCHANGED vars \/ Tick
  BY <1>1, <1>2 DEF vars, Tick
<1>3. ASSUME NEW i \in Instances, Start(i) PROVE DatesKept
  BY <1>1, <1>3 DEF Start
<1>4. ASSUME NEW r \in Requests, NEW s \in Statuses,
             request' = [request EXCEPT ![r].status = s]
      PROVE  DatesKept
  BY <1>4, RequestTyped DEF DatesKept
<1>5. ASSUME NEW r \in Requests, WriteRequest(r) \/ CommitRequest(r) PROVE DatesKept
  <2>1. CASE WriteRequest(r)
    <3>1. \A q \in Requests : request[q].status # "absent" => request'[q] = request[q]
      BY <2>1 DEF WriteRequest, SignalInv, TypeOK
    <3> QED
      BY <3>1 DEF DatesKept
  <2>2. CASE CommitRequest(r)
    BY <1>4, <2>2 DEF CommitRequest, Statuses
  <2> QED
    BY <1>5, <2>1, <2>2
<1>6. ASSUME NEW c \in Consumers, Consume(c) \/ CrashConsumer(c) PROVE DatesKept
  <2>1. ASSUME NEW r \in Requests, SignalDuplicate(c, r) PROVE DatesKept
    BY <1>4, <2>1 DEF SignalDuplicate, Statuses
  <2>2. ASSUME NEW r \in Requests, SignalRead(c, r) PROVE DatesKept
    BY <1>1, <2>2 DEF SignalRead
  <2>3. CASE SignalLock(c) \/ CrashConsumer(c)
    BY <1>1, <2>3 DEF SignalLock, CrashConsumer
  <2>4. CASE SignalCommit(c)
    <3>1. PICK r, s : r = consumer[c].request /\ s = consumer[c].outcome
      OBVIOUS
    <3>2. ConsumerSound(c) /\ consumer[c].pc = "locked" /\ consumer[c] \in SignalTx
      BY <2>4 DEF SignalCommit, SignalInv, TypeOK
    <3>3. r \in Requests /\ s \in Statuses
      BY <3>1, <3>2 DEF ConsumerSound, SignalTx, Decisions, Statuses
    <3>4. request' = [request EXCEPT ![r].status = s]
      BY <2>4, <3>1 DEF SignalCommit
    <3> QED
      BY <1>4, <3>3, <3>4
  <2> QED
    BY <1>6, <2>1, <2>2, <2>3, <2>4 DEF Consume
<1>7. ASSUME NEW w \in Workers, Transition(w) \/ Fault(w) \/ CrashWorker(w) PROVE DatesKept
  <2>1. ASSUME NEW e \in events, Prepare(w, e) PROVE DatesKept
    BY <1>1, <2>1 DEF Prepare
  <2>2. CASE EnterWait(w)
    <3>1. \A r \in Requests : request[r].status # "unmatched" => request'[r] = request[r]
      BY <2>2 DEF EnterWait, Reopened
    <3> QED
      BY <3>1 DEF DatesKept
  <2>3. CASE ~EnterWait(w)
    BY <1>1, <1>7, <2>1, <2>3
       DEF Transition, Abandon, OpenTransition, AdvanceWork, CompleteWait, Complete, Defer,
           FailInstance, Fault, CrashWorker
  <2> QED
    BY <2>2, <2>3
<1> QED
  BY <1>2, <1>3, <1>5, <1>6, <1>7 DEF Next

\* What a step does to a consumer and to a worker.
ConsumerFollows(c) ==
    \/ consumer'[c] = consumer[c] \/ consumer'[c] = NoSignal
    \/ SignalLock(c) \/ \E r \in Requests : SignalRead(c, r)

LEMMA StepConsumers ==
    ASSUME SignalInv, [Next]_vars, NEW d \in Consumers PROVE ConsumerFollows(d)
<1>1. consumer \in [Consumers -> SignalTx]
  BY DEF SignalInv, TypeOK
<1>2. CASE UNCHANGED consumer
  BY <1>2 DEF ConsumerFollows
<1>3. CASE UNCHANGED vars \/ Tick
  BY <1>2, <1>3 DEF vars, Tick
<1>4. ASSUME NEW i \in Instances, Start(i) PROVE ConsumerFollows(d)
  BY <1>2, <1>4 DEF Start
<1>5. ASSUME NEW r \in Requests, WriteRequest(r) \/ CommitRequest(r) PROVE ConsumerFollows(d)
  BY <1>2, <1>5 DEF WriteRequest, CommitRequest
<1>6. ASSUME NEW c \in Consumers, Consume(c) \/ CrashConsumer(c) PROVE ConsumerFollows(d)
  <2>1. ASSUME NEW r \in Requests, SignalDuplicate(c, r) PROVE ConsumerFollows(d)
    BY <1>2, <2>1 DEF SignalDuplicate
  <2>2. ASSUME NEW t, consumer' = [consumer EXCEPT ![c] = t], c # d PROVE ConsumerFollows(d)
    BY <1>1, <2>2 DEF ConsumerFollows
  <2>3. ASSUME NEW r \in Requests, SignalRead(c, r) PROVE ConsumerFollows(d)
    <3>1. CASE c = d
      BY <2>3, <3>1 DEF ConsumerFollows
    <3>2. CASE c # d
      <4>1. PICK t : t = [NoSignal EXCEPT !.pc = "read", !.request = r,
                                          !.seen = [i \in Candidates |-> Marker(i)]]
        OBVIOUS
      <4> QED
        BY <2>2, <2>3, <3>2, <4>1 DEF SignalRead
    <3> QED
      BY <3>1, <3>2
  <2>4. CASE SignalLock(c)
    BY <2>2, <2>4, LockDecides DEF ConsumerFollows
  <2>5. CASE SignalCommit(c) \/ CrashConsumer(c)
    BY <1>1, <2>5 DEF SignalCommit, CrashConsumer, ConsumerFollows
  <2> QED
    BY <1>6, <2>1, <2>3, <2>4, <2>5 DEF Consume
<1>7. ASSUME NEW w \in Workers, Transition(w) \/ Fault(w) \/ CrashWorker(w)
      PROVE  ConsumerFollows(d)
  <2>1. ASSUME NEW e \in events, Prepare(w, e) PROVE ConsumerFollows(d)
    BY <1>2, <2>1 DEF Prepare
  <2> QED
    BY <1>2, <1>7, <2>1
       DEF Transition, Abandon, OpenTransition, AdvanceWork, EnterWait, CompleteWait, Complete,
           Defer, FailInstance, Fault, CrashWorker
<1> QED
  BY <1>3, <1>4, <1>5, <1>6, <1>7 DEF Next

-----------------------------------------------------------------------------
(* No signal is heard before the first wait *)

\* A timer of i was created no later than at.
Opened(i, at) == \E t \in events : t.kind = "timer" /\ t.inst = i /\ t.created <= at

SentSound(c) ==
    /\ consumer[c].pc = "read" =>
          \A i \in DOMAIN consumer[c].seen :
              consumer[c].seen[i] # None => Opened(i, consumer[c].seen[i].created)
    /\ consumer[c].pc = "locked" /\ consumer[c].target # None =>
          Persist \/ Opened(consumer[c].target, request[consumer[c].request].created)

SentInv ==
    /\ \A c \in Consumers : SentSound(c)
    /\ \A e \in events : e.kind = "signal" =>
          Persist \/ Opened(e.inst, request[e.request].created)

LEMMA OpenedStays ==
    ASSUME EventsFollow, NEW i, NEW at, Opened(i, at) PROVE Opened(i, at)'
<1>1. PICK t \in events : t.kind = "timer" /\ t.inst = i /\ t.created <= at
  BY DEF Opened
<1>2. PICK m \in events' : Follows(t, m)
  BY DEF EventsFollow
<1>3. m.kind = "timer" /\ m.inst = i /\ m.created <= at
  BY <1>1, <1>2 DEF Follows, Moved
<1> QED
  BY <1>3 DEF Opened

LEMMA MarkerOpened ==
    ASSUME SignalInv, NEW i, Marker(i) # None PROVE Opened(i, Marker(i).created)
<1>1. PICK T : T = {e \in Pending : e.kind = "timer" /\ e.inst = i /\ e.version = inst[i].version}
  OBVIOUS
<1>2. T # {}
  BY <1>1 DEF Marker
<1>3. PICK e : e = CHOOSE t \in T : TRUE
  OBVIOUS
<1>4. e \in T
  BY <1>2, <1>3
<1>5. Marker(i) = [created |-> e.created, available |-> e.available]
  BY <1>1, <1>2, <1>3 DEF Marker
<1>6. e \in events /\ e.kind = "timer" /\ e.inst = i /\ e \in EventType
  BY <1>1, <1>4 DEF Pending, SignalInv, TypeOK
<1>7. e.created <= Marker(i).created
  <2>1. e.created \in Nat
    BY <1>6, Numbers DEF EventType
  <2>2. Marker(i).created = e.created
    BY <1>5
  <2> QED
    BY <2>1, <2>2
<1> QED
  BY <1>6, <1>7 DEF Opened

LEMMA SentConsumer ==
    ASSUME SignalInv, SentInv, [Next]_vars, NEW c \in Consumers PROVE SentSound(c)'
<1>1. EventsFollow /\ DatesKept /\ ConsumerFollows(c)
  BY StepFollows, StepDates, StepConsumers
<1>2. SentSound(c) /\ ConsumerSound(c) /\ consumer[c] \in SignalTx
  BY DEF SentInv, SignalInv, TypeOK
<1>3. CASE consumer'[c] = consumer[c]
  <2>1. ASSUME consumer[c].pc = "read", NEW i \in DOMAIN consumer[c].seen,
               consumer[c].seen[i] # None
        PROVE  Opened(i, consumer[c].seen[i].created)'
    <3>1. PICK at : at = consumer[c].seen[i].created
      OBVIOUS
    <3>2. Opened(i, at)'
      BY <1>1, <1>2, <2>1, <3>1, OpenedStays DEF SentSound
    <3> QED
      BY <1>3, <3>1, <3>2 DEF Opened
  <2>2. ASSUME consumer[c].pc = "locked", consumer[c].target # None, ~Persist
        PROVE  Opened(consumer[c].target, request[consumer[c].request].created)'
    <3>1. PICK i, at : i = consumer[c].target /\ at = request[consumer[c].request].created
      OBVIOUS
    <3>2. consumer[c].request \in Requests
      BY <1>2, <2>2 DEF ConsumerSound, SignalTx
    <3>3. request'[consumer[c].request].created = at
      BY <1>1, <1>2, <2>2, <3>1, <3>2 DEF DatesKept, ConsumerSound
    <3>4. Opened(i, at)'
      BY <1>1, <1>2, <2>2, <3>1, OpenedStays DEF SentSound
    <3> QED
      BY <1>3, <3>1, <3>3, <3>4 DEF Opened
  <2> QED
    BY <1>3, <2>1, <2>2 DEF SentSound
<1>4. CASE consumer'[c] = NoSignal
  BY <1>4, NoSignalFits DEF SentSound
<1>5. CASE SignalLock(c)
  <2>1. PICK t \in SignalTx :
              /\ consumer'[c] = t /\ t.pc = "locked" /\ t.request = consumer[c].request
              /\ t.target # None => t.target \in Targets(c)
    BY <1>5, LockDecides
  <2>2. consumer[c].pc = "read" /\ UNCHANGED <<events, request>>
    BY <1>5 DEF SignalLock
  <2>3. ASSUME t.target # None, ~Persist PROVE Opened(t.target, request[t.request].created)
    <3>1. PICK i, r, m : i = t.target /\ r = consumer[c].request /\ m = consumer[c].seen[i]
      OBVIOUS
    <3>2. i \in DOMAIN consumer[c].seen
      BY <2>1, <2>3, <3>1 DEF Targets, Matching
    <3>3. Receptive(r, m)
      BY <2>1, <2>3, <3>1 DEF Targets, Persisted
    <3>4. m # None /\ m.created <= request[r].created
      BY <3>3 DEF Receptive, MarkerMatches, EnteredBefore
    <3>5. PICK u \in events : u.kind = "timer" /\ u.inst = i /\ u.created <= m.created
      BY <1>2, <2>2, <3>1, <3>2, <3>4 DEF SentSound, Opened
    <3>6. u.created \in Nat /\ m.created \in Nat /\ request[r].created \in Nat
      <4>1. r \in Requests /\ request[r].created \in Times
        BY <1>2, <2>2, <3>1 DEF ConsumerSound, SignalTx, SignalInv, TypeOK, RequestRow
      <4>2. m \in MarkerType
        <5>1. consumer[c].seen \in UNION {[S -> MarkerType \cup {None}] : S \in SUBSET Instances}
          BY <1>2 DEF SignalTx
        <5>2. PICK S \in SUBSET Instances : consumer[c].seen \in [S -> MarkerType \cup {None}]
          BY <5>1
        <5> QED
          BY <3>1, <3>2, <3>4, <5>2
      <4>3. u.created \in Times
        BY DEF SignalInv, TypeOK, EventType
      <4> QED
        BY <4>1, <4>2, <4>3, Numbers DEF MarkerType
    <3>7. u.created <= request[r].created
      BY <3>4, <3>5, <3>6
    <3>8. Opened(i, request[r].created)
      BY <3>5, <3>7 DEF Opened
    <3> QED
      BY <2>1, <3>1, <3>8
  <2>4. t.target # None => Persist \/ Opened(t.target, request[t.request].created)'
    BY <2>2, <2>3 DEF Opened
  <2> QED
    BY <2>1, <2>4 DEF SentSound
<1>6. ASSUME NEW r \in Requests, SignalRead(c, r) PROVE SentSound(c)'
  <2>1. PICK seen : seen = [i \in Candidates |-> Marker(i)]
    OBVIOUS
  <2>2. PICK t : t = [NoSignal EXCEPT !.pc = "read", !.request = r, !.seen = seen]
    OBVIOUS
  <2>3. t.pc = "read" /\ t.seen = seen
    BY <2>2 DEF NoSignal
  <2>4. consumer'[c] = t /\ UNCHANGED events
    BY <1>6, <2>1, <2>2 DEF SignalRead, SignalInv, TypeOK
  <2>5. ASSUME NEW i \in DOMAIN seen, seen[i] # None PROVE Opened(i, seen[i].created)'
    <3>1. Opened(i, seen[i].created)
      BY <2>1, <2>5, MarkerOpened
    <3> QED
      BY <2>4, <3>1 DEF Opened
  <2> QED
    BY <2>3, <2>4, <2>5 DEF SentSound, Opened
<1> QED
  BY <1>1, <1>3, <1>4, <1>5, <1>6 DEF ConsumerFollows

LEMMA SentInvKept ==
    ASSUME SignalInv, SentInv, [Next]_vars PROVE SentInv'
<1>1. EventsFollow /\ DatesKept
  BY StepFollows, StepDates
<1>2. ASSUME NEW m \in events', m.kind = "signal", ~Persist
      PROVE  Opened(m.inst, request[m.request].created)'
  <2>1. CASE Known(m)
    <3>1. PICK e \in events : Id(e) = Id(m)
      BY <2>1 DEF Known
    <3>2. e.kind = "signal" /\ e.inst = m.inst /\ e.request = m.request
      BY <1>2, <3>1, IdIsFields
    <3>3. e.request \in Requests /\ request[e.request].status = "consumed"
      BY <3>2 DEF SignalInv, EventSound
    <3>4. PICK i, at : i = e.inst /\ at = request[e.request].created
      OBVIOUS
    <3>5. Opened(i, at)'
      BY <1>1, <1>2, <3>2, <3>4, OpenedStays DEF SentInv
    <3>6. request'[m.request].created = at
      BY <1>1, <3>2, <3>3, <3>4 DEF DatesKept
    <3> QED
      BY <3>2, <3>4, <3>5, <3>6 DEF Opened
  <2>2. CASE Inserted(m)
    <3>1. PICK c \in Consumers : Delivers(c, m)
      BY <1>2, <2>2 DEF Inserted
    <3>2. PICK i, r, at : i = consumer[c].target /\ r = consumer[c].request
                          /\ at = request[r].created
      OBVIOUS
    <3>3. /\ consumer[c].pc = "locked" /\ i \in Instances
          /\ m = SignalEvent(i, inst[i].version, r)
      BY <3>1, <3>2 DEF Delivers
    <3>4. m.inst = i /\ m.request = r
      BY <3>3 DEF SignalEvent
    <3>5. r \in Requests /\ request[r].status = "pending"
      BY <3>2, <3>3 DEF SignalInv, TypeOK, ConsumerSound, SignalTx
    <3>6. Opened(i, at)'
      BY <1>1, <1>2, <3>2, <3>3, Numbers, OpenedStays DEF SentInv, SentSound
    <3>7. request'[r].created = at
      BY <1>1, <3>2, <3>5 DEF DatesKept
    <3> QED
      BY <3>4, <3>6, <3>7 DEF Opened
  <2> QED
    BY <1>1, <2>1, <2>2 DEF EventsFollow
<1>3. \A c \in Consumers : SentSound(c)'
  BY SentConsumer
<1> QED
  BY <1>2, <1>3 DEF SentInv

\* An instance whose wait takes no early signals hears none sent before it first
\* entered that wait, however often it comes back to it: the marker
\* consume_one_signal compares with may be an older wait's, as the snapshot is
\* older than the lock on the instance, but it is one of the instance's own.
THEOREM NoneHeardEarly == Spec => []NotHeardEarly
<1>1. Init => SentInv
  BY NoSignalFits DEF Init, SentInv, SentSound
<1>2. SignalInv /\ SentInv /\ [Next]_vars => SentInv'
  BY SentInvKept
<1>3. SentInv => NotHeardEarly
  BY DEF SentInv, NotHeardEarly, Opened
<1> QED
  BY <1>1, <1>2, <1>3, SignalInvHolds, PTL DEF Spec

-----------------------------------------------------------------------------
(* Waits that are entered once *)

\* Timers outlive every step.
LEMMA TimersStay ==
    ASSUME NEW C, NEW M, NEW F, Rewritten(C, M, F), NEW t \in events
    PROVE  \E u \in events' : /\ u.kind = t.kind /\ u.inst = t.inst /\ u.version = t.version
                              /\ u.created = t.created /\ u.deadline = t.deadline
                              /\ u.attempts = 0 => t.attempts = 0
<1>1. events' = (events \ C) \cup M \cup F
  BY DEF Rewritten
<1>2. CASE t \in C
  <2>1. PICK m \in M : Moved(t, m)
    BY <1>2 DEF Rewritten
  <2> QED
    BY <1>1, <2>1 DEF Moved
<1>3. CASE t \notin C
  BY <1>1, <1>3
<1> QED
  BY <1>2, <1>3

\* So a request that suits a wait goes on suiting it.
LEMMA SuitsStays ==
    ASSUME NEW C, NEW M, NEW F, Rewritten(C, M, F), NEW r, NEW i, Suits(r, i),
           request'[r].created = request[r].created
    PROVE  Suits(r, i)'
<1>1. PICK t \in events :
        /\ IsTimer(t, i)
        /\ Persist \/ t.created <= request[r].created
        /\ t.attempts = 0 => request[r].created <= t.deadline
  BY DEF Suits
<1>2. PICK u \in events' : /\ u.kind = t.kind /\ u.inst = t.inst /\ u.version = t.version
                           /\ u.created = t.created /\ u.deadline = t.deadline
                           /\ u.attempts = 0 => t.attempts = 0
  BY TimersStay
<1>3. IsTimer(u, i)'
  BY <1>1, <1>2 DEF IsTimer
<1>4. (Persist \/ u.created <= request'[r].created)
      /\ (u.attempts = 0 => request'[r].created <= u.deadline)
  BY <1>1, <1>2
<1> QED
  BY <1>2, <1>3, <1>4 DEF Suits

LEMMA KindsStay ==
    ASSUME SignalInv, OnceInv, NEW C, NEW M, NEW F, Rewritten(C, M, F), DatesKept,
           \A f \in F : KindSound(f)'
    PROVE  \A e \in events' : KindSound(e)'
<1>1. ASSUME NEW e \in events, NEW m, m.kind = e.kind, m.inst = e.inst,
             m.version = e.version, m.request = e.request
      PROVE  KindSound(m)'
  <2>1. KindSound(e) /\ EventSound(e)
    BY DEF OnceInv, SignalInv
  <2>2. CASE e.kind = "signal"
    <3>1. Suits(e.request, e.inst) /\ request'[e.request].created = request[e.request].created
      BY <2>1, <2>2 DEF KindSound, EventSound, DatesKept
    <3>2. Suits(e.request, e.inst)'
      BY <3>1, SuitsStays
    <3>3. Suits(m.request, m.inst)'
      BY <1>1, <3>2
    <3> QED
      BY <1>1, <2>1, <2>2, <3>3 DEF KindSound
  <2>3. CASE e.kind # "signal"
    BY <1>1, <2>1, <2>3 DEF KindSound
  <2> QED
    BY <2>2, <2>3
<1>2. \A e \in events : KindSound(e)'
  BY <1>1
<1>3. \A m \in M : KindSound(m)'
  <2>1. ASSUME NEW m \in M PROVE KindSound(m)'
    <3>1. PICK c \in C : Moved(c, m)
      BY DEF Rewritten
    <3>2. c \in events
      BY DEF Rewritten
    <3> QED
      BY <1>1, <3>1, <3>2 DEF Moved
  <2> QED
    BY <2>1
<1> QED
  BY <1>2, <1>3 DEF Rewritten

\* What a consumer knows of the one timer goes on being so.
LEMMA MarkersStay ==
    ASSUME SignalInv, OnceInv, NEW C, NEW M, NEW F, Rewritten(C, M, F), DatesKept,
           NEW c \in Consumers, consumer'[c] = consumer[c]
    PROVE  MarkerSound(c)'
<1>1. MarkerSound(c) /\ ConsumerSound(c)
  BY DEF OnceInv, SignalInv
<1>2. ASSUME consumer[c].pc = "read", NEW i \in DOMAIN consumer[c].seen,
             consumer[c].seen[i] # None
      PROVE  \E u \in events' :
                /\ IsTimer(u, i)'
                /\ consumer[c].seen[i].created = u.created
                /\ u.attempts = 0 => consumer[c].seen[i].available = u.deadline
  <2>1. PICK t \in events :
                /\ IsTimer(t, i)
                /\ consumer[c].seen[i].created = t.created
                /\ t.attempts = 0 => consumer[c].seen[i].available = t.deadline
    BY <1>1, <1>2 DEF MarkerSound
  <2>2. PICK u \in events' : /\ u.kind = t.kind /\ u.inst = t.inst /\ u.version = t.version
                             /\ u.created = t.created /\ u.deadline = t.deadline
                             /\ u.attempts = 0 => t.attempts = 0
    BY TimersStay
  <2>3. IsTimer(u, i)'
    BY <2>1, <2>2 DEF IsTimer
  <2> QED
    BY <2>1, <2>2, <2>3
<1>3. ASSUME consumer[c].pc = "locked", consumer[c].target # None
      PROVE  Suits(consumer[c].request, consumer[c].target)'
  <2>1. consumer[c].request \in Requests
    BY <1>1, <1>3 DEF SignalInv, TypeOK, SignalTx, ConsumerSound
  <2>2. PICK r, i : r = consumer[c].request /\ i = consumer[c].target
    OBVIOUS
  <2>3. Suits(r, i) /\ request'[r].created = request[r].created
    BY <1>1, <1>3, <2>1, <2>2 DEF MarkerSound, ConsumerSound, DatesKept
  <2>4. Suits(r, i)'
    BY <2>3, SuitsStays
  <2> QED
    BY <2>2, <2>4
<1> QED
  BY <1>2, <1>3 DEF MarkerSound

\* What a step has to show of OnceInv.
LEMMA OnceStep ==
    ASSUME SignalInv, OnceInv, NEW C, NEW M, NEW F, Rewritten(C, M, F), DatesKept,
           \A f \in F : KindSound(f)',
           \A i \in Instances : PhaseSound(i)' /\ DueSound(i)',
           \A c \in Consumers : consumer'[c] = consumer[c] \/ MarkerSound(c)'
    PROVE  OnceInv'
<1>1. \A e \in events' : KindSound(e)'
  BY KindsStay
<1>2. \A c \in Consumers : MarkerSound(c)'
  BY MarkersStay
<1> QED
  BY <1>1, <1>2 DEF OnceInv

\* An instance keeps its phase and its events.
LEMMA InstanceStays ==
    ASSUME OnceInv, NEW i \in Instances, inst'[i] = inst[i],
           \A e \in events' : e.inst = i <=> e \in events /\ e.inst = i,
           \A e \in events : e.inst = i => e \in events'
    PROVE  PhaseSound(i)' /\ DueSound(i)'
<1>1. PhaseSound(i) /\ DueSound(i)
  BY DEF OnceInv
<1>2. PhaseSound(i)'
  BY <1>1 DEF PhaseSound
<1>3. DueSound(i)'
  BY <1>1 DEF DueSound, Pending
<1> QED
  BY <1>2, <1>3

\* A step that moves neither instances nor events.
LEMMA OnceQuiet ==
    ASSUME SignalInv, OnceInv, UNCHANGED <<inst, events>>, DatesKept,
           \A c \in Consumers : consumer'[c] = consumer[c] \/ MarkerSound(c)'
    PROVE  OnceInv'
<1>1. Rewritten({}, {}, {})
  BY Unmoved
<1>2. \A f \in {} : KindSound(f)'
  OBVIOUS
<1>3. \A i \in Instances : PhaseSound(i)' /\ DueSound(i)'
  BY InstanceStays
<1> QED
  BY <1>1, <1>2, <1>3, OnceStep

\* The pending events of a running instance at one of its versions.
LEMMA PendingKinds ==
    ASSUME SignalInv, OnceInv, NEW i \in Instances, inst[i].status = "running",
           NEW e \in Pending, e.inst = i
    PROVE  /\ e \in events /\ e.version = inst[i].version
           /\ e.kind \in {"continue", "timer", "signal"}
           /\ e.kind = "continue" <=> inst[i].version # 2
           /\ e.kind # "signal" => e.request = None
           /\ inst[i].version = 2 => inst[i].state = "wait"
<1>1. e \in events /\ e \in EventType /\ EventSound(e) /\ KindSound(e)
  BY DEF Pending, SignalInv, TypeOK, OnceInv
<1>2. e.version = inst[i].version
  BY DEF OnceInv, DueSound
<1>3. PhaseSound(i)
  BY DEF OnceInv
<1>4. e.kind \in {"continue", "timer", "signal"}
  BY <1>1 DEF EventType
<1>5. inst[i].version = 2 => inst[i].state = "wait"
  BY <1>3 DEF PhaseSound
<1> QED
  BY <1>1, <1>2, <1>4, <1>5 DEF EventSound, KindSound

\* Outside the wait only one event is pending.
LEMMA OneToken ==
    ASSUME SignalInv, OnceInv, NEW i \in Instances, inst[i].status = "running",
           inst[i].version # 2, NEW e \in Pending, e.inst = i, NEW f \in Pending, f.inst = i
    PROVE  e = f
<1>1. /\ e \in events /\ f \in events /\ e.version = f.version
      /\ e.kind = "continue" /\ f.kind = "continue"
      /\ e.request = None /\ f.request = None
  BY PendingKinds
<1>2. Id(e) = Id(f)
  BY <1>1, IdIsFields
<1> QED
  BY <1>1, <1>2 DEF SignalInv, TypeOK

\* An instance moves on to its next version: what was pending of it is closed,
\* and a token or a timer of the new version inserted.
LEMMA OnceApplied ==
    ASSUME SignalInv, OnceInv, NEW i \in Instances, NEW x,
           inst' = [inst EXCEPT ![i] = x],
           x.status = "running" =>
               \/ x.version \in {1, 2} /\ x.state = "wait"
               \/ x.version = 3 /\ x.state = "output",
           x.status # "absent",
           NEW C, NEW M, NEW F, Rewritten(C, M, F), DatesKept, UNCHANGED consumer,
           \A e \in C \cup F : e.inst = i,
           x.status = "running" =>
               /\ \A e \in Pending : e.inst = i => e \in C
               /\ \A m \in M : m.status # "pending"
               /\ \E f \in F : f.status = "pending" /\ f.kind # "signal"
               /\ \A f \in F : f.version = x.version,
           \A f \in F : KindSound(f)'
    PROVE  OnceInv'
<1>1. inst \in [Instances -> InstanceRow]
  BY DEF SignalInv, TypeOK
<1>2. \A j \in Instances : inst'[j] = IF j = i THEN x ELSE inst[j]
  BY <1>1
<1>3. events' = (events \ C) \cup M \cup F /\ C \subseteq events
  BY DEF Rewritten
<1>4. \A m \in M : m.inst = i
  BY DEF Rewritten, Moved
<1>5. ASSUME NEW j \in Instances, j # i PROVE PhaseSound(j)' /\ DueSound(j)'
  <2>1. \A e \in events' : e.inst = j <=> e \in events /\ e.inst = j
    BY <1>3, <1>4, <1>5
  <2>2. \A e \in events : e.inst = j => e \in events'
    BY <1>3, <1>5
  <2> QED
    BY <1>2, <1>5, <2>1, <2>2, InstanceStays
<1>6. PhaseSound(i)'
  BY <1>2 DEF PhaseSound
<1>7. DueSound(i)'
  <2>1. CASE x.status = "running"
    <3>1. PICK f \in F : f.status = "pending" /\ f.kind # "signal"
      BY <2>1
    <3>2. f \in Pending' /\ f.inst = i /\ f.version = x.version
      BY <1>3, <2>1, <3>1 DEF Pending
    <3>3. \A e \in Pending' : e.inst = i => e.version = x.version
      BY <1>3, <2>1 DEF Pending
    <3>4. inst'[i] = x
      BY <1>2
    <3> QED
      BY <3>1, <3>2, <3>3, <3>4 DEF DueSound
  <2>2. CASE x.status # "running"
    BY <1>2, <2>2 DEF DueSound
  <2> QED
    BY <2>1, <2>2
<1> QED
  BY <1>5, <1>6, <1>7, OnceStep

LEMMA AppliedRewrites ==
    ASSUME SignalInv, NEW i \in Instances, NEW C, NEW M, NEW F, Updates(C, M), Opens(F, i),
           events' = (events \ C) \cup M \cup F
    PROVE  Rewritten(C, M, F)
<1>1. inst[i].version \in Nat
  BY DEF SignalInv, TypeOK, InstanceRow
<1>2. \A f \in F, e \in events : Id(e) # Id(f)
  <2>1. ASSUME NEW f \in F, NEW e \in events, Id(e) = Id(f) PROVE FALSE
    <3>1. e.inst = i /\ e.version = inst[i].version + 1
      BY <2>1, IdIsFields DEF Opens
    <3>2. e.version <= inst[e.inst].version
      BY DEF SignalInv, EventSound
    <3> QED
      BY <1>1, <3>1, <3>2
  <2> QED
    BY <2>1
<1> QED
  BY <1>2 DEF Rewritten, Updates, Opens

LEMMA OneUpdates ==
    ASSUME SignalInv, NEW e \in events
    PROVE  Updates({e}, {Closed(e, "consumed")}) /\ Closed(e, "consumed").status = "consumed"
<1>1. e \in EventType
  BY DEF SignalInv, TypeOK
<1>2. Moved(e, Closed(e, "consumed")) /\ Closed(e, "consumed").status = "consumed"
  BY <1>1, ClosedMoves
<1> QED
  BY <1>2 DEF Updates

\* Outside the wait a running instance i consumes its one event e and gets f.
HandsOver(i, e, x, f) ==
    /\ e \in Pending /\ e.inst = i
    /\ inst[i].status = "running" /\ inst[i].version # 2
    /\ inst' = [inst EXCEPT ![i] = x] /\ x.status = "running"
    /\ x.version = inst[i].version + 1 /\ x.version \in {1, 2} /\ x.state = "wait"
    /\ events' = (events \ {e}) \cup {Closed(e, "consumed")} \cup {f}
    /\ f \in EventType /\ f.inst = i /\ f.version = inst[i].version + 1 /\ f.request = None
    /\ f.available = f.deadline /\ f.kind # "signal" /\ f.status = "pending"

LEMMA OnceAppliedOne ==
    ASSUME SignalInv, OnceInv, NEW i \in Instances, NEW e, NEW x, NEW f,
           HandsOver(i, e, x, f), KindSound(f)', DatesKept, UNCHANGED consumer
    PROVE  OnceInv'
<1> USE DEF HandsOver
<1>1. PICK C, M, F : C = {e} /\ M = {Closed(e, "consumed")} /\ F = {f}
  OBVIOUS
<1>2. e \in events
  BY DEF Pending
<1>3. Updates(C, M) /\ \A m \in M : m.status # "pending"
  BY <1>1, <1>2, OneUpdates
<1>4. Opens(F, i) /\ events' = (events \ C) \cup M \cup F
  BY <1>1 DEF Opens
<1>5. Rewritten(C, M, F)
  BY <1>3, <1>4, AppliedRewrites
<1>6. \A g \in Pending : g.inst = i => g \in C
  BY <1>1, OneToken
<1>7. /\ \A g \in C \cup F : g.inst = i
      /\ \E g \in F : g.status = "pending" /\ g.kind # "signal"
      /\ \A g \in F : g.version = x.version
      /\ \A g \in F : KindSound(g)'
  BY <1>1
<1>8. x.status # "absent"
  OBVIOUS
<1> QED
  BY <1>3, <1>5, <1>6, <1>7, <1>8, OnceApplied

LEMMA AdvanceWorkOnce ==
    ASSUME SignalInv, OnceInv, NEW w \in Workers, AdvanceWork(w)
    PROVE  OnceInv'
<1>1. PICK e : e = PreparedEvent(w)
  OBVIOUS
<1>2. PICK i : i = e.inst
  OBVIOUS
<1>3. /\ e \in events /\ i \in Instances /\ e.status = "pending"
      /\ inst \in [Instances -> InstanceRow]
      /\ inst[i].status = "running" /\ inst[i].state = "work" /\ now \in Times
  BY <1>1, <1>2, ApplyFacts DEF AdvanceWork, RunsWork
<1>4. inst[i].version = 0
  BY <1>3 DEF OnceInv, PhaseSound
<1>5. PICK x : x = [inst[i] EXCEPT !.state = "wait", !.version = inst[i].version + 1]
  OBVIOUS
<1>6. x.version = inst[i].version + 1 /\ x.version = 1 /\ x.status = "running" /\ x.state = "wait"
  BY <1>3, <1>4, <1>5 DEF InstanceRow, States
<1>7. inst' = [inst EXCEPT ![i] = x]
  BY <1>1, <1>2, <1>3, <1>5 DEF AdvanceWork
<1>8. PICK f : f = ContinueEvent(i, inst[i].version + 1, now)
  OBVIOUS
<1>9. /\ f \in EventType /\ f.inst = i /\ f.version = inst[i].version + 1 /\ f.version = 1
      /\ f.available = f.deadline /\ f.kind = "continue" /\ f.request = None
      /\ f.status = "pending"
  <2>1. inst[i].version + 1 \in Nat /\ inst[i].version + 1 = 1
    BY <1>4
  <2> QED
    BY <1>3, <1>8, <2>1, ContinueFits
<1>10. events' = (events \ {e}) \cup {Closed(e, "consumed")} \cup {f}
  BY <1>1, <1>2, <1>8 DEF AdvanceWork
<1>11. KindSound(f)'
  BY <1>9 DEF KindSound
<1>12. DatesKept /\ UNCHANGED consumer /\ e \in Pending
  BY <1>3 DEF AdvanceWork, DatesKept, Pending
<1> QED
  <2>1. HandsOver(i, e, x, f)
    BY <1>2, <1>3, <1>4, <1>6, <1>7, <1>9, <1>10, <1>12 DEF HandsOver
  <2> QED
    BY <1>3, <1>11, <1>12, <2>1, OnceAppliedOne

LEMMA EnterWaitOnce ==
    ASSUME SignalInv, OnceInv, NEW w \in Workers, EnterWait(w)
    PROVE  OnceInv'
<1>1. PICK e : e = PreparedEvent(w)
  OBVIOUS
<1>2. PICK i : i = e.inst
  OBVIOUS
<1>3. /\ e \in events /\ i \in Instances /\ e.status = "pending" /\ e.kind = "continue"
      /\ inst \in [Instances -> InstanceRow] /\ request \in [Requests -> RequestRow]
      /\ inst[i].status = "running" /\ inst[i].state = "wait" /\ now \in Times
  BY <1>1, <1>2, ApplyFacts DEF EnterWait, EntersWait
<1>4. e \in Pending
  BY <1>3 DEF Pending
<1>5. inst[i].version = 1
  <2>1. inst[i].version # 2
    BY <1>2, <1>3, <1>4, PendingKinds
  <2>2. PhaseSound(i)
    BY <1>3 DEF OnceInv
  <2> QED
    BY <1>3, <2>1, <2>2 DEF PhaseSound
<1>6. PICK at \in Times :
        /\ inst' = [inst EXCEPT ![i].version = @ + 1]
        /\ events' = (events \ {e}) \cup
              {Closed(e, "consumed"), TimerEvent(i, inst[i].version + 1, at)}
  BY <1>1, <1>2 DEF EnterWait, Deadlines
<1>7. PICK x : x = [inst[i] EXCEPT !.version = inst[i].version + 1]
  OBVIOUS
<1>8. x.version = inst[i].version + 1 /\ x.version = 2 /\ x.status = "running" /\ x.state = "wait"
  BY <1>3, <1>5, <1>7 DEF InstanceRow
<1>9. inst' = [inst EXCEPT ![i] = x]
  BY <1>3, <1>6, <1>7
<1>10. PICK f : f = TimerEvent(i, inst[i].version + 1, at)
  OBVIOUS
<1>11. /\ f \in EventType /\ f.inst = i /\ f.version = inst[i].version + 1 /\ f.version = 2
       /\ f.available = f.deadline /\ f.kind = "timer" /\ f.request = None
       /\ f.status = "pending"
  <2>1. inst[i].version + 1 \in Nat /\ inst[i].version + 1 = 2
    BY <1>5
  <2> QED
    BY <1>3, <1>10, <2>1, TimerFits
<1>12. events' = (events \ {e}) \cup {Closed(e, "consumed")} \cup {f}
  BY <1>6, <1>10
<1>13. KindSound(f)'
  BY <1>11 DEF KindSound
<1>14. DatesKept
  <2>1. request' = Reopened
    BY DEF EnterWait
  <2>2. \A r \in Requests : request[r].status # "unmatched" => request'[r] = request[r]
    BY <2>1 DEF Reopened
  <2> QED
    BY <2>2 DEF DatesKept
<1>15. UNCHANGED consumer
  BY DEF EnterWait
<1> QED
  <2>1. HandsOver(i, e, x, f)
    BY <1>2, <1>3, <1>4, <1>5, <1>8, <1>9, <1>11, <1>12 DEF HandsOver
  <2> QED
    BY <1>3, <1>13, <1>14, <1>15, <2>1, OnceAppliedOne

LEMMA CompleteWaitOnce ==
    ASSUME EnteredOnce, SignalInv, OnceInv, NEW w \in Workers, CompleteWait(w)
    PROVE  OnceInv'
<1>1. PICK e : e = PreparedEvent(w)
  OBVIOUS
<1>2. PICK i : i = e.inst
  OBVIOUS
<1>3. /\ e \in events /\ i \in Instances /\ e.status = "pending" /\ e.kind # "continue"
      /\ inst \in [Instances -> InstanceRow]
      /\ inst[i].status = "running" /\ inst[i].state = "wait" /\ now \in Times
  BY <1>1, <1>2, ApplyFacts DEF CompleteWait, CompletesWait
<1>4. e \in Pending
  BY <1>3 DEF Pending
<1>5. inst[i].version = 2
  BY <1>2, <1>3, <1>4, PendingKinds
<1>6. PICK next \in AfterWait(i) :
         inst' = [inst EXCEPT ![i].state = next, ![i].version = @ + 1]
  BY <1>1, <1>2 DEF CompleteWait
<1>7. next = "output"
  BY <1>5, <1>6, Numbers DEF AfterWait, EnteredOnce
<1>8. PICK x : x = [inst[i] EXCEPT !.state = next, !.version = inst[i].version + 1]
  OBVIOUS
<1>9. x.version = 3 /\ x.status = "running" /\ x.state = "output"
  BY <1>3, <1>5, <1>7, <1>8 DEF InstanceRow, States
<1>10. inst' = [inst EXCEPT ![i] = x]
  BY <1>3, <1>6, <1>8
<1>11. PICK f : f = ContinueEvent(i, inst[i].version + 1, now)
  OBVIOUS
<1>12. /\ f \in EventType /\ f.inst = i /\ f.version = inst[i].version + 1 /\ f.version = 3
       /\ f.available = f.deadline /\ f.kind = "continue" /\ f.request = None
       /\ f.status = "pending"
  <2>1. inst[i].version + 1 \in Nat /\ inst[i].version + 1 = 3
    BY <1>5
  <2> QED
    BY <1>3, <1>11, <2>1, ContinueFits
<1>13. PICK C, M, F : C = Race(e) /\ M = Settled(e) /\ F = {f}
  OBVIOUS
<1>14. events' = ((events \ {e}) \ Competitors(e)) \cup
                    {Closed(s, "failed") : s \in Competitors(e)} \cup
                    {Closed(e, "consumed"), f}
  BY <1>1, <1>2, <1>11 DEF CompleteWait
<1>15. events' = (events \ C) \cup M \cup F
  BY <1>13, <1>14 DEF Race, Settled
<1>16. Updates(C, M) /\ Opens(F, i)
  BY <1>3, <1>12, <1>13, RaceSettles DEF Opens
<1>17. Rewritten(C, M, F)
  BY <1>3, <1>15, <1>16, AppliedRewrites
<1>18. ASSUME NEW g \in Pending, g.inst = i PROVE g \in C
  <2>1. g \in events /\ g.kind \in {"signal", "timer"} /\ g.version = 2
    BY <1>3, <1>5, <1>18, PendingKinds
  <2>2. e.version = 2
    BY <1>2, <1>3, <1>4, <1>5, PendingKinds
  <2>3. g \in WaitEvents(e.inst, e.version)
    BY <1>2, <1>18, <2>1, <2>2 DEF WaitEvents
  <2> QED
    BY <1>13, <1>18, <2>3 DEF Race, Competitors
<1>19. \A g \in C \cup F : g.inst = i
  BY <1>2, <1>12, <1>13 DEF Race, Competitors, WaitEvents
<1>20. \A m \in M : m.status # "pending"
  <2>1. \A s \in events : Closed(s, "failed").status = "failed"
                          /\ Closed(s, "consumed").status = "consumed"
    BY ClosedMoves DEF SignalInv, TypeOK
  <2>2. Competitors(e) \subseteq events
    BY DEF Competitors, Pending
  <2> QED
    BY <1>3, <1>13, <2>1, <2>2 DEF Settled
<1>21. /\ \E g \in F : g.status = "pending" /\ g.kind # "signal"
       /\ \A g \in F : g.version = x.version
       /\ \A g \in F : KindSound(g)'
  BY <1>9, <1>12, <1>13 DEF KindSound
<1>22. DatesKept /\ UNCHANGED consumer /\ x.status # "absent"
  BY <1>9 DEF CompleteWait, DatesKept
<1> QED
  BY <1>3, <1>9, <1>10, <1>17, <1>18, <1>19, <1>20, <1>21, <1>22, OnceApplied

\* An instance that ends.
LEMMA OnceEnds ==
    ASSUME SignalInv, OnceInv, NEW e \in events, NEW i \in Instances, e.inst = i, NEW x,
           inst' = [inst EXCEPT ![i] = x], x.status \in {"terminal", "failed"},
           events' = (events \ {e}) \cup {Closed(e, "consumed")},
           DatesKept, UNCHANGED consumer
    PROVE  OnceInv'
<1>1. PICK C, M, F : C = {e} /\ M = {Closed(e, "consumed")} /\ F = {}
  OBVIOUS
<1>2. Updates(C, M)
  BY <1>1, OneUpdates
<1>3. Opens(F, i) /\ events' = (events \ C) \cup M \cup F
  BY <1>1 DEF Opens
<1>4. Rewritten(C, M, F)
  BY <1>2, <1>3, AppliedRewrites
<1>5. /\ \A g \in C \cup F : g.inst = i
      /\ \A g \in F : KindSound(g)'
      /\ x.status # "absent" /\ x.status # "running"
  BY <1>1
<1> QED
  BY <1>4, <1>5, OnceApplied

LEMMA CompleteOnce ==
    ASSUME SignalInv, OnceInv, NEW w \in Workers, Complete(w)
    PROVE  OnceInv'
<1>1. PICK e : e = PreparedEvent(w)
  OBVIOUS
<1>2. PICK i : i = e.inst
  OBVIOUS
<1>3. e \in events /\ i \in Instances /\ inst \in [Instances -> InstanceRow]
  BY <1>1, <1>2, ApplyFacts DEF Complete
<1>4. PICK x : x = [inst[i] EXCEPT !.status = "terminal", !.version = inst[i].version + 1]
  OBVIOUS
<1>5. x.status = "terminal"
  BY <1>3, <1>4 DEF InstanceRow
<1>6. inst' = [inst EXCEPT ![i] = x]
  BY <1>1, <1>2, <1>3, <1>4 DEF Complete
<1>7. events' = (events \ {e}) \cup {Closed(e, "consumed")}
  BY <1>1 DEF Complete
<1>8. DatesKept /\ UNCHANGED consumer
  BY DEF Complete, DatesKept
<1> QED
  BY <1>2, <1>3, <1>5, <1>6, <1>7, <1>8, OnceEnds

LEMMA FailInstanceOnce ==
    ASSUME SignalInv, OnceInv, NEW w \in Workers, FailInstance(w)
    PROVE  OnceInv'
<1>1. DatesKept /\ UNCHANGED consumer
  BY DEF FailInstance, DatesKept
<1>2. CASE ~FailsInstance(w)
  BY <1>1, <1>2, OnceQuiet DEF FailInstance
<1>3. CASE FailsInstance(w)
  <2>1. PICK e : e = PreparedEvent(w)
    OBVIOUS
  <2>2. PICK i : i = e.inst
    OBVIOUS
  <2>3. e \in events /\ i \in Instances /\ inst \in [Instances -> InstanceRow]
    BY <2>1, <2>2, PreparedFacts DEF FailInstance, SignalInv, TypeOK
  <2>4. PICK x : x = [inst[i] EXCEPT !.status = "failed", !.version = inst[i].version + 1]
    OBVIOUS
  <2>5. x.status = "failed"
    BY <2>3, <2>4 DEF InstanceRow
  <2>6. inst' = [inst EXCEPT ![i] = x]
    BY <1>3, <2>1, <2>2, <2>3, <2>4 DEF FailInstance
  <2>7. events' = (events \ {e}) \cup {Closed(e, "consumed")}
    BY <1>3, <2>1 DEF FailInstance
  <2> QED
    BY <1>1, <2>2, <2>3, <2>5, <2>6, <2>7, OnceEnds
<1> QED
  BY <1>2, <1>3

LEMMA DeferOnce ==
    ASSUME SignalInv, OnceInv, NEW w \in Workers, Defer(w)
    PROVE  OnceInv'
<1>1. PICK e : e = PreparedEvent(w)
  OBVIOUS
<1>2. e \in events /\ e \in EventType
  BY <1>1, PreparedFacts DEF Defer
<1>3. DatesKept /\ UNCHANGED <<consumer, inst>> /\ now \in Times
  BY DEF Defer, DatesKept, SignalInv, TypeOK
<1>4. CASE e.status # "pending"
  BY <1>1, <1>3, <1>4, OnceQuiet DEF Defer
<1>5. CASE e.status = "pending"
  <2>1. Earlier(now + 1, MaxTime) \in Times /\ e.attempts \in Nat /\ e.attempts + 1 \in Nat
    BY <1>2, <1>3, Numbers DEF Earlier, Times, EventType
  <2>2. PICK n \in Nat, t \in Times : n = e.attempts + 1 /\ t = Earlier(now + 1, MaxTime)
    BY <2>1
  <2>3. PICK m : m = [e EXCEPT !.attempts = n, !.available = t]
    OBVIOUS
  <2>4. m \in EventType /\ m.attempts = n /\ m.status = "pending"
        /\ m.kind = e.kind /\ m.inst = e.inst /\ m.version = e.version /\ m.request = e.request
        /\ m.created = e.created /\ m.deadline = e.deadline
    BY <1>2, <1>5, <2>3 DEF EventType
  <2>5. Moved(e, m)
    BY <2>1, <2>2, <2>4 DEF Moved
  <2>6. events' = (events \ {e}) \cup {m}
    BY <1>1, <1>5, <2>2, <2>3 DEF Defer
  <2>7. PICK C, M : C = {e} /\ M = {m}
    OBVIOUS
  <2>8. Rewritten(C, M, {})
    BY <1>2, <2>5, <2>6, <2>7 DEF Rewritten
  <2>9. ASSUME NEW i \in Instances PROVE PhaseSound(i)' /\ DueSound(i)'
    <3>1. PhaseSound(i) /\ DueSound(i)
      BY DEF OnceInv
    <3>2. PhaseSound(i)'
      BY <1>3, <3>1 DEF PhaseSound
    <3>3. e \in Pending /\ m \in Pending' /\ Pending' = (Pending \ {e}) \cup {m}
      BY <1>2, <1>5, <2>4, <2>6 DEF Pending
    <3>4. DueSound(i)'
      BY <1>3, <2>4, <3>1, <3>3 DEF DueSound
    <3> QED
      BY <3>2, <3>4
  <2>10. \A f \in {} : KindSound(f)'
    OBVIOUS
  <2> QED
    BY <1>3, <2>8, <2>9, <2>10, OnceStep
<1> QED
  BY <1>4, <1>5

LEMMA StartOnce ==
    ASSUME SignalInv, OnceInv, NEW i \in Instances, Start(i)
    PROVE  OnceInv'
<1>1. inst \in [Instances -> InstanceRow] /\ now \in Times /\ inst[i].status = "absent"
  BY DEF SignalInv, TypeOK, Start
<1>2. inst[i].version = 0 /\ inst[i].state = "work"
  BY <1>1 DEF OnceInv, PhaseSound
<1>3. \A e \in events : e.inst # i
  BY <1>1 DEF SignalInv, EventSound
<1>4. PICK x : x = [inst[i] EXCEPT !.status = "running"]
  OBVIOUS
<1>5. x.version = 0 /\ x.status = "running" /\ x.state = "work"
  BY <1>1, <1>2, <1>4 DEF InstanceRow
<1>6. inst' = [inst EXCEPT ![i] = x]
  BY <1>1, <1>4 DEF Start
<1>7. \A j \in Instances : inst'[j] = IF j = i THEN x ELSE inst[j]
  BY <1>1, <1>6
<1>8. PICK f : f = ContinueEvent(i, 0, now)
  OBVIOUS
<1>9. /\ f \in EventType /\ f.inst = i /\ f.version = 0 /\ f.kind = "continue"
      /\ f.request = None /\ f.status = "pending"
  BY <1>1, <1>8, ContinueFits
<1>10. PICK F : F = {f}
  OBVIOUS
<1>11. events' = events \cup F
  BY <1>8, <1>10 DEF Start
<1>12. \A g \in F, e \in events : Id(e) # Id(g)
  BY <1>3, <1>9, <1>10, IdIsFields
<1>13. Rewritten({}, {}, F)
  BY <1>9, <1>10, <1>11, <1>12 DEF Rewritten
<1>14. ASSUME NEW j \in Instances, j # i PROVE PhaseSound(j)' /\ DueSound(j)'
  <2>1. \A e \in events' : e.inst = j <=> e \in events /\ e.inst = j
    BY <1>9, <1>10, <1>11, <1>14
  <2>2. \A e \in events : e.inst = j => e \in events'
    BY <1>11
  <2> QED
    BY <1>7, <1>14, <2>1, <2>2, InstanceStays
<1>15. PhaseSound(i)'
  BY <1>5, <1>7 DEF PhaseSound
<1>16. DueSound(i)'
  <2>1. inst'[i] = x /\ f \in Pending' /\ \A e \in Pending' : e.inst = i => e = f
    BY <1>3, <1>7, <1>9, <1>10, <1>11 DEF Pending
  <2> QED
    BY <1>5, <1>9, <2>1 DEF DueSound
<1>17. \A g \in F : KindSound(g)'
  BY <1>9, <1>10 DEF KindSound
<1>18. DatesKept /\ UNCHANGED consumer
  BY DEF DatesKept, Start
<1> QED
  BY <1>13, <1>14, <1>15, <1>16, <1>17, <1>18, OnceStep

\* The marker of a candidate is that of its timer.
LEMMA MarkerIsTimer ==
    ASSUME SignalInv, OnceInv, NEW i \in Instances, Marker(i) # None
    PROVE  \E t \in events : /\ IsTimer(t, i)
                             /\ Marker(i).created = t.created
                             /\ t.attempts = 0 => Marker(i).available = t.deadline
<1>1. PICK T : T = {e \in Pending : e.kind = "timer" /\ e.inst = i /\ e.version = inst[i].version}
  OBVIOUS
<1>2. T # {}
  BY <1>1 DEF Marker
<1>3. PICK e : e = CHOOSE t \in T : TRUE
  OBVIOUS
<1>4. e \in T
  BY <1>2, <1>3
<1>5. Marker(i) = [created |-> e.created, available |-> e.available]
  BY <1>1, <1>2, <1>3 DEF Marker
<1>6. e \in events /\ e.kind = "timer" /\ e.inst = i
  BY <1>1, <1>4 DEF Pending
<1>7. e.version = 2 /\ (e.attempts = 0 => e.available = e.deadline)
  BY <1>6 DEF OnceInv, KindSound, SignalInv, EventSound
<1>8. IsTimer(e, i)
  BY <1>6, <1>7 DEF IsTimer
<1> QED
  BY <1>5, <1>6, <1>7, <1>8

LEMMA SignalReadOnce ==
    ASSUME SignalInv, OnceInv, NEW c \in Consumers, NEW r \in Requests, SignalRead(c, r)
    PROVE  OnceInv'
<1>1. PICK seen : seen = [i \in Candidates |-> Marker(i)]
  OBVIOUS
<1>2. PICK t : t = [NoSignal EXCEPT !.pc = "read", !.request = r, !.seen = seen]
  OBVIOUS
<1>3. t.pc = "read" /\ t.seen = seen
  BY <1>2 DEF NoSignal
<1>4. consumer' = [consumer EXCEPT ![c] = t] /\ UNCHANGED <<inst, events, request>>
  BY <1>1, <1>2 DEF SignalRead
<1>5. consumer'[c] = t /\ \A d \in Consumers \ {c} : consumer'[d] = consumer[d]
  BY <1>4 DEF SignalInv, TypeOK
<1>6. ASSUME NEW i \in DOMAIN seen, seen[i] # None
      PROVE  \E u \in events' : /\ IsTimer(u, i)'
                                /\ seen[i].created = u.created
                                /\ u.attempts = 0 => seen[i].available = u.deadline
  <2>1. i \in Instances /\ seen[i] = Marker(i)
    BY <1>1 DEF Candidates
  <2>2. PICK u \in events : /\ IsTimer(u, i)
                            /\ Marker(i).created = u.created
                            /\ u.attempts = 0 => Marker(i).available = u.deadline
    BY <1>6, <2>1, MarkerIsTimer
  <2> QED
    BY <1>4, <2>1, <2>2 DEF IsTimer
<1>7. MarkerSound(c)'
  BY <1>3, <1>5, <1>6 DEF MarkerSound
<1>8. DatesKept
  BY <1>4 DEF DatesKept
<1> QED
  BY <1>4, <1>5, <1>7, <1>8, OnceQuiet

LEMMA SignalLockOnce ==
    ASSUME SignalInv, OnceInv, NEW c \in Consumers, SignalLock(c)
    PROVE  OnceInv'
<1>1. PICK t \in SignalTx :
              /\ consumer' = [consumer EXCEPT ![c] = t] /\ consumer'[c] = t
              /\ t.pc = "locked" /\ t.request = consumer[c].request
              /\ t.locks = Matching(c)
              /\ t.outcome \in Decisions
              /\ t.target = None <=> t.outcome # "consumed"
              /\ t.target # None => t.target \in Targets(c)
  BY LockDecides
<1>2. consumer[c].pc = "read" /\ UNCHANGED <<inst, events, request>>
  BY DEF SignalLock
<1>3. ASSUME t.target # None PROVE Suits(t.request, t.target)
  <2>1. PICK i, r, m : i = t.target /\ r = consumer[c].request /\ m = consumer[c].seen[i]
    OBVIOUS
  <2>2. i \in DOMAIN consumer[c].seen
    BY <1>1, <1>3, <2>1 DEF Targets, Matching
  <2>3. Receptive(r, m) \/ Persisted(r, m)
    BY <1>1, <1>3, <2>1 DEF Targets
  <2>4. /\ m # None /\ request[r].created <= m.available
        /\ Persist \/ m.created <= request[r].created
    BY <2>3 DEF Receptive, Persisted, MarkerMatches, EnteredBefore
  <2>5. PICK u \in events : /\ IsTimer(u, i)
                            /\ m.created = u.created
                            /\ u.attempts = 0 => m.available = u.deadline
    BY <1>2, <2>1, <2>2, <2>4 DEF OnceInv, MarkerSound
  <2>6. Suits(r, i)
    BY <2>4, <2>5 DEF Suits
  <2> QED
    BY <1>1, <2>1, <2>6
<1>4. \A d \in Consumers \ {c} : consumer'[d] = consumer[d]
  BY <1>1 DEF SignalInv, TypeOK
<1>5. MarkerSound(c)'
  <2>1. t.target # None => Suits(t.request, t.target)'
    BY <1>2, <1>3 DEF Suits, IsTimer
  <2> QED
    BY <1>1, <2>1 DEF MarkerSound
<1>6. DatesKept
  BY <1>2 DEF DatesKept
<1> QED
  BY <1>2, <1>4, <1>5, <1>6, OnceQuiet

LEMMA IdleMarker ==
    ASSUME NEW c, consumer'[c] = NoSignal
    PROVE  MarkerSound(c)'
BY NoSignalFits DEF MarkerSound

\* A locked target with a timer is at the version of its timer.
LEMMA SignalCommitOnce ==
    ASSUME SignalInv, OnceInv, NEW c \in Consumers, SignalCommit(c)
    PROVE  OnceInv'
<1>1. PICK r, i, s : r = consumer[c].request /\ i = consumer[c].target
                     /\ s = consumer[c].outcome
  OBVIOUS
<1>2. /\ consumer[c].pc = "locked"
      /\ request' = [request EXCEPT ![r].status = s]
      /\ consumer' = [consumer EXCEPT ![c] = NoSignal]
      /\ UNCHANGED inst
  BY <1>1 DEF SignalCommit
<1>3. consumer \in [Consumers -> SignalTx] /\ inst \in [Instances -> InstanceRow]
      /\ consumer[c] \in SignalTx /\ ConsumerSound(c) /\ MarkerSound(c)
  BY DEF SignalInv, TypeOK, OnceInv
<1>4. /\ r \in Requests /\ s \in Decisions /\ request[r].status = "pending"
      /\ i # None => i \in Candidates /\ Suits(r, i)
  BY <1>1, <1>2, <1>3 DEF ConsumerSound, SignalTx, MarkerSound
<1>5. DatesKept
  <2>1. /\ request'[r].created = request[r].created
        /\ \A q \in Requests : q # r => request'[q] = request[q]
    BY <1>2, <1>4, RequestTyped DEF Decisions, Statuses
  <2> QED
    BY <2>1 DEF DatesKept
<1>6. consumer'[c] = NoSignal /\ \A d \in Consumers \ {c} : consumer'[d] = consumer[d]
  BY <1>2, <1>3
<1>7. \A d \in Consumers : consumer'[d] = consumer[d] \/ MarkerSound(d)'
  BY <1>6, IdleMarker
<1>8. CASE i = None
  <2>1. events' = events
    BY <1>1, <1>8 DEF SignalCommit
  <2> QED
    BY <1>2, <1>5, <1>7, <2>1, OnceQuiet
<1>9. CASE i # None
  <2>1. i \in Instances /\ inst[i].status = "running" /\ inst[i].state = "wait"
        /\ inst[i].version \in Nat
    BY <1>3, <1>4, <1>9 DEF Candidates, InstanceRow
  <2>2. inst[i].version = 2
    <3>1. PICK t \in events : IsTimer(t, i)
      BY <1>4, <1>9 DEF Suits
    <3>2. 2 <= inst[i].version
      BY <3>1 DEF IsTimer, SignalInv, EventSound
    <3>3. PhaseSound(i)
      BY <2>1 DEF OnceInv
    <3> QED
      BY <2>1, <3>2, <3>3 DEF PhaseSound
  <2>3. PICK f : f = SignalEvent(i, 2, r)
    OBVIOUS
  <2>4. /\ f \in EventType /\ f.inst = i /\ f.version = 2
        /\ f.kind = "signal" /\ f.request = r /\ f.status = "pending"
    BY <1>4, <2>1, <2>3, SignalFits
  <2>5. PICK F : F = {f}
    OBVIOUS
  <2>6. events' = events \cup F
    BY <1>1, <1>9, <2>2, <2>3, <2>5 DEF SignalCommit
  <2>7. ASSUME NEW e \in events, Id(e) = Id(f) PROVE FALSE
    <3>1. e.kind = "signal" /\ e.request = r
      BY <2>4, <2>7, IdIsFields
    <3>2. request[r].status = "consumed"
      BY <3>1 DEF SignalInv, EventSound
    <3> QED
      BY <1>4, <3>2
  <2>8. Rewritten({}, {}, F)
    BY <2>4, <2>5, <2>6, <2>7 DEF Rewritten
  <2>9. \A g \in F : KindSound(g)'
    <3>1. request'[r].created = request[r].created
      BY <1>4, <1>5 DEF DatesKept
    <3>2. Suits(r, i)'
      BY <1>4, <1>9, <2>8, <3>1, SuitsStays
    <3> QED
      BY <2>4, <2>5, <3>2 DEF KindSound
  <2>10. ASSUME NEW j \in Instances PROVE PhaseSound(j)' /\ DueSound(j)'
    <3>1. PhaseSound(j) /\ DueSound(j)
      BY DEF OnceInv
    <3>2. PhaseSound(j)'
      BY <1>2, <3>1 DEF PhaseSound
    <3>3. Pending' = Pending \cup F
      BY <2>4, <2>5, <2>6 DEF Pending
    <3>4. DueSound(j)'
      BY <1>2, <2>2, <2>4, <2>5, <3>1, <3>3 DEF DueSound
    <3> QED
      BY <3>2, <3>4
  <2> QED
    BY <1>5, <1>7, <2>8, <2>9, <2>10, OnceStep
<1> QED
  BY <1>8, <1>9

LEMMA OnceInvStart ==
    ASSUME Init PROVE OnceInv
<1>1. \A i \in Instances : PhaseSound(i) /\ DueSound(i)
  BY DEF Init, NoInstance, PhaseSound, DueSound
<1>2. \A c \in Consumers : MarkerSound(c)
  BY NoSignalFits DEF Init, MarkerSound
<1> QED
  BY <1>1, <1>2 DEF Init, OnceInv

LEMMA RequestsOnce ==
    ASSUME SignalInv, OnceInv, NEW r \in Requests, WriteRequest(r) \/ CommitRequest(r)
    PROVE  OnceInv'
<1>1. UNCHANGED <<inst, events, consumer>>
  BY DEF WriteRequest, CommitRequest
<1>2. CASE WriteRequest(r)
  <2>1. \A q \in Requests : request[q].status # "absent" => request'[q] = request[q]
    BY <1>2 DEF WriteRequest, SignalInv, TypeOK
  <2>2. DatesKept
    BY <2>1 DEF DatesKept
  <2> QED
    BY <1>1, <2>2, OnceQuiet
<1>3. CASE CommitRequest(r)
  <2>1. /\ request' = [request EXCEPT ![r].status = "pending"] /\ "pending" \in Statuses
    BY <1>3 DEF CommitRequest, Statuses
  <2>2. DatesKept
    BY <2>1, RequestTyped DEF DatesKept
  <2> QED
    BY <1>1, <2>2, OnceQuiet
<1> QED
  BY <1>2, <1>3

LEMMA ConsumersOnce ==
    ASSUME SignalInv, OnceInv, NEW c \in Consumers, Consume(c) \/ CrashConsumer(c)
    PROVE  OnceInv'
<1>1. ASSUME NEW r \in Requests, SignalDuplicate(c, r) PROVE OnceInv'
  <2>1. request' = [request EXCEPT ![r].status = "duplicate"] /\ "duplicate" \in Statuses
        /\ UNCHANGED <<inst, events, consumer>>
    BY <1>1 DEF SignalDuplicate, Statuses
  <2>2. DatesKept
    BY <2>1, RequestTyped DEF DatesKept
  <2> QED
    BY <2>1, <2>2, OnceQuiet
<1>2. ASSUME NEW r \in Requests, SignalRead(c, r) PROVE OnceInv'
  BY <1>2, SignalReadOnce
<1>3. CASE CrashConsumer(c)
  <2>1. consumer' = [consumer EXCEPT ![c] = NoSignal] /\ UNCHANGED <<inst, events, request>>
    BY <1>3 DEF CrashConsumer
  <2>2. consumer'[c] = NoSignal /\ \A d \in Consumers \ {c} : consumer'[d] = consumer[d]
    BY <2>1 DEF SignalInv, TypeOK
  <2>3. \A d \in Consumers : consumer'[d] = consumer[d] \/ MarkerSound(d)'
    BY <2>2, IdleMarker
  <2>4. DatesKept
    BY <2>1 DEF DatesKept
  <2> QED
    BY <2>1, <2>3, <2>4, OnceQuiet
<1> QED
  BY <1>1, <1>2, <1>3, SignalLockOnce, SignalCommitOnce DEF Consume

LEMMA OnceInvKept ==
    ASSUME EnteredOnce, SignalInv, OnceInv, [Next]_vars PROVE OnceInv'
<1>1. ASSUME UNCHANGED <<inst, events, request, consumer>> PROVE OnceInv'
  <2>1. DatesKept /\ \A c \in Consumers : consumer'[c] = consumer[c]
    BY <1>1 DEF DatesKept
  <2> QED
    BY <1>1, <2>1, OnceQuiet
<1>2. CASE UNCHANGED vars \/ Tick
  BY <1>1, <1>2 DEF vars, Tick
<1>3. ASSUME NEW i \in Instances, Start(i) PROVE OnceInv'
  BY <1>3, StartOnce
<1>4. ASSUME NEW r \in Requests, WriteRequest(r) \/ CommitRequest(r) PROVE OnceInv'
  BY <1>4, RequestsOnce
<1>5. ASSUME NEW c \in Consumers, Consume(c) \/ CrashConsumer(c) PROVE OnceInv'
  BY <1>5, ConsumersOnce
<1>6. ASSUME NEW w \in Workers, Transition(w) \/ Fault(w) \/ CrashWorker(w) PROVE OnceInv'
  <2>1. ASSUME NEW e \in events, Prepare(w, e) PROVE OnceInv'
    BY <1>1, <2>1 DEF Prepare
  <2>2. CASE Abandon(w) \/ OpenTransition(w) \/ Fault(w) \/ CrashWorker(w)
    BY <1>1, <2>2 DEF Abandon, OpenTransition, Fault, CrashWorker
  <2> QED
    BY <1>6, <2>1, <2>2, AdvanceWorkOnce, EnterWaitOnce, CompleteWaitOnce,
       CompleteOnce, DeferOnce, FailInstanceOnce
       DEF Transition
<1> QED
  BY <1>2, <1>3, <1>4, <1>5, <1>6 DEF Next

LEMMA OnceInvHolds ==
    ASSUME EnteredOnce PROVE Spec => [](SignalInv /\ OnceInv)
<1>1. Init => OnceInv
  BY OnceInvStart
<1>2. SignalInv /\ OnceInv /\ [Next]_vars => OnceInv'
  BY OnceInvKept
<1> QED
  BY <1>1, <1>2, SignalInvHolds, PTL DEF Spec

-----------------------------------------------------------------------------
(* What it says of a wait that is entered once *)

LEMMA OneMovesOn ==
    ASSUME SignalInv, OnceInv PROVE OneWayForward
<1>1. SUFFICES ASSUME NEW i \in Instances, inst[i].status = "running"
               PROVE  MovesOn(i) # {} /\ Cardinality(MovesOn(i)) = 1
  BY DEF OneWayForward
<1>2. PICK e \in Pending : e.inst = i /\ e.kind # "signal" /\ e.version = inst[i].version
  BY <1>1 DEF OnceInv, DueSound
<1>3. \A f \in Pending : f.inst = i =>
         /\ f \in events /\ f.version = inst[i].version
         /\ f.kind \in {"continue", "timer", "signal"}
         /\ f.kind = "continue" <=> inst[i].version # 2
         /\ f.kind # "signal" => f.request = None
         /\ inst[i].version = 2 => inst[i].state = "wait"
  BY <1>1, PendingKinds
<1>4. e \in MovesOn(i)
  BY <1>2, <1>3 DEF MovesOn
<1>5. ASSUME NEW f \in MovesOn(i) PROVE f = e
  <2>1. f \in Pending /\ f.inst = i /\ f.kind # "signal"
    BY DEF MovesOn
  <2>2. Id(f) = Id(e)
    BY <1>2, <1>3, <2>1, IdIsFields
  <2> QED
    BY <1>2, <1>3, <2>1, <2>2 DEF SignalInv, TypeOK
<1>6. MovesOn(i) = {e}
  BY <1>4, <1>5
<1> QED
  BY <1>6, FS_Singleton

\* The timer of a delivered signal's wait.
LEMMA HeardByTimer ==
    ASSUME SignalInv, OnceInv, NEW e \in events, e.kind = "signal"
    PROVE  /\ TimerOf(e) \in events
           /\ Persist \/ TimerOf(e).created <= request[e.request].created
           /\ TimerOf(e).attempts = 0 => request[e.request].created <= TimerOf(e).deadline
<1>1. e.version = 2 /\ Suits(e.request, e.inst)
  BY DEF OnceInv, KindSound
<1>2. PICK t \in events :
        /\ IsTimer(t, e.inst)
        /\ Persist \/ t.created <= request[e.request].created
        /\ t.attempts = 0 => request[e.request].created <= t.deadline
  BY <1>1 DEF Suits
<1>3. PICK u : u = TimerOf(e)
  OBVIOUS
<1>4. u \in events /\ u.kind = "timer" /\ u.inst = e.inst /\ u.version = e.version
  BY <1>1, <1>2, <1>3 DEF TimerOf, IsTimer
<1>5. u.request = None /\ t.request = None
  BY <1>2, <1>4 DEF IsTimer, SignalInv, EventSound
<1>6. Id(u) = Id(t)
  BY <1>1, <1>2, <1>4, <1>5, IdIsFields DEF IsTimer
<1>7. u = t
  BY <1>4, <1>6 DEF SignalInv, TypeOK
<1> QED
  BY <1>2, <1>3, <1>7

\* Around a wait that is entered once, a running instance has exactly one event
\* that moves it on, whatever any number of workers prepare at once, defer, give
\* up or lose in a crash: lock_prepared_snapshot lets one application of a
\* version through, and every application closes what was due and opens one
\* event of the next version; no signal is accepted for a wait not entered yet,
\* so the exception of OneWayForward does not arise.
THEOREM NeverTwoTokens == EnteredOnce => (Spec => [](OneWayForward /\ AcceptedByWait))
<1>1. SignalInv /\ OnceInv => OneWayForward /\ AcceptedByWait
  <2> SUFFICES ASSUME SignalInv, OnceInv PROVE AcceptedByWait
    BY OneMovesOn
  <2> SUFFICES ASSUME NEW e \in events, e.kind = "signal" PROVE Entered(e)
    BY DEF AcceptedByWait
  <2>1. e.version = 2 /\ Suits(e.request, e.inst)
    BY DEF OnceInv, KindSound
  <2>2. PICK t \in events : IsTimer(t, e.inst)
    BY <2>1 DEF Suits
  <2> QED
    BY <2>1, <2>2 DEF Entered, IsTimer
<1>2. EnteredOnce => (Spec => [](SignalInv /\ OnceInv))
  BY OnceInvHolds
<1> QED
  BY <1>1, <1>2, PTL

\* Around a wait that is entered once, the race of signal and timeout leaves no
\* loser due in a running instance, though consume_one_signal accepts signals at
\* the same time: the row lock keeps the instance in the wait it matched until
\* the event is inserted (close_competing_wait_events).
THEOREM LosersClosed == EnteredOnce => (Spec => []NoStaleEvents)
<1>1. SignalInv /\ OnceInv => NoStaleEvents
  <2>1. SUFFICES ASSUME SignalInv, OnceInv, NEW e \in Pending,
                        inst[e.inst].status = "running", e.kind # "continue"
                 PROVE  inst[e.inst].state = "wait" /\ e.version = inst[e.inst].version
    BY DEF NoStaleEvents
  <2>2. e.inst \in Instances
    BY <2>1 DEF Pending, SignalInv, TypeOK, EventType
  <2> QED
    BY <2>1, <2>2, PendingKinds
<1>2. EnteredOnce => (Spec => [](SignalInv /\ OnceInv))
  BY OnceInvHolds
<1> QED
  BY <1>1, <1>2, PTL

\* Around a wait that is entered once, and as long as no transition is deferred,
\* no signal sent after the declared deadline is delivered (marker_matches in
\* consume_one_signal).
THEOREM NoneHeardLate == EnteredOnce => (Spec => [](NeverDeferred => HeardByDeadline))
<1>1. SignalInv /\ OnceInv => (NeverDeferred => HeardByDeadline)
  BY HeardByTimer DEF HeardByDeadline, NeverDeferred
<1>2. EnteredOnce => (Spec => [](SignalInv /\ OnceInv))
  BY OnceInvHolds
<1> QED
  BY <1>1, <1>2, PTL

-----------------------------------------------------------------------------
(* Accepted signals and the timeout of a wait that is entered once *)

\* A worker is busy with an event that was due: it is put off by one more
\* deferral at most since.
DueHeld ==
    \A w \in Workers, e \in events :
        worker[w].pc # "idle" /\ worker[w].event = Id(e) => e.available <= now + 1

\* No event of the version a running instance is at is closed.
CurrentPending ==
    \A e \in events :
        inst[e.inst].status = "running" /\ e.version = inst[e.inst].version
        => e.status = "pending"

\* What a consumer is about to accept was sent by the time the timer is due.
HeardSound(c) ==
    /\ consumer[c].pc = "read" =>
          \A i \in DOMAIN consumer[c].seen, t \in events :
              consumer[c].seen[i] # None /\ IsTimer(t, i)
              => consumer[c].seen[i].available <= t.available
    /\ consumer[c].pc = "locked" /\ consumer[c].target # None =>
          \A t \in events : IsTimer(t, consumer[c].target)
              => request[consumer[c].request].created <= t.available

\* An open timeout has looked: its wait has no signal but deferred ones.
LookedSound(w) ==
    worker[w].pc = "locked" /\ worker[w].event[1] = "timer" =>
        \A s \in events : /\ s.kind = "signal" /\ s.inst = worker[w].event[2]
                          /\ s.version = worker[w].event[3]
                          => s.attempts > 0

AcceptInv ==
    /\ \A c \in Consumers : HeardSound(c)
    /\ \A s, t \in events : s.kind = "signal" /\ s.attempts = 0 /\ IsTimer(t, s.inst)
          => s.available <= t.available
    /\ \A w \in Workers : LookedSound(w)
    /\ AcceptedBeatsTimeout

WorkerFollows(w) ==
    worker'[w].pc # "idle" =>
        \/ /\ worker[w].pc # "idle" /\ worker'[w].event = worker[w].event
           /\ worker'[w].pc = "locked" => worker[w].pc = "locked" \/ OpenTransition(w)
        \/ /\ worker'[w].pc = "prepared" /\ UNCHANGED events
           /\ \E e \in events : worker'[w].event = Id(e) /\ e.available <= now

LEMMA StepWorkers ==
    ASSUME SignalInv, [Next]_vars, NEW v \in Workers PROVE WorkerFollows(v)
<1>1. worker \in [Workers -> Prepared] /\ worker[v] \in Prepared
  BY DEF SignalInv, TypeOK
<1>2. CASE worker'[v] = worker[v]
  BY <1>2 DEF WorkerFollows
<1>3. CASE UNCHANGED vars \/ Tick
  BY <1>2, <1>3 DEF vars, Tick
<1>4. ASSUME NEW i \in Instances, Start(i) PROVE WorkerFollows(v)
  BY <1>2, <1>4 DEF Start
<1>5. ASSUME NEW r \in Requests, WriteRequest(r) \/ CommitRequest(r) PROVE WorkerFollows(v)
  BY <1>2, <1>5 DEF WriteRequest, CommitRequest
<1>6. ASSUME NEW c \in Consumers, Consume(c) \/ CrashConsumer(c) PROVE WorkerFollows(v)
  <2>1. ASSUME NEW r \in Requests, SignalDuplicate(c, r) \/ SignalRead(c, r)
        PROVE  WorkerFollows(v)
    BY <1>2, <2>1 DEF SignalDuplicate, SignalRead
  <2> QED
    BY <1>2, <1>6, <2>1 DEF Consume, SignalLock, SignalCommit, CrashConsumer
<1>7. ASSUME NEW w \in Workers, Transition(w) \/ Fault(w) \/ CrashWorker(w)
      PROVE  WorkerFollows(v)
  <2>1. ASSUME NEW p, worker' = [worker EXCEPT ![w] = p], v # w PROVE WorkerFollows(v)
    BY <1>1, <1>2, <2>1
  <2>2. CASE worker' = [worker EXCEPT ![w] = NoTransition]
    BY <1>1, <2>1, <2>2, NoTransitionFits DEF WorkerFollows
  <2>3. ASSUME NEW pc \in {"locked", "deferring", "failing"},
               worker' = [worker EXCEPT ![w] = [worker[w] EXCEPT !.pc = pc]],
               worker[w].pc # "idle", pc = "locked" => OpenTransition(w)
        PROVE  WorkerFollows(v)
    <3>1. [worker[w] EXCEPT !.pc = pc].pc = pc /\ [worker[w] EXCEPT !.pc = pc].event = worker[w].event
      BY <1>1 DEF Prepared
    <3>2. CASE v = w
      <4>1. worker'[v].pc = pc /\ worker'[v].event = worker[v].event
        BY <1>1, <2>3, <3>1, <3>2
      <4> QED
        BY <2>3, <3>2, <4>1 DEF WorkerFollows
    <3> QED
      BY <2>1, <2>3, <3>2
  <2>4. ASSUME NEW e \in events, Prepare(w, e) PROVE WorkerFollows(v)
    <3>1. PICK p : p = Snapshot(e)
      OBVIOUS
    <3>2. worker' = [worker EXCEPT ![w] = p] /\ UNCHANGED events /\ e.available <= now
      BY <2>4, <3>1 DEF Prepare, Preparable, Queued
    <3>3. p.pc = "prepared" /\ p.event = Id(e)
      BY <3>1 DEF Snapshot
    <3>4. CASE v = w
      BY <1>1, <3>2, <3>3, <3>4 DEF WorkerFollows
    <3> QED
      BY <2>1, <3>2, <3>4
  <2>5. CASE Abandon(w) \/ AdvanceWork(w) \/ EnterWait(w) \/ CompleteWait(w) \/ Complete(w)
             \/ FailInstance(w) \/ CrashWorker(w)
    BY <2>2, <2>5
       DEF Abandon, AdvanceWork, EnterWait, CompleteWait, Complete, FailInstance, CrashWorker
  <2>6. CASE Fault(w)
    <3>1. PICK pc \in {"deferring", "failing"} : worker' = [worker EXCEPT ![w].pc = pc]
      BY <2>6 DEF Fault
    <3>2. worker' = [worker EXCEPT ![w] = [worker[w] EXCEPT !.pc = pc]] /\ worker[w].pc # "idle"
      BY <1>1, <2>6, <3>1 DEF Fault
    <3> QED
      BY <2>3, <3>1, <3>2
  <2>7. CASE OpenTransition(w)
    <3>1. worker' = [worker EXCEPT ![w] = [worker[w] EXCEPT !.pc = "locked"]]
          /\ worker[w].pc # "idle"
      BY <1>1, <2>7 DEF OpenTransition
    <3> QED
      BY <2>3, <2>7, <3>1
  <2>8. CASE Defer(w)
    <3>1. \/ worker' = [worker EXCEPT ![w] = NoTransition]
          \/ worker' = [worker EXCEPT ![w] = [worker[w] EXCEPT !.pc = "failing"]]
      BY <1>1, <2>8 DEF Defer
    <3>2. worker[w].pc # "idle"
      BY <2>8 DEF Defer
    <3> QED
      BY <2>2, <2>3, <3>1, <3>2
  <2> QED
    BY <1>7, <2>4, <2>5, <2>6, <2>7, <2>8 DEF Transition
<1> QED
  BY <1>3, <1>4, <1>5, <1>6, <1>7 DEF Next

LEMMA StepTime ==
    ASSUME SignalInv, [Next]_vars PROVE now \in Nat /\ now' \in Nat /\ now <= now'
<1>1. now \in Nat
  BY Numbers DEF SignalInv, TypeOK
<1>2. CASE UNCHANGED now
  BY <1>1, <1>2
<1>3. CASE Tick
  BY <1>1, <1>3 DEF Tick
<1>4. ASSUME NEW i \in Instances, Start(i) PROVE UNCHANGED now
  BY <1>4 DEF Start
<1>5. ASSUME NEW r \in Requests, WriteRequest(r) \/ CommitRequest(r) PROVE UNCHANGED now
  BY <1>5 DEF WriteRequest, CommitRequest
<1>6. ASSUME NEW c \in Consumers, Consume(c) \/ CrashConsumer(c) PROVE UNCHANGED now
  <2>1. ASSUME NEW r \in Requests, SignalDuplicate(c, r) \/ SignalRead(c, r)
        PROVE  UNCHANGED now
    BY <2>1 DEF SignalDuplicate, SignalRead
  <2> QED
    BY <1>6, <2>1 DEF Consume, SignalLock, SignalCommit, CrashConsumer
<1>7. ASSUME NEW w \in Workers, Transition(w) \/ Fault(w) \/ CrashWorker(w) PROVE UNCHANGED now
  <2>1. ASSUME NEW e \in events, Prepare(w, e) PROVE UNCHANGED now
    BY <2>1 DEF Prepare
  <2> QED
    BY <1>7, <2>1
       DEF Transition, Abandon, OpenTransition, AdvanceWork, EnterWait, CompleteWait, Complete,
           Defer, FailInstance, Fault, CrashWorker
<1> QED
  BY <1>2, <1>3, <1>4, <1>5, <1>6, <1>7 DEF Next, vars

\* The row with the identity of an event is the one that follows it.
LEMMA SameRow ==
    ASSUME SignalInv', EventsFollow, NEW e \in events, NEW m \in events', Id(e) = Id(m)
    PROVE  Follows(e, m)
<1>1. PICK n \in events' : Follows(e, n)
  BY DEF EventsFollow
<1>2. Id(n) = Id(e)
  BY <1>1, IdIsFields DEF Follows, Moved
<1>3. n = m
  BY <1>2 DEF SignalInv, TypeOK
<1> QED
  BY <1>1, <1>3

LEMMA DueLater ==
    ASSUME SignalInv, DueHeld, NEW e \in events, NEW m, Follows(e, m)
    PROVE  e.available <= m.available
<1>1. e.available \in 0..MaxTime /\ now \in Nat
  BY Numbers DEF SignalInv, TypeOK, EventType, Times
<1>2. CASE m.available = e.available
  BY <1>1, <1>2
<1>3. CASE m.available = Earlier(now + 1, MaxTime)
           /\ \E w \in Workers : worker[w].pc # "idle" /\ worker[w].event = Id(e)
  <2>1. e.available <= now + 1
    BY <1>3 DEF DueHeld
  <2> QED
    BY <1>1, <1>3, <2>1, Numbers DEF Earlier
<1> QED
  BY <1>2, <1>3 DEF Follows

LEMMA DueHeldKept ==
    ASSUME SignalInv, SignalInv', DueHeld, [Next]_vars PROVE DueHeld'
<1>1. EventsFollow /\ now \in Nat /\ now' \in Nat /\ now <= now'
  BY StepFollows, StepTime
<1>2. SUFFICES ASSUME NEW w \in Workers, NEW m \in events',
                      worker'[w].pc # "idle", worker'[w].event = Id(m)
               PROVE  m.available <= now' + 1
  BY DEF DueHeld
<1>3. WorkerFollows(w)
  BY StepWorkers
<1>4. CASE worker[w].pc # "idle" /\ worker'[w].event = worker[w].event
  <2>1. PICK e \in events : Id(e) = worker[w].event
    BY <1>4 DEF SignalInv, TypeOK
  <2>2. Follows(e, m) /\ e.available <= now + 1
    BY <1>1, <1>2, <1>4, <2>1, SameRow DEF DueHeld
  <2>3. e.available \in Nat
    BY Numbers DEF SignalInv, TypeOK, EventType
  <2>4. CASE m.available = e.available
    BY <1>1, <2>2, <2>3, <2>4
  <2>5. CASE m.available = Earlier(now + 1, MaxTime)
    <3>1. Earlier(now + 1, MaxTime) <= now + 1 /\ Earlier(now + 1, MaxTime) \in Nat
      BY <1>1, Numbers DEF Earlier
    <3> QED
      BY <1>1, <2>5, <3>1
  <2> QED
    BY <2>2, <2>4, <2>5 DEF Follows
<1>5. CASE UNCHANGED events /\ \E e \in events : worker'[w].event = Id(e) /\ e.available <= now
  <2>1. PICK e \in events : worker'[w].event = Id(e) /\ e.available <= now
    BY <1>5
  <2>2. e = m
    BY <1>2, <1>5, <2>1 DEF SignalInv, TypeOK
  <2>3. e.available \in Nat
    BY Numbers DEF SignalInv, TypeOK, EventType
  <2> QED
    BY <1>1, <2>1, <2>2, <2>3
<1> QED
  BY <1>2, <1>3, <1>4, <1>5 DEF WorkerFollows

LEMMA CurrentPendingKept ==
    ASSUME SignalInv, SignalInv', CurrentPending, [Next]_vars PROVE CurrentPending'
<1>1. EventsFollow
  BY StepFollows
<1>2. SUFFICES ASSUME NEW m \in events', inst'[m.inst].status = "running",
                      m.version = inst'[m.inst].version
               PROVE  m.status = "pending"
  BY DEF CurrentPending
<1>3. CASE Inserted(m)
  BY <1>3 DEF Inserted
<1>4. CASE Known(m)
  <2>1. PICK e \in events : Id(e) = Id(m)
    BY <1>4 DEF Known
  <2>2. Follows(e, m) /\ e.inst = m.inst /\ e.version = m.version
    BY <1>1, <2>1, SameRow, IdIsFields
  <2>3. PICK i \in Instances : i = e.inst
    BY DEF SignalInv, TypeOK, EventType
  <2>4. inst[i].status # "absent" /\ e.version <= inst[i].version
    BY <2>3 DEF SignalInv, EventSound
  <2>5. inst[i].version \in Nat /\ inst'[i].version \in Nat /\ e.version \in Nat
    BY DEF SignalInv, TypeOK, InstanceRow, EventType
  <2>6. ~(inst[i].version < inst'[i].version)
    BY <1>2, <2>2, <2>3, <2>4, <2>5
  <2>7. inst'[i] = inst[i]
    BY <1>1, <2>4, <2>6 DEF EventsFollow, InstanceFollows
  <2>8. e.status = "pending"
    BY <1>2, <2>2, <2>3, <2>7 DEF CurrentPending
  <2> QED
    BY <2>2, <2>3, <2>6, <2>8 DEF Follows
<1> QED
  BY <1>1, <1>3, <1>4 DEF EventsFollow

\* A wait has one timer, and a timer of a wait that was known goes on.
LEMMA TimerFollows ==
    ASSUME SignalInv, SignalInv', DueHeld, EventsFollow, NEW i, NEW t \in events, IsTimer(t, i),
           NEW u \in events', IsTimer(u, i)'
    PROVE  Follows(t, u) /\ t.available <= u.available
<1>1. t.request = None /\ u.request = None
  BY DEF IsTimer, SignalInv, EventSound
<1>2. Id(t) = Id(u)
  BY <1>1, IdIsFields DEF IsTimer
<1>3. Follows(t, u)
  BY <1>2, SameRow
<1> QED
  BY <1>3, DueLater
LEMMA EventNumbers ==
    ASSUME SignalInv, NEW e \in events
    PROVE  e.available \in Nat /\ e.attempts \in Nat /\ e.version \in Nat /\ e.inst \in Instances
           /\ e.status \in {"pending", "consumed", "failed"}
BY Numbers DEF SignalInv, TypeOK, EventType

\* The one timer of a wait.
LEMMA OneTimer ==
    ASSUME SignalInv, NEW i, NEW t, NEW u, IsTimer(t, i), IsTimer(u, i) PROVE t = u
<1>1. t \in events /\ u \in events /\ t.request = None /\ u.request = None
  BY DEF IsTimer, SignalInv, EventSound
<1>2. Id(t) = Id(u)
  BY <1>1, IdIsFields DEF IsTimer
<1> QED
  BY <1>1, <1>2 DEF SignalInv, TypeOK

LEMMA MarkerDue ==
    ASSUME SignalInv, OnceInv, NEW i \in Instances, Marker(i) # None, NEW t \in events, IsTimer(t, i)
    PROVE  Marker(i).available = t.available
<1>1. PICK T : T = {e \in Pending : e.kind = "timer" /\ e.inst = i /\ e.version = inst[i].version}
  OBVIOUS
<1>2. T # {}
  BY <1>1 DEF Marker
<1>3. PICK e : e = CHOOSE u \in T : TRUE
  OBVIOUS
<1>4. e \in T
  BY <1>2, <1>3
<1>5. Marker(i).available = e.available
  BY <1>1, <1>2, <1>3 DEF Marker
<1>6. e \in events /\ e.kind = "timer" /\ e.inst = i
  BY <1>1, <1>4 DEF Pending
<1>7. IsTimer(e, i)
  BY <1>6 DEF OnceInv, KindSound, IsTimer
<1> QED
  BY <1>5, <1>7, OneTimer

LEMMA SeenNumbers ==
    ASSUME NEW s, s \in UNION {[S -> MarkerType \cup {None}] : S \in SUBSET Instances},
           NEW i \in DOMAIN s, s[i] # None
    PROVE  s[i].available \in Nat
<1>1. PICK S \in SUBSET Instances : s \in [S -> MarkerType \cup {None}]
  OBVIOUS
<1>2. s[i] \in MarkerType
  BY <1>1
<1> QED
  BY <1>2, Numbers DEF MarkerType

LEMMA HeardKept ==
    ASSUME SignalInv, SignalInv', OnceInv, DueHeld, AcceptInv, [Next]_vars, NEW c \in Consumers
    PROVE  HeardSound(c)'
<1>1. EventsFollow /\ DatesKept /\ ConsumerFollows(c)
  BY StepFollows, StepDates, StepConsumers
<1>2. HeardSound(c) /\ MarkerSound(c) /\ ConsumerSound(c) /\ consumer[c] \in SignalTx
      /\ consumer \in [Consumers -> SignalTx]
  BY DEF AcceptInv, OnceInv, SignalInv, TypeOK
<1>3. \A u \in events' : u.available \in Nat
  BY Numbers DEF SignalInv, TypeOK, EventType
<1>4. \A u \in events : u.available \in Nat
  BY EventNumbers
<1>5. \A r \in Requests : request[r].created \in Nat
  BY Numbers DEF SignalInv, TypeOK, RequestRow
<1>6. CASE consumer'[c] = consumer[c]
  <2>1. ASSUME consumer[c].pc = "read", NEW i \in DOMAIN consumer[c].seen, NEW u \in events',
               consumer[c].seen[i] # None, IsTimer(u, i)'
        PROVE  consumer[c].seen[i].available <= u.available
    <3>1. PICK t \in events : IsTimer(t, i)
      BY <1>2, <2>1 DEF MarkerSound
    <3>2. consumer[c].seen[i].available <= t.available
      BY <1>2, <2>1, <3>1 DEF HeardSound
    <3>3. t.available <= u.available
      BY <1>1, <2>1, <3>1, TimerFollows
    <3>4. consumer[c].seen[i].available \in Nat
      <4>1. PICK s : s = consumer[c].seen
        OBVIOUS
      <4>2. s \in UNION {[S -> MarkerType \cup {None}] : S \in SUBSET Instances}
        BY <1>2, <4>1 DEF SignalTx
      <4> QED
        BY <2>1, <4>1, <4>2, SeenNumbers
    <3> QED
      BY <1>3, <1>4, <3>2, <3>3, <3>4
  <2>2. ASSUME consumer[c].pc = "locked", consumer[c].target # None, NEW u \in events',
               IsTimer(u, consumer[c].target)'
        PROVE  request'[consumer[c].request].created <= u.available
    <3>1. PICK r, i : r = consumer[c].request /\ i = consumer[c].target
      OBVIOUS
    <3>2. r \in Requests /\ request[r].status = "pending"
      BY <1>2, <2>2, <3>1 DEF ConsumerSound, SignalTx
    <3>3. request'[r].created = request[r].created
      BY <1>1, <3>2 DEF DatesKept
    <3>4. PICK t \in events : IsTimer(t, i)
      BY <1>2, <2>2, <3>1 DEF MarkerSound, Suits
    <3>5. request[r].created <= t.available
      BY <1>2, <2>2, <3>1, <3>4 DEF HeardSound
    <3>6. IsTimer(u, i)'
      BY <1>6, <2>2, <3>1 DEF IsTimer
    <3>7. t.available <= u.available
      BY <1>1, <3>4, <3>6, TimerFollows
    <3> QED
      BY <1>3, <1>4, <1>5, <3>1, <3>2, <3>3, <3>5, <3>7
  <2> QED
    BY <1>6, <2>1, <2>2 DEF HeardSound, IsTimer
<1>7. CASE consumer'[c] = NoSignal
  BY <1>7, NoSignalFits DEF HeardSound
<1>8. CASE SignalLock(c)
  <2>1. PICK x \in SignalTx :
              /\ consumer'[c] = x /\ x.pc = "locked" /\ x.request = consumer[c].request
              /\ x.target # None => x.target \in Targets(c)
    BY <1>8, LockDecides
  <2>2. consumer[c].pc = "read" /\ UNCHANGED <<events, request>>
    BY <1>8 DEF SignalLock
  <2>3. ASSUME x.target # None, NEW t \in events, IsTimer(t, x.target)
        PROVE  request[x.request].created <= t.available
    <3>1. PICK i, r, m : i = x.target /\ r = consumer[c].request /\ m = consumer[c].seen[i]
      OBVIOUS
    <3>2. i \in DOMAIN consumer[c].seen
      BY <2>1, <2>3, <3>1 DEF Targets, Matching
    <3>3. Receptive(r, m) \/ Persisted(r, m)
      BY <2>1, <2>3, <3>1 DEF Targets
    <3>4. m # None /\ request[r].created <= m.available
      BY <3>3 DEF Receptive, Persisted, MarkerMatches
    <3>5. m.available <= t.available
      BY <1>2, <2>2, <2>3, <3>1, <3>2, <3>4 DEF HeardSound
    <3>6. m.available \in Nat
      <4>1. PICK s : s = consumer[c].seen
        OBVIOUS
      <4>2. s \in UNION {[S -> MarkerType \cup {None}] : S \in SUBSET Instances}
        BY <1>2, <4>1 DEF SignalTx
      <4> QED
        BY <3>1, <3>2, <3>4, <4>1, <4>2, SeenNumbers
    <3>7. r \in Requests
      BY <1>2, <2>2, <3>1 DEF ConsumerSound, SignalTx
    <3> QED
      BY <1>4, <1>5, <2>1, <3>1, <3>4, <3>5, <3>6, <3>7
  <2>4. ASSUME x.target # None, NEW t \in events', IsTimer(t, x.target)'
        PROVE  request'[x.request].created <= t.available
    BY <2>2, <2>3, <2>4 DEF IsTimer
  <2> QED
    BY <2>1, <2>4 DEF HeardSound, IsTimer
<1>9. ASSUME NEW r \in Requests, SignalRead(c, r) PROVE HeardSound(c)'
  <2>1. PICK seen : seen = [i \in Candidates |-> Marker(i)]
    OBVIOUS
  <2>2. PICK x : x = [NoSignal EXCEPT !.pc = "read", !.request = r, !.seen = seen]
    OBVIOUS
  <2>3. x.pc = "read" /\ x.seen = seen
    BY <2>2 DEF NoSignal
  <2>4. consumer'[c] = x /\ UNCHANGED events
    BY <1>2, <1>9, <2>1, <2>2 DEF SignalRead
  <2>5. ASSUME NEW i \in DOMAIN seen, NEW t \in events', seen[i] # None, IsTimer(t, i)'
        PROVE  seen[i].available <= t.available
    <3>1. t \in events /\ IsTimer(t, i)
      BY <2>4, <2>5 DEF IsTimer
    <3>2. i \in Instances /\ seen[i] = Marker(i)
      BY <2>1 DEF Candidates
    <3>3. seen[i].available = t.available
      BY <2>5, <3>1, <3>2, MarkerDue
    <3> QED
      BY <1>4, <3>1, <3>3
  <2> QED
    BY <2>3, <2>4, <2>5 DEF HeardSound, IsTimer
<1> QED
  BY <1>1, <1>6, <1>7, <1>8, <1>9 DEF ConsumerFollows

\* A delivered event: its wait is open, its consumer holds the instance.
LEMMA DeliveredFacts ==
    ASSUME SignalInv, SignalInv', OnceInv, AcceptInv, NEW c \in Consumers, NEW m, Delivers(c, m)
    PROVE  /\ m.inst = consumer[c].target /\ m.inst \in consumer[c].locks
           /\ m.version = 2 /\ inst[m.inst].version = 2 /\ inst[m.inst].status = "running"
           /\ events \subseteq events'
           /\ \A t \in events' : IsTimer(t, m.inst)' => /\ t \in events
                                                        /\ m.available <= t.available
<1>1. PICK r, i : r = consumer[c].request /\ i = consumer[c].target
  OBVIOUS
<1>2. /\ consumer[c].pc = "locked" /\ i \in Instances /\ m = SignalEvent(i, inst[i].version, r)
      /\ events' = events \cup {m}
  BY <1>1 DEF Delivers
<1>3. m.kind = "signal" /\ m.inst = i /\ m.version = inst[i].version
      /\ m.available = request[r].created
  BY <1>2 DEF SignalEvent
<1>4. ConsumerSound(c) /\ MarkerSound(c) /\ HeardSound(c) /\ i # None
  BY <1>2, Numbers DEF SignalInv, OnceInv, AcceptInv
<1>5. i \in consumer[c].locks /\ i \in Candidates
  BY <1>1, <1>2, <1>4 DEF ConsumerSound
<1>6. PICK t \in events : IsTimer(t, i)
  BY <1>1, <1>2, <1>4 DEF MarkerSound, Suits
<1>7. inst[i].version = 2
  <2>1. 2 <= inst[i].version
    BY <1>6 DEF IsTimer, SignalInv, EventSound
  <2>2. PhaseSound(i) /\ inst[i].version \in Nat
    BY <1>2 DEF OnceInv, SignalInv, TypeOK, InstanceRow
  <2> QED
    BY <1>5, <2>1, <2>2 DEF PhaseSound, Candidates
<1>8. ASSUME NEW u \in events', IsTimer(u, i)' PROVE u \in events /\ m.available <= u.available
  <2>1. u \in events
    BY <1>2, <1>3, <1>8 DEF IsTimer
  <2>2. IsTimer(u, i)
    BY <1>8, <2>1 DEF IsTimer
  <2> QED
    BY <1>1, <1>2, <1>3, <1>4, <2>1, <2>2 DEF HeardSound
<1> QED
  BY <1>1, <1>2, <1>3, <1>5, <1>7, <1>8 DEF Candidates, IsTimer

LEMMA SignalTimely ==
    ASSUME SignalInv, SignalInv', OnceInv, DueHeld, AcceptInv, [Next]_vars,
           NEW s \in events', NEW t \in events', s.kind = "signal", s.attempts = 0,
           IsTimer(t, s.inst)'
    PROVE  s.available <= t.available
<1>1. EventsFollow
  BY StepFollows
<1>2. CASE Inserted(s)
  BY <1>2, DeliveredFacts DEF Inserted
<1>3. CASE Known(s)
  <2>1. PICK e \in events : Id(e) = Id(s)
    BY <1>3 DEF Known
  <2>2. Follows(e, s) /\ e.kind = "signal" /\ e.inst = s.inst
    BY <1>1, <2>1, SameRow, IdIsFields
  <2>3. e.attempts = 0 /\ s.available = e.available
    BY <2>2 DEF Follows, Moved
  <2>4. PICK u \in events : IsTimer(u, e.inst)
    BY <2>2 DEF OnceInv, KindSound, Suits
  <2>5. e.available <= u.available
    BY <2>2, <2>3, <2>4 DEF AcceptInv
  <2>6. IsTimer(t, e.inst)'
    BY <2>2 DEF IsTimer
  <2>7. u.available <= t.available
    BY <1>1, <2>4, <2>6, TimerFollows
  <2>8. t.available \in Nat
    BY Numbers DEF SignalInv, TypeOK, EventType
  <2> QED
    BY <2>3, <2>5, <2>7, <2>8, EventNumbers
<1> QED
  BY <1>1, <1>2, <1>3 DEF EventsFollow

LEMMA LookedKept ==
    ASSUME SignalInv, SignalInv', OnceInv, LocksApart, CurrentPending, AcceptInv, [Next]_vars,
           NEW w \in Workers
    PROVE  LookedSound(w)'
<1>1. EventsFollow /\ WorkerFollows(w)
  BY StepFollows, StepWorkers
<1>2. SUFFICES ASSUME worker'[w].pc = "locked", worker'[w].event[1] = "timer",
                      NEW s \in events', s.kind = "signal", s.inst = worker'[w].event[2],
                      s.version = worker'[w].event[3]
               PROVE  s.attempts > 0
  BY DEF LookedSound
<1>3. worker'[w].event = worker[w].event /\ (worker[w].pc = "locked" \/ OpenTransition(w))
  BY <1>1, <1>2 DEF WorkerFollows
<1>4. s.attempts \in Nat
  BY DEF SignalInv, TypeOK, EventType
<1>5. CASE worker[w].pc = "locked"
  <2>1. CASE Inserted(s)
    <3>1. PICK c \in Consumers : Delivers(c, s)
      BY <1>2, <2>1 DEF Inserted
    <3>2. s.inst \in consumer[c].locks
      BY <3>1, DeliveredFacts
    <3> QED
      BY <1>2, <1>3, <1>5, <3>2 DEF LocksApart
  <2>2. CASE Known(s)
    <3>1. PICK e \in events : Id(e) = Id(s)
      BY <2>2 DEF Known
    <3>2. Follows(e, s) /\ e.kind = "signal" /\ e.inst = s.inst /\ e.version = s.version
      BY <1>1, <1>2, <3>1, SameRow, IdIsFields
    <3>3. LookedSound(w) /\ e.attempts \in Nat
      BY EventNumbers DEF AcceptInv
    <3>4. e.attempts > 0
      BY <1>2, <1>3, <1>5, <3>2, <3>3 DEF LookedSound
    <3>5. e.attempts <= s.attempts
      BY <3>2 DEF Follows
    <3> QED
      BY <1>4, <3>3, <3>4, <3>5
  <2> QED
    BY <1>1, <2>1, <2>2 DEF EventsFollow
<1>6. CASE OpenTransition(w)
  <2>1. PICK t : t = PreparedEvent(w)
    OBVIOUS
  <2>2. worker[w].pc = "prepared" /\ UNCHANGED <<events, inst, request>> /\ ~Yields(w)
    BY <1>6 DEF OpenTransition
  <2>3. t \in events /\ Id(t) = worker[w].event /\ t.inst \in Instances
    BY <2>1, <2>2, PreparedFacts DEF InstanceOf
  <2>4. t.kind = "timer" /\ t.inst = s.inst /\ t.version = s.version
    BY <1>2, <1>3, <2>3 DEF Id
  <2>5. t.status = "pending" /\ inst[t.inst].status = "running"
    BY <1>6, <2>1 DEF OpenTransition, LockPrepared, Fenced, InstanceOf
  <2>6. t.version = inst[t.inst].version
    BY <2>3, <2>5 DEF OnceInv, DueSound, Pending
  <2>7. s \in events /\ s.status = "pending"
    BY <1>2, <2>2, <2>4, <2>5, <2>6 DEF CurrentPending
  <2>8. IsTimer(t, s.inst)
    BY <2>3, <2>4 DEF IsTimer, OnceInv, KindSound
  <2>9. s.attempts = 0 => s.available <= t.available
    BY <1>2, <2>3, <2>7, <2>8 DEF AcceptInv
  <2>10. s \in WaitEvents(t.inst, t.version)
    BY <1>2, <2>4, <2>7 DEF WaitEvents
  <2>11. ~(s.available <= t.available)
    <3>1. ~PendingSignalPrecedesTimer(t)
      BY <2>1, <2>2, <2>4 DEF Yields
    <3> QED
      BY <1>2, <2>7, <2>10, <3>1 DEF PendingSignalPrecedesTimer
  <2> QED
    BY <1>4, <2>9, <2>11
<1> QED
  BY <1>3, <1>5, <1>6

LEMMA BeatenKept ==
    ASSUME SignalInv, SignalInv', OnceInv, OnceInv', CurrentPending, AcceptInv, [Next]_vars
    PROVE  AcceptedBeatsTimeout'
<1>1. EventsFollow
  BY StepFollows
<1>2. SUFFICES ASSUME NEW u \in events', NEW s \in events',
                      u.kind = "timer", u.status = "consumed", inst'[u.inst].status # "failed",
                      s.kind = "signal", s.inst = u.inst, s.version = u.version
               PROVE  s.attempts > 0
  BY DEF AcceptedBeatsTimeout, TimedOut
<1>3. s.attempts \in Nat
  BY DEF SignalInv, TypeOK, EventType
<1>4. u.version = 2 /\ IsTimer(u, s.inst)'
  BY <1>2 DEF OnceInv, KindSound, IsTimer
<1>5. CASE Inserted(s)
  <2>1. PICK c \in Consumers : Delivers(c, s)
    BY <1>2, <1>5 DEF Inserted
  <2>2. u \in events /\ inst[s.inst].version = 2 /\ inst[s.inst].status = "running"
    BY <1>4, <2>1, DeliveredFacts
  <2>3. u.status = "pending"
    BY <1>2, <1>4, <2>2 DEF CurrentPending
  <2> QED
    BY <1>2, <2>3
<1>6. CASE Known(s)
  <2>1. PICK e \in events : Id(e) = Id(s)
    BY <1>6 DEF Known
  <2>2. Follows(e, s) /\ e.kind = "signal" /\ e.inst = s.inst /\ e.version = s.version
    BY <1>1, <1>2, <2>1, SameRow, IdIsFields
  <2>3. e.attempts \in Nat /\ e.inst \in Instances /\ e.attempts <= s.attempts
    BY <2>2, EventNumbers DEF Follows
  <2>4. PICK t \in events : IsTimer(t, e.inst)
    BY <2>2 DEF OnceInv, KindSound, Suits
  <2>5. t.kind = "timer" /\ t.inst = e.inst /\ t.version = 2 /\ t.request = None /\ u.request = None
    BY <1>2, <2>4 DEF IsTimer, SignalInv, EventSound
  <2>6. Id(t) = Id(u)
    BY <1>2, <1>4, <2>2, <2>5, IdIsFields
  <2>7. Follows(t, u)
    BY <1>1, <2>6, SameRow
  <2>8. e.attempts > 0
    <3>1. CASE t.status = "consumed"
      <4>1. inst[t.inst].status # "failed"
        <5>1. inst[e.inst].status # "absent"
          BY <2>3 DEF SignalInv, EventSound
        <5>2. InstanceFollows(e.inst)
          BY <1>1, <2>3 DEF EventsFollow
        <5> QED
          BY <1>2, <2>2, <2>5, <5>1, <5>2 DEF InstanceFollows
      <4> QED
        BY <1>2, <1>4, <2>2, <2>5, <3>1, <4>1 DEF AcceptInv, AcceptedBeatsTimeout, TimedOut
    <3>2. CASE \E w \in Workers : worker[w].pc = "locked" /\ worker[w].event = Id(t)
      <4>1. PICK w \in Workers : worker[w].pc = "locked" /\ worker[w].event = Id(t)
        BY <3>2
      <4>2. worker[w].event[1] = "timer" /\ worker[w].event[2] = e.inst /\ worker[w].event[3] = 2
        BY <2>5, <4>1 DEF Id
      <4>3. LookedSound(w)
        BY DEF AcceptInv
      <4> QED
        BY <1>2, <1>4, <2>2, <4>1, <4>2, <4>3 DEF LookedSound
    <3> QED
      BY <1>2, <2>2, <2>5, <2>7, <3>1, <3>2 DEF Follows
  <2> QED
    BY <1>3, <2>3, <2>8
<1> QED
  BY <1>1, <1>5, <1>6 DEF EventsFollow

LEMMA AcceptInvKept ==
    ASSUME SignalInv, SignalInv', OnceInv, OnceInv', LocksApart, DueHeld, CurrentPending, AcceptInv,
           [Next]_vars
    PROVE  AcceptInv'
<1>1. \A c \in Consumers : HeardSound(c)'
  BY HeardKept
<1>2. \A w \in Workers : LookedSound(w)'
  BY LookedKept
<1>3. AcceptedBeatsTimeout'
  BY BeatenKept
<1>4. \A s, t \in events' : s.kind = "signal" /\ s.attempts = 0 /\ IsTimer(t, s.inst)'
                               => s.available <= t.available
  BY SignalTimely
<1> QED
  BY <1>1, <1>2, <1>3, <1>4 DEF AcceptInv

LEMMA AcceptStart == Init => DueHeld /\ CurrentPending /\ AcceptInv
<1>1. SUFFICES ASSUME Init PROVE DueHeld /\ CurrentPending /\ AcceptInv
  OBVIOUS
<1>2. events = {} /\ consumer = [c \in Consumers |-> NoSignal]
      /\ worker = [w \in Workers |-> NoTransition]
  BY <1>1 DEF Init
<1>3. \A c \in Consumers : consumer[c].pc = "idle"
  BY <1>2, NoSignalFits DEF NoSignal
<1>4. \A w \in Workers : worker[w].pc = "idle"
  BY <1>2, NoTransitionFits
<1> QED
  BY <1>2, <1>3, <1>4
     DEF DueHeld, CurrentPending, AcceptInv, HeardSound, LookedSound, AcceptedBeatsTimeout

\* Around a wait that is entered once, a timeout never completes a wait that has
\* an accepted signal no fault has deferred, although the check and the commit
\* are apart and the consumer reads the wait's marker before it has the lock
\* (pending_signal_precedes_timer in consume_one_transition, consume_one_signal).
THEOREM AcceptedFirst == EnteredOnce => (Spec => []AcceptedBeatsTimeout)
<1>1. Init => DueHeld /\ CurrentPending /\ AcceptInv
  BY AcceptStart
<1>2. /\ SignalInv /\ OnceInv /\ LocksApart /\ DueHeld /\ CurrentPending /\ AcceptInv
      /\ SignalInv' /\ OnceInv' /\ [Next]_vars
      => DueHeld' /\ CurrentPending' /\ AcceptInv'
  BY DueHeldKept, CurrentPendingKept, AcceptInvKept
<1>3. AcceptInv => AcceptedBeatsTimeout
  BY DEF AcceptInv
<1>4. EnteredOnce => (Spec => [](SignalInv /\ OnceInv))
  BY OnceInvHolds
<1> QED
  BY <1>1, <1>2, <1>3, <1>4, SignalInvHolds, PTL DEF Spec
=============================================================================
