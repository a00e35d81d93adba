------------------------- MODULE WebhookWaitProofs -------------------------
(***************************************************************************)
(* Proofs about webhook waits, for any number of instances, provider       *)
(* events, deliveries at once and transition workers, any window and any   *)
(* number of crashes and deferrals.                                        *)
(***************************************************************************)
EXTENDS WebhookWait, FiniteSetTheorems, TLAPS

\* A wait has its marker from its entry on.
MarkerKept == \A i \in Instances : timer[i] = None <=> wait[i] = "ahead"

\* A delivery knows its event; one that committed left a row in the ledger; and
\* what its snapshot shows of a marker has only been moved later since.
DeliveryKnows ==
    \A r \in Receivers :
        /\ receiver[r].pc # "idle" => receiver[r].event \in Events
        /\ receiver[r].pc = "committed" => ledger[receiver[r].event] # None
        /\ receiver[r].pc = "read" =>
              \A i \in DOMAIN receiver[r].seen :
                 LET m == receiver[r].seen[i].marker IN
                 m # None => /\ timer[i] # None
                             /\ m.entered = timer[i].entered
                             /\ m.available <= timer[i].available

\* A Process event is pending exactly while its wait is open.
PendingWhileOpen ==
    \A a \in accepted :
        /\ wait[a.inst] # "ahead"
        /\ a.status = "pending" <=> wait[a.inst] = "open"

\* One Process event for one provider event, and only if the ledger accepts it.
OnePerEvent ==
    /\ \A a, b \in accepted : a.event = b.event => a = b
    /\ \A e \in Events :
          ledger[e] = "accepted" <=> \E a \in accepted : a.event = e
    /\ \A e \in acked : ledger[e] # None

\* A wait that was heard has one consumed event.
Winner(i) == {a \in accepted : a.inst = i /\ a.status = "consumed"}
HeardOnce ==
    \A i \in Instances :
        wait[i] = "heard" => \E a \in accepted : Winner(i) = {a}

WebhookInv ==
    /\ TypeOK
    /\ MarkerKept
    /\ DeliveryKnows
    /\ PendingWhileOpen
    /\ OnePerEvent
    /\ HeardInWindow
    /\ AcceptedBeatsTimeout
    /\ HeardOnce

\* The parts of the invariant that name neither a delivery nor the clock.
RowsInv ==
    /\ MarkerKept
    /\ PendingWhileOpen
    /\ OnePerEvent
    /\ HeardInWindow
    /\ AcceptedBeatsTimeout
    /\ HeardOnce

-----------------------------------------------------------------------------
LEMMA NoDeliveryType == NoDelivery \in Delivery /\ NoDelivery.pc = "idle"
<1>1. <<>> \in [{} -> Views]
  OBVIOUS
<1>2. 0 \in Times
  BY WebhookWaitAssumption DEF Times
<1> QED
  BY <1>1, <1>2 DEF NoDelivery, Delivery

LEMMA WebhookInit == Init => WebhookInv
<1> SUFFICES ASSUME Init PROVE WebhookInv
  OBVIOUS
<1>1. TypeOK
  BY NoDeliveryType, WebhookWaitAssumption DEF Init, TypeOK, Times, NoWork
<1>2. DeliveryKnows
  BY NoDeliveryType DEF Init, DeliveryKnows
<1>3. MarkerKept /\ PendingWhileOpen /\ HeardInWindow /\ AcceptedBeatsTimeout /\ HeardOnce
  BY DEF Init, MarkerKept, PendingWhileOpen, HeardInWindow,
     AcceptedBeatsTimeout, HeardOnce
<1>4. OnePerEvent
  BY NoneAssumption DEF Init, OnePerEvent, Outcomes
<1> QED
  BY <1>1, <1>2, <1>3, <1>4 DEF WebhookInv

LEMMA RowsKept ==
    ASSUME WebhookInv, UNCHANGED <<wait, timer, accepted, ledger, acked>>
    PROVE  RowsInv'
BY DEF WebhookInv, RowsInv, MarkerKept, PendingWhileOpen, OnePerEvent,
   HeardInWindow, AcceptedBeatsTimeout, HeardOnce, Winner

\* A delivery moves and leaves the rows alone.
LEMMA DeliveryMoves ==
    ASSUME WebhookInv, NEW r \in Receivers, NEW d \in Delivery,
           receiver' = [receiver EXCEPT ![r] = d],
           d.pc # "idle" => d.event \in Events,
           d.pc = "committed" => ledger[d.event] # None,
           d.pc = "read" =>
              \A i \in DOMAIN d.seen :
                 d.seen[i].marker # None => d.seen[i].marker = timer[i],
           UNCHANGED <<now, wait, timer, accepted, ledger, acked, worker>>,
           faults' \in 0..MaxFaults
    PROVE  WebhookInv'
<1> USE DEF WebhookInv
<1>1. TypeOK'
  BY DEF TypeOK
<1>2. receiver'[r] = d /\ \A q \in Receivers : q # r => receiver'[q] = receiver[q]
  BY DEF TypeOK
<1>3. \A i \in DOMAIN d.seen : d.seen[i].marker \in Marker \cup {None}
  BY DEF Delivery, Views
<1>4. \A m \in Marker : m.available \in Nat
  BY WebhookWaitAssumption DEF Marker, Times
<1>5. DeliveryKnows'
  <2> SUFFICES ASSUME NEW q \in Receivers
               PROVE  /\ receiver'[q].pc # "idle" => receiver'[q].event \in Events
                      /\ receiver'[q].pc = "committed" => ledger[receiver'[q].event] # None
                      /\ receiver'[q].pc = "read" =>
                            \A i \in DOMAIN receiver'[q].seen :
                               LET m == receiver'[q].seen[i].marker IN
                               m # None => /\ timer[i] # None
                                           /\ m.entered = timer[i].entered
                                           /\ m.available <= timer[i].available
    BY DEF DeliveryKnows
  <2>1. CASE q = r
    BY <2>1, <1>2, <1>3, <1>4
  <2>2. CASE q # r
    BY <2>2, <1>2 DEF DeliveryKnows
  <2> QED
    BY <2>1, <2>2
<1> QED
  BY <1>1, <1>5, RowsKept DEF RowsInv

LEMMA ReceiveKeeps ==
    ASSUME WebhookInv, NEW r \in Receivers, NEW e \in Events, Receive(r, e)
    PROVE  WebhookInv'
<1> DEFINE d == [NoDelivery EXCEPT !.pc = "received", !.event = e, !.at = now]
<1>1. d \in Delivery /\ d.pc = "received" /\ d.event = e
  BY NoDeliveryType DEF WebhookInv, TypeOK, Delivery
<1>2. receiver' = [receiver EXCEPT ![r] = d] /\ faults' \in 0..MaxFaults
  BY DEF Receive, WebhookInv, TypeOK
<1> HIDE DEF d
<1> QED
  BY <1>1, <1>2, DeliveryMoves DEF Receive

LEMMA DuplicateKeeps ==
    ASSUME WebhookInv, NEW r \in Receivers, Duplicate(r)
    PROVE  WebhookInv'
<1> DEFINE d == [receiver[r] EXCEPT !.pc = "committed"]
<1>1. d \in Delivery /\ d.pc = "committed" /\ d.event = receiver[r].event
  BY DEF WebhookInv, TypeOK, Delivery
<1>2. receiver' = [receiver EXCEPT ![r] = d] /\ faults' \in 0..MaxFaults
  BY DEF Duplicate, WebhookInv, TypeOK
<1>3. d.event \in Events /\ ledger[d.event] # None
  BY <1>1 DEF Duplicate, InLedger, WebhookInv, DeliveryKnows
<1> HIDE DEF d
<1> QED
  BY <1>1, <1>2, <1>3, DeliveryMoves DEF Duplicate

LEMMA LookUpKeeps ==
    ASSUME WebhookInv, NEW r \in Receivers, LookUp(r)
    PROVE  WebhookInv'
<1> DEFINE view == [i \in AtWait |-> Seen(i)]
           d == [receiver[r] EXCEPT !.pc = "read", !.seen = view]
<1>1. AtWait \subseteq Instances
  BY DEF AtWait
<1>2. \A i \in AtWait : Seen(i) \in Views
  BY <1>1 DEF Seen, Views, WebhookInv, TypeOK
<1>3. view \in [AtWait -> Views] /\ DOMAIN view = AtWait
  BY <1>2
<1>4. \A i \in AtWait : view[i].marker # None => view[i].marker = timer[i]
  BY DEF Seen
<1> HIDE DEF view
<1>5. d \in Delivery
  <2> DEFINE All == UNION {[S -> Views] : S \in SUBSET Instances}
  <2>1. view \in All
    BY <1>1, <1>3
  <2> HIDE DEF All
  <2>2. Delivery = [pc : {"idle", "received", "read", "committed"},
                    event : Events \cup {None}, at : Times, seen : All]
    BY DEF Delivery, All
  <2> QED
    BY <2>1, <2>2 DEF WebhookInv, TypeOK
<1>6. d.pc = "read" /\ d.event = receiver[r].event /\ d.seen = view
  BY DEF WebhookInv, TypeOK, Delivery
<1>7. receiver' = [receiver EXCEPT ![r] = d] /\ faults' \in 0..MaxFaults
  BY DEF LookUp, WebhookInv, TypeOK, view
<1>8. d.event \in Events
  BY <1>6 DEF LookUp, WebhookInv, DeliveryKnows
<1> HIDE DEF d
<1> QED
  BY <1>3, <1>4, <1>5, <1>6, <1>7, <1>8, DeliveryMoves DEF LookUp

LEMMA CrashReceiverKeeps ==
    ASSUME WebhookInv, NEW r \in Receivers, CrashReceiver(r)
    PROVE  WebhookInv'
<1>1. faults' \in 0..MaxFaults
  BY WebhookWaitAssumption DEF CrashReceiver, WebhookInv, TypeOK
<1> QED
  BY <1>1, NoDeliveryType, DeliveryMoves DEF CrashReceiver

LEMMA AcknowledgeKeeps ==
    ASSUME WebhookInv, NEW r \in Receivers, Acknowledge(r)
    PROVE  WebhookInv'
<1> USE DEF WebhookInv
<1>1. receiver[r].event \in Events /\ ledger[receiver[r].event] # None
  BY DEF Acknowledge, DeliveryKnows
<1>2. TypeOK'
  BY <1>1, NoDeliveryType DEF TypeOK, Acknowledge
<1>3. receiver'[r] = NoDelivery /\ \A q \in Receivers : q # r => receiver'[q] = receiver[q]
  BY DEF TypeOK, Acknowledge
<1>4. DeliveryKnows'
  BY <1>3, NoDeliveryType DEF DeliveryKnows, Acknowledge
<1>5. OnePerEvent'
  BY <1>1 DEF OnePerEvent, Acknowledge
<1>6. MarkerKept' /\ PendingWhileOpen' /\ HeardInWindow' /\ AcceptedBeatsTimeout' /\ HeardOnce'
  BY DEF Acknowledge, MarkerKept, PendingWhileOpen, HeardInWindow,
     AcceptedBeatsTimeout, HeardOnce, Winner
<1> QED
  BY <1>2, <1>4, <1>5, <1>6

LEMMA ClockKeeps ==
    ASSUME WebhookInv, Tick
    PROVE  WebhookInv'
<1>1. TypeOK'
  BY WebhookWaitAssumption DEF Tick, WebhookInv, TypeOK, Times
<1>2. DeliveryKnows'
  BY DEF Tick, WebhookInv, DeliveryKnows
<1>3. RowsInv'
  BY RowsKept DEF Tick
<1> QED
  BY <1>1, <1>2, <1>3 DEF WebhookInv, RowsInv

\* A worker takes an event in hand or lets it go.
LEMMA WorkerMoves ==
    ASSUME WebhookInv, NEW w \in Workers,
           NEW i \in Instances \cup {None}, NEW e \in Events \cup {None},
           worker' = [worker EXCEPT ![w] = [inst |-> i, event |-> e]],
           UNCHANGED <<now, wait, timer, accepted, ledger, acked, receiver>>,
           faults' \in 0..MaxFaults
    PROVE  WebhookInv'
<1>1. TypeOK'
  BY DEF WebhookInv, TypeOK
<1>2. DeliveryKnows'
  BY DEF WebhookInv, DeliveryKnows
<1> QED
  BY <1>1, <1>2, RowsKept DEF WebhookInv, RowsInv

LEMMA WorkerKeeps ==
    ASSUME WebhookInv, NEW w \in Workers,
           \/ \E i \in Instances : PrepareTimer(w, i)
           \/ \E a \in accepted : PrepareEvent(w, a)
           \/ Abandon(w)
           \/ CrashWorker(w)
    PROVE  WebhookInv'
<1>1. faults \in 0..MaxFaults /\ accepted \subseteq Accepted
  BY DEF WebhookInv, TypeOK
<1>2. ASSUME NEW i \in Instances, PrepareTimer(w, i) PROVE WebhookInv'
  BY <1>1, <1>2, WorkerMoves DEF PrepareTimer
<1>3. ASSUME NEW a \in accepted, PrepareEvent(w, a) PROVE WebhookInv'
  <2>1. a.inst \in Instances /\ a.event \in Events
    BY <1>1 DEF Accepted
  <2> QED
    BY <1>1, <1>3, <2>1, WorkerMoves DEF PrepareEvent
<1>4. CASE Abandon(w)
  BY <1>1, <1>4, WorkerMoves DEF Abandon, NoWork
<1>5. CASE CrashWorker(w)
  <2>1. faults' \in 0..MaxFaults
    BY <1>1, <1>5, WebhookWaitAssumption DEF CrashWorker
  <2> QED
    BY <2>1, <1>5, WorkerMoves DEF CrashWorker, NoWork
<1> QED
  BY <1>2, <1>3, <1>4, <1>5

\* A delivery that commits.  The unique key of the ledger and the recheck of the
\* locked row leave it one way to accept: a wait that is open now.
LEMMA DeliverKeeps ==
    ASSUME WebhookInv, NEW r \in Receivers, NEW g \in BOOLEAN, Deliver(r, g)
    PROVE  WebhookInv'
<1> DEFINE e == receiver[r].event
           outcome == Outcome(r, g)
           d == [receiver[r] EXCEPT !.pc = "committed", !.seen = <<>>]
           new == [event |-> e, inst |-> Target(r), at |-> receiver[r].at,
                   due |-> receiver[r].at, status |-> "pending"]
<1>1. CASE ledger[e] # None
  <2>1. faults' \in 0..MaxFaults
    BY DEF Deliver, WebhookInv, TypeOK
  <2> QED
    BY <1>1, <2>1, NoDeliveryType, DeliveryMoves DEF Deliver
<1>2. CASE ledger[e] = None
  <2>1. /\ receiver[r].pc = "read"
        /\ ledger' = [ledger EXCEPT ![e] = outcome]
        /\ receiver' = [receiver EXCEPT ![r] = d]
        /\ accepted' = IF outcome # "accepted" THEN accepted ELSE accepted \cup {new}
        /\ UNCHANGED <<now, wait, timer, acked, worker, faults>>
    BY <1>2 DEF Deliver, LedgerRow, WebhookInv, TypeOK
  <2>2. e \in Events
    BY <2>1 DEF WebhookInv, DeliveryKnows
  <2>3. outcome \in Outcomes /\ outcome # None
    BY NoneAssumption DEF Outcome, Unheard, Outcomes
  <2>4. d \in Delivery /\ d.pc = "committed" /\ d.event = e
    BY NoDeliveryType DEF NoDelivery, WebhookInv, TypeOK, Delivery
  <2>5. outcome = "accepted" =>
           /\ Target(r) \in Instances
           /\ wait[Target(r)] = "open"
           /\ timer[Target(r)] \in Marker
           /\ timer[Target(r)].entered <= receiver[r].at
           /\ receiver[r].at <= timer[Target(r)].available
    <3> SUFFICES ASSUME outcome = "accepted"
                 PROVE  /\ Target(r) \in Instances
                        /\ wait[Target(r)] = "open"
                        /\ timer[Target(r)] \in Marker
                        /\ timer[Target(r)].entered <= receiver[r].at
                        /\ receiver[r].at <= timer[Target(r)].available
      OBVIOUS
    <3>1. \E i \in Matching(r) : Receptive(receiver[r].seen[i], receiver[r].at)
      BY DEF Outcome, Unheard
    <3> DEFINE i == Target(r)
               m == receiver[r].seen[i].marker
    <3>2. i \in Matching(r) /\ Receptive(receiver[r].seen[i], receiver[r].at)
      BY <3>1 DEF Target
    <3>3. i \in DOMAIN receiver[r].seen /\ i \in Instances /\ wait[i] \in {"ahead", "open"}
      BY <3>2 DEF Matching, AtWait
    <3>4. m # None /\ m.entered <= receiver[r].at /\ receiver[r].at <= m.available
      BY <3>2 DEF Receptive
    <3>5. timer[i] # None /\ m.entered = timer[i].entered /\ m.available <= timer[i].available
      BY <2>1, <3>3, <3>4 DEF WebhookInv, DeliveryKnows
    <3>6. wait[i] = "open" /\ timer[i] \in Marker
      BY <3>3, <3>5 DEF WebhookInv, MarkerKept, TypeOK
    <3>7. m \in Marker
      BY <3>3, <3>4 DEF WebhookInv, TypeOK, Delivery, Views
    <3>8. /\ receiver[r].at \in Nat
          /\ m.available \in Nat
          /\ timer[i].available \in Nat
      BY <3>6, <3>7, WebhookWaitAssumption DEF WebhookInv, TypeOK, Delivery, Marker, Times
    <3> QED
      BY <3>3, <3>4, <3>5, <3>6, <3>8
  <2>6. outcome = "accepted" => /\ new \in Accepted
                                /\ new.event = e /\ new.inst = Target(r)
                                /\ new.at = receiver[r].at
                                /\ new.status = "pending"
    BY <2>2, <2>5 DEF Accepted, WebhookInv, TypeOK, Delivery
  <2>7. accepted' \subseteq accepted \cup {new} /\ accepted \subseteq accepted'
    BY <2>1
  <2>8. new \in accepted' /\ new \notin accepted => outcome = "accepted"
    BY <2>1
  <2>9. \A a \in accepted : a.event \in Events /\ a.inst \in Instances /\ a.event # e
    BY <1>2, <2>2, <2>3, NoneAssumption
       DEF WebhookInv, TypeOK, Accepted, OnePerEvent, Outcomes
  <2>10. outcome = "accepted" => accepted' = accepted \cup {new}
    BY <2>1
  <2>11. outcome # "accepted" => accepted' = accepted
    BY <2>1
  <2> HIDE DEF e, d, new, outcome
  <2>12. TypeOK'
    BY <2>1, <2>2, <2>3, <2>4, <2>6, <2>10, <2>11 DEF WebhookInv, TypeOK
  <2>13. DeliveryKnows'
    <3>1. receiver'[r] = d /\ \A q \in Receivers : q # r => receiver'[q] = receiver[q]
      BY <2>1 DEF WebhookInv, TypeOK
    <3>2. ledger'[e] # None /\ \A f \in Events : f # e => ledger'[f] = ledger[f]
      BY <2>1, <2>2, <2>3 DEF WebhookInv, TypeOK
    <3> QED
      BY <2>1, <2>2, <2>4, <3>1, <3>2 DEF WebhookInv, DeliveryKnows
  <2>14. MarkerKept'
    BY <2>1 DEF WebhookInv, MarkerKept
  <2>15. PendingWhileOpen'
    BY <2>1, <2>5, <2>6, <2>10, <2>11 DEF WebhookInv, PendingWhileOpen
  <2>16. OnePerEvent'
    <3>1. ledger'[e] = outcome /\ \A f \in Events : f # e => ledger'[f] = ledger[f]
      BY <2>1, <2>2 DEF WebhookInv, TypeOK
    <3>2. \A a, b \in accepted' : a.event = b.event => a = b
      BY <2>6, <2>9, <2>10, <2>11 DEF WebhookInv, OnePerEvent
    <3>3. \A f \in Events : ledger'[f] = "accepted" <=> \E a \in accepted' : a.event = f
      BY <2>6, <2>9, <2>10, <2>11, <3>1 DEF WebhookInv, OnePerEvent
    <3>4. \A f \in acked' : ledger'[f] # None
      BY <2>1, <2>3, <3>1 DEF WebhookInv, OnePerEvent, TypeOK
    <3> QED
      BY <3>2, <3>3, <3>4 DEF OnePerEvent
  <2>17. HeardInWindow'
    BY <2>1, <2>5, <2>6, <2>10, <2>11 DEF WebhookInv, HeardInWindow
  <2>18. AcceptedBeatsTimeout'
    BY <2>1, <2>5, <2>6, <2>10, <2>11 DEF WebhookInv, AcceptedBeatsTimeout
  <2>19. HeardOnce'
    <3>1. \A i \in Instances : Winner(i)' = Winner(i)
      BY <2>6, <2>10, <2>11 DEF Winner
    <3> QED
      BY <2>1, <2>7, <3>1 DEF WebhookInv, HeardOnce
  <2> QED
    BY <2>12, <2>13, <2>14, <2>15, <2>16, <2>17, <2>18, <2>19 DEF WebhookInv
<1> QED
  BY <1>1, <1>2

LEMMA EnterWaitKeeps ==
    ASSUME WebhookInv, NEW i \in Instances, NEW t \in Times, EnterWait(i, t)
    PROVE  WebhookInv'
<1> DEFINE m == [entered |-> now, available |-> t]
<1> USE DEF WebhookInv
<1>1. m \in Marker /\ m # None
  BY NoneAssumption DEF TypeOK, Marker
<1>2. /\ wait[i] = "ahead" /\ timer[i] = None
      /\ wait' = [wait EXCEPT ![i] = "open"]
      /\ timer' = [timer EXCEPT ![i] = m]
      /\ UNCHANGED <<now, accepted, ledger, acked, receiver, worker, faults>>
  BY DEF EnterWait, MarkerKept
<1> HIDE DEF m
<1>3. /\ wait'[i] = "open" /\ timer'[i] = m
      /\ \A j \in Instances : j # i => wait'[j] = wait[j] /\ timer'[j] = timer[j]
  BY <1>2 DEF TypeOK
<1>4. \A a \in accepted : a.inst # i /\ a.inst \in Instances
  BY <1>2 DEF PendingWhileOpen, TypeOK, Accepted
<1>5. TypeOK'
  BY <1>1, <1>2 DEF TypeOK
<1>6. DeliveryKnows'
  <2>1. \A r \in Receivers : DOMAIN receiver[r].seen \subseteq Instances
    BY DEF TypeOK, Delivery
  <2> QED
    BY <1>2, <1>3, <2>1 DEF DeliveryKnows
<1>7. MarkerKept'
  BY <1>1, <1>2, <1>3 DEF MarkerKept
<1>8. OnePerEvent'
  BY <1>2 DEF OnePerEvent
<1>9. PendingWhileOpen' /\ HeardInWindow' /\ AcceptedBeatsTimeout'
  BY <1>2, <1>3, <1>4 DEF PendingWhileOpen, HeardInWindow, AcceptedBeatsTimeout
<1>10. HeardOnce'
  BY <1>2, <1>3 DEF HeardOnce, Winner
<1> QED
  BY <1>5, <1>6, <1>7, <1>8, <1>9, <1>10

\* The wait is over: of its events, all pending until now, the winner is
\* consumed; the timeout wins only against events that are due after it.
LEMMA CompleteWaitKeeps ==
    ASSUME WebhookInv, NEW w \in Workers, CompleteWait(w)
    PROVE  WebhookInv'
<1> DEFINE i == worker[w].inst
           e == worker[w].event
           C(a) == IF a.inst # i THEN a
                   ELSE [a EXCEPT !.status = IF a.event = e THEN "consumed" ELSE "failed"]
<1> USE DEF WebhookInv
<1>1. /\ Applies(w)
      /\ wait' = [wait EXCEPT ![i] = IF e = None THEN "timed_out" ELSE "heard"]
      /\ accepted' = {C(a) : a \in accepted}
      /\ worker' = [worker EXCEPT ![w] = NoWork]
      /\ UNCHANGED <<now, timer, ledger, acked, receiver, faults>>
  BY DEF CompleteWait, Closing
<1>2. i \in Instances /\ wait[i] = "open" /\ e \in Events \cup {None}
  BY <1>1 DEF Applies, TypeOK
<1>3. \A a \in accepted : a \in Accepted
  BY DEF TypeOK
<1>4. \A a \in accepted : /\ C(a) \in Accepted
                          /\ C(a).event = a.event /\ C(a).inst = a.inst
                          /\ C(a).at = a.at /\ C(a).due = a.due
                          /\ a.inst # i => C(a) = a
                          /\ a.inst = i => C(a).status = IF a.event = e THEN "consumed"
                                                                        ELSE "failed"
  BY <1>3 DEF Accepted
<1>5. \A a \in accepted : a.inst = i => a.status = "pending"
  BY <1>2 DEF PendingWhileOpen
<1>6. e = None => \A a \in accepted : a.inst = i => ~(a.due <= timer[i].available)
  BY <1>1, <1>5 DEF Applies, Precedes, PendingFor
<1>7. e # None => \E a \in accepted : a.inst = i /\ a.event = e
  BY <1>1 DEF Applies, PendingFor
<1> HIDE DEF C, i, e
<1>8. /\ \A a \in accepted : C(a) \in accepted'
      /\ \A b \in accepted' : \E a \in accepted : b = C(a)
  BY <1>1
<1>9. /\ wait'[i] = IF e = None THEN "timed_out" ELSE "heard"
      /\ \A j \in Instances : j # i => wait'[j] = wait[j]
  BY <1>1, <1>2 DEF TypeOK
<1>10. TypeOK'
  BY <1>1, <1>2, <1>4, <1>8 DEF TypeOK, NoWork
<1>11. DeliveryKnows'
  BY <1>1 DEF DeliveryKnows
<1>12. MarkerKept'
  BY <1>1, <1>2, <1>9 DEF MarkerKept
<1>13. \A a \in accepted : a.inst \in Instances
  BY <1>3 DEF Accepted
<1>14. PendingWhileOpen'
  BY <1>4, <1>8, <1>9, <1>13 DEF PendingWhileOpen
<1>15. OnePerEvent'
  <2>1. \A a, b \in accepted' : a.event = b.event => a = b
    BY <1>4, <1>8 DEF OnePerEvent
  <2>2. \A f \in Events : (\E a \in accepted' : a.event = f) <=> \E a \in accepted : a.event = f
    BY <1>4, <1>8
  <2> QED
    BY <1>1, <2>1, <2>2 DEF OnePerEvent
<1>16. HeardInWindow'
  BY <1>1, <1>4, <1>8, <1>9, <1>13 DEF HeardInWindow
<1>17. AcceptedBeatsTimeout'
  <2> SUFFICES ASSUME NEW a \in accepted, wait'[a.inst] = "timed_out"
               PROVE  a.due > a.at /\ a.due > timer[a.inst].available
    BY <1>1, <1>4, <1>8 DEF AcceptedBeatsTimeout
  <2>1. CASE a.inst # i
    BY <2>1, <1>9, <1>13 DEF AcceptedBeatsTimeout
  <2>2. CASE a.inst = i
    <3>1. a.due \in Nat /\ a.at \in Nat
      BY <1>3, WebhookWaitAssumption DEF Accepted, Times
    <3>2. timer[i] \in Marker
      BY <1>2 DEF MarkerKept, TypeOK
    <3>3. timer[i].available \in Nat
      BY <3>2, WebhookWaitAssumption DEF Marker, Times
    <3>4. a.at <= timer[i].available
      BY <2>2 DEF HeardInWindow
    <3> QED
      BY <1>6, <1>9, <2>2, <3>1, <3>3, <3>4
  <2> QED
    BY <2>1, <2>2
<1>18. HeardOnce'
  <2> SUFFICES ASSUME NEW j \in Instances, wait'[j] = "heard"
               PROVE  \E a \in accepted' : Winner(j)' = {a}
    BY DEF HeardOnce
  <2>1. CASE j # i
    <3>1. PICK a \in accepted : Winner(j) = {a}
      BY <2>1, <1>9 DEF HeardOnce
    <3>2. Winner(j)' = Winner(j)
      BY <2>1, <1>4, <1>8 DEF Winner
    <3>3. a \in accepted'
      BY <3>1, <3>2 DEF Winner
    <3> QED
      BY <3>1, <3>2, <3>3
  <2>2. CASE j = i
    <3>1. PICK a \in accepted : a.inst = i /\ a.event = e
      BY <2>2, <1>7, <1>9
    <3>2. Winner(j)' = {C(a)}
      <4>1. C(a) \in accepted' /\ C(a).inst = j /\ C(a).status = "consumed"
        BY <2>2, <3>1, <1>4, <1>8
      <4>2. \A b \in accepted' : b.inst = j /\ b.status = "consumed" => b = C(a)
        BY <2>2, <3>1, <1>4, <1>8 DEF OnePerEvent
      <4> QED
        BY <4>1, <4>2 DEF Winner
    <3> QED
      BY <3>1, <3>2, <1>8
  <2> QED
    BY <2>1, <2>2
<1> QED
  BY <1>10, <1>11, <1>12, <1>14, <1>15, <1>16, <1>17, <1>18

\* A deferral moves the deadline, or the place of one accepted event, later.
LEMMA DeferKeeps ==
    ASSUME WebhookInv, NEW w \in Workers, Defer(w)
    PROVE  WebhookInv'
<1> DEFINE i == worker[w].inst
           e == worker[w].event
           D(a) == IF a.event = e THEN [a EXCEPT !.due = Later(now)] ELSE a
           m == [timer[i] EXCEPT !.available = Later(now)]
<1> USE DEF WebhookInv
<1>1. /\ Applies(w)
      /\ faults < MaxFaults /\ faults' = faults + 1
      /\ worker' = [worker EXCEPT ![w] = NoWork]
      /\ UNCHANGED <<now, wait, ledger, acked, receiver>>
  BY DEF Defer
<1>2. i \in Instances /\ wait[i] = "open" /\ e \in Events \cup {None}
  BY <1>1 DEF Applies, TypeOK
<1>3. timer[i] \in Marker
  BY <1>2 DEF MarkerKept, TypeOK
<1>4. now \in Nat /\ Later(now) \in Times /\ Later(now) >= now
  BY WebhookWaitAssumption DEF TypeOK, Times, Later
<1>5. \A a \in accepted : a \in Accepted /\ a.inst \in Instances
  BY DEF TypeOK, Accepted
<1>6. worker' \in [Workers -> [inst : Instances \cup {None}, event : Events \cup {None}]]
      /\ faults' \in 0..MaxFaults
  BY <1>1, WebhookWaitAssumption DEF TypeOK, NoWork
<1>7. CASE e = None
  <2>1. timer' = [timer EXCEPT ![i] = m] /\ UNCHANGED accepted
    BY <1>7 DEF Defer
  <2>2. timer[i].available <= now
    BY <1>1, <1>7 DEF Applies
  <2>3. timer[i].available \in Nat /\ timer[i].entered \in Nat
    BY <1>3, WebhookWaitAssumption DEF Marker, Times
  <2>4. /\ m \in Marker /\ m.entered = timer[i].entered
        /\ m.available \in Nat /\ timer[i].available <= m.available
    BY <1>3, <1>4, <2>2, <2>3 DEF Marker, Times
  <2> HIDE DEF i, e, m
  <2>5. /\ timer'[i] = m /\ m # None
        /\ \A j \in Instances : j # i => timer'[j] = timer[j]
    BY <1>2, <2>1, <2>4, NoneAssumption DEF TypeOK
  <2>6. TypeOK'
    BY <1>1, <1>2, <1>6, <2>1, <2>4 DEF TypeOK
  <2>7. MarkerKept'
    BY <1>1, <1>2, <2>5 DEF MarkerKept
  <2>8. DeliveryKnows'
    <3>1. \A r \in Receivers : DOMAIN receiver[r].seen \subseteq Instances
      BY DEF TypeOK, Delivery
    <3>2. \A r \in Receivers : \A j \in DOMAIN receiver[r].seen :
             receiver[r].seen[j].marker # None => receiver[r].seen[j].marker.available \in Nat
      <4>1. \A r \in Receivers : \A j \in DOMAIN receiver[r].seen :
               receiver[r].seen[j].marker \in Marker \cup {None}
        BY DEF TypeOK, Delivery, Views
      <4>2. \A x \in Marker : x.available \in Nat
        BY WebhookWaitAssumption DEF Marker, Times
      <4> QED
        BY <4>1, <4>2
    <3> QED
      BY <1>1, <2>3, <2>4, <2>5, <3>1, <3>2 DEF DeliveryKnows
  <2>9. PendingWhileOpen' /\ OnePerEvent'
    BY <1>1, <2>1 DEF PendingWhileOpen, OnePerEvent
  <2>10. HeardInWindow'
    <3>1. \A a \in accepted : a.at \in Nat
      BY <1>5, WebhookWaitAssumption DEF Accepted, Times
    <3> QED
      BY <1>1, <1>5, <2>1, <2>3, <2>4, <2>5, <3>1 DEF HeardInWindow
  <2>11. AcceptedBeatsTimeout'
    BY <1>1, <1>2, <1>5, <2>1, <2>5 DEF AcceptedBeatsTimeout
  <2>12. HeardOnce'
    BY <1>1, <2>1 DEF HeardOnce, Winner
  <2> QED
    BY <2>6, <2>7, <2>8, <2>9, <2>10, <2>11, <2>12
<1>8. CASE e # None
  <2>1. accepted' = {D(a) : a \in accepted} /\ UNCHANGED timer
    BY <1>8 DEF Defer
  <2>2. PICK p \in accepted : p.inst = i /\ p.event = e
    BY <1>1, <1>8 DEF Applies, PendingFor
  <2>3. \A a \in accepted : a.event = e => a.inst = i
    BY <2>2 DEF OnePerEvent
  <2>4. \A a \in accepted : /\ D(a) \in Accepted
                            /\ D(a).event = a.event /\ D(a).inst = a.inst
                            /\ D(a).at = a.at /\ D(a).status = a.status
                            /\ a.event # e => D(a) = a
    BY <1>4, <1>5 DEF Accepted
  <2> HIDE DEF i, e, D
  <2>5. /\ \A a \in accepted : D(a) \in accepted'
        /\ \A b \in accepted' : \E a \in accepted : b = D(a)
    BY <2>1
  <2>6. TypeOK'
    BY <1>1, <1>6, <2>1, <2>4, <2>5 DEF TypeOK
  <2>7. MarkerKept' /\ DeliveryKnows'
    BY <1>1, <2>1 DEF MarkerKept, DeliveryKnows
  <2>8. PendingWhileOpen' /\ HeardInWindow'
    BY <1>1, <2>1, <2>4, <2>5 DEF PendingWhileOpen, HeardInWindow
  <2>9. OnePerEvent'
    <3>1. \A a, b \in accepted' : a.event = b.event => a = b
      BY <2>4, <2>5 DEF OnePerEvent
    <3>2. \A f \in Events : (\E a \in accepted' : a.event = f) <=> \E a \in accepted : a.event = f
      BY <2>4, <2>5
    <3> QED
      BY <1>1, <3>1, <3>2 DEF OnePerEvent
  <2>10. AcceptedBeatsTimeout'
    BY <1>1, <1>2, <2>1, <2>3, <2>4, <2>5 DEF AcceptedBeatsTimeout
  <2>11. HeardOnce'
    <3> SUFFICES ASSUME NEW j \in Instances, wait[j] = "heard"
                 PROVE  \E a \in accepted' : Winner(j)' = {a}
      BY <1>1 DEF HeardOnce
    <3>1. PICK a \in accepted : Winner(j) = {a}
      BY DEF HeardOnce
    <3>2. j # i
      BY <1>2
    <3>3. Winner(j)' = Winner(j)
      BY <2>3, <2>4, <2>5, <3>2 DEF Winner
    <3>4. a \in accepted'
      BY <3>1, <3>3 DEF Winner
    <3> QED
      BY <3>1, <3>3, <3>4
  <2> QED
    BY <2>6, <2>7, <2>8, <2>9, <2>10, <2>11
<1> QED
  BY <1>7, <1>8

-----------------------------------------------------------------------------
LEMMA WebhookStep == WebhookInv /\ [Next]_vars => WebhookInv'
<1> SUFFICES ASSUME WebhookInv, [Next]_vars PROVE WebhookInv'
  OBVIOUS
<1>1. CASE Tick
  BY <1>1, ClockKeeps
<1>2. CASE \E r \in Receivers, e \in Events : Receive(r, e)
  BY <1>2, ReceiveKeeps
<1>3. CASE \E r \in Receivers : Handle(r) \/ CrashReceiver(r)
  BY <1>3, DuplicateKeeps, LookUpKeeps, DeliverKeeps, AcknowledgeKeeps,
     CrashReceiverKeeps DEF Handle
<1>4. CASE \E i \in Instances, t \in Times : EnterWait(i, t)
  BY <1>4, EnterWaitKeeps
<1>5. CASE \E w \in Workers : Transition(w) \/ Defer(w) \/ CrashWorker(w)
  BY <1>5, WorkerKeeps, CompleteWaitKeeps, DeferKeeps DEF Transition
<1>6. CASE UNCHANGED vars
  <2>1. TypeOK' /\ DeliveryKnows'
    BY <1>6 DEF vars, WebhookInv, TypeOK, DeliveryKnows
  <2> QED
    BY <1>6, <2>1, RowsKept DEF vars, WebhookInv, RowsInv
<1> QED
  BY <1>1, <1>2, <1>3, <1>4, <1>5, <1>6 DEF Next

LEMMA WebhookInvAlways == Spec => []WebhookInv
BY WebhookInit, WebhookStep, PTL DEF Spec

\* Whatever the order of deliveries, lock waits, deferrals and transitions, an
\* accepted provider event arrived inside the window of its wait, and none is
\* left pending behind a wait that is over (lock_candidates rechecks the row it
\* waited for, but not the marker it had joined to it).
THEOREM EventsHeardInWindow == Spec => []HeardInWindow
<1>1. WebhookInv => HeardInWindow
  BY DEF WebhookInv
<1> QED
  BY <1>1, WebhookInvAlways, PTL

\* pending_signal_precedes_timer: a timeout never beats an event accepted at or
\* before the deadline, unless a transient failure had put the event off past it.
THEOREM TimeoutLosesToAccepted == Spec => []AcceptedBeatsTimeout
<1>1. WebhookInv => AcceptedBeatsTimeout
  BY DEF WebhookInv
<1> QED
  BY <1>1, WebhookInvAlways, PTL

\* close_competing_wait_events and the ledger: one event wins a wait that was
\* heard, the ledger says accepted of exactly the events that were written, and
\* a 204 is only ever sent for an event the ledger has.
THEOREM OneEventWins == Spec => []OneWinner
<1>1. WebhookInv => OneWinner
  <2> SUFFICES ASSUME WebhookInv PROVE OneWinner
    OBVIOUS
  <2>1. \A i \in Instances : wait[i] = "heard" => Cardinality(Winner(i)) = 1
    BY FS_Singleton DEF WebhookInv, HeardOnce
  <2> QED
    BY <2>1 DEF WebhookInv, OnePerEvent, OneWinner, Winner
<1> QED
  BY <1>1, WebhookInvAlways, PTL

-----------------------------------------------------------------------------
\* A step that leaves the ledger and the events of each instance alone.
LEMMA NothingAnswered ==
    ASSUME ledger' = ledger,
           \A b \in accepted' : \E a \in accepted : b.event = a.event /\ b.inst = a.inst
    PROVE  \A e \in acked \cup {f \in Events : ledger[f] # None} :
              /\ ledger'[e] = ledger[e]
              /\ {a.inst : a \in {b \in accepted' : b.event = e}}
                    \subseteq {a.inst : a \in {b \in accepted : b.event = e}}
OBVIOUS

\* persist_verified under its advisory lock and the ledger's unique key: once an
\* event was recorded or acknowledged, no later or concurrent delivery of it
\* changes its outcome or writes it to another instance, and nothing else does.
THEOREM FirstAnswerIsFinal == Spec => AnswerIsFinal
<1> DEFINE Kept == \A e \in acked \cup {f \in Events : ledger[f] # None} :
              /\ ledger'[e] = ledger[e]
              /\ {a.inst : a \in {b \in accepted' : b.event = e}}
                    \subseteq {a.inst : a \in {b \in accepted : b.event = e}}
<1>1. WebhookInv /\ [Next]_vars => [Kept]_vars
  <2> SUFFICES ASSUME WebhookInv, Next PROVE Kept
    OBVIOUS
  <2>1. CASE UNCHANGED <<ledger, accepted>>
    BY <2>1, NothingAnswered
  <2>2. ASSUME NEW r \in Receivers, NEW g \in BOOLEAN, Deliver(r, g), ~UNCHANGED <<ledger, accepted>>
        PROVE  Kept
    <3> DEFINE d == receiver[r].event
    <3>1. ledger[d] = None /\ d \in Events
      BY <2>2 DEF Deliver, WebhookInv, DeliveryKnows
    <3>2. d \notin acked
      BY <3>1 DEF WebhookInv, OnePerEvent
    <3>3. \A e \in Events : e # d => ledger'[e] = ledger[e]
      BY <2>2, <3>1 DEF Deliver, WebhookInv, TypeOK
    <3>4. \A b \in accepted' : b \in accepted \/ b.event = d
      BY <2>2 DEF Deliver
    <3>5. acked \subseteq Events
      BY DEF WebhookInv, TypeOK
    <3> HIDE DEF d
    <3> QED
      BY <3>1, <3>2, <3>3, <3>4, <3>5
  <2>3. ASSUME NEW w \in Workers, CompleteWait(w) PROVE Kept
    <3>1. accepted \subseteq Accepted
      BY DEF WebhookInv, TypeOK
    <3>2. \A b \in accepted' : \E a \in accepted : b.event = a.event /\ b.inst = a.inst
      BY <2>3, <3>1 DEF CompleteWait, Closing, Accepted
    <3> QED
      BY <2>3, <3>2, NothingAnswered DEF CompleteWait
  <2>4. ASSUME NEW w \in Workers, Defer(w) PROVE Kept
    <3>1. accepted \subseteq Accepted
      BY DEF WebhookInv, TypeOK
    <3>2. \A b \in accepted' : \E a \in accepted : b.event = a.event /\ b.inst = a.inst
      BY <2>4, <3>1 DEF Defer, Accepted
    <3> QED
      BY <2>4, <3>2, NothingAnswered DEF Defer
  <2>5. CASE Tick \/ \E r \in Receivers, e \in Events : Receive(r, e)
    BY <2>1, <2>5 DEF Tick, Receive
  <2>6. CASE \E r \in Receivers : Handle(r) \/ CrashReceiver(r)
    BY <2>1, <2>2, <2>6 DEF Handle, Duplicate, LookUp, Acknowledge, CrashReceiver
  <2>7. CASE \E i \in Instances, t \in Times : EnterWait(i, t)
    BY <2>1, <2>7 DEF EnterWait
  <2>8. CASE \E w \in Workers : Transition(w) \/ Defer(w) \/ CrashWorker(w)
    BY <2>1, <2>3, <2>4, <2>8
       DEF Transition, PrepareTimer, PrepareEvent, Abandon, CrashWorker
  <2> QED
    BY <2>5, <2>6, <2>7, <2>8 DEF Next
<1> QED
  BY <1>1, WebhookInvAlways, PTL DEF Spec, AnswerIsFinal
=============================================================================
