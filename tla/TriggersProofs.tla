--------------------------- MODULE TriggersProofs ---------------------------
(***************************************************************************)
(* Proofs about the delivery loops of cron and event triggers, for any     *)
(* number of replicas, triggers, instants and rows, any retry_conf, batch  *)
(* and cap, and any number of rolled back transactions.                    *)
(***************************************************************************)
EXTENDS Triggers, TLAPS

\* The whole shape of a loop.
Loop == [pc : {"idle", "claim", "deliver", "items", "run", "ran"},
         held : SUBSET Entries,
         writes : UNION {[S -> Row] : S \in SUBSET Entries},
         sent : SUBSET Entries, left : 0..ExpandLimit]
LoopsShaped == loop \in [Replicas -> Loop]

\* The event a work item came from.
EventOf(i) == <<i[1], i[2]>>

\* What is scheduled has tries left; what is absent was never touched; and a
\* work item was written with the end of its event.
JournalSound ==
    \A x \in Entries :
        /\ journal[x].status = "absent" => journal[x] = Absent
        /\ journal[x].status = "scheduled" => journal[x].tries <= NumRetries
        /\ x \in Items /\ journal[x].status # "absent" =>
              x[1] \in Invoke /\ journal[EventOf(x)].status = "delivered"

\* What an open transaction will say of a row it holds is true.
EndIsTrue(x, w) ==
    /\ w.status # "absent"
    /\ w.status = "scheduled" => w.tries <= NumRetries
    /\ w.status = "delivered" => x \in done \/ x \in Invoke \X Instants
    /\ kind = "cron" /\ w.status = "dead" /\ w.tries > 0 =>
          x[1] \notin Old \cap New \/ (x \in Items /\ RowGone(x))

HeldWrite(l, x) ==
    /\ EndIsTrue(x, l.writes[x])
    /\ l.writes[x].tries >= journal[x].tries
    /\ x \in l.sent => l.writes[x].tries = journal[x].tries + 1
    /\ x \in Invoke \X Instants /\ l.writes[x].status = "delivered" =>
          ItemsOf(x) \subseteq DOMAIN l.writes

\* A row it does not hold is a work item of an event it holds, and new.
NewItem(l, x) ==
    /\ x \in Items /\ x[1] \in Invoke
    /\ l.writes[x].status = "scheduled" /\ l.writes[x].tries = 0
    /\ journal[x].status = "absent"
    /\ EventOf(x) \in l.held /\ EventOf(x) \in DOMAIN l.writes
    /\ l.writes[EventOf(x)].status = "delivered"

LoopSound(l) ==
    /\ l.pc \in {"idle", "claim", "items"} => l.held = {}
    /\ l.pc \in {"idle", "claim", "items", "run"} => DOMAIN l.writes = {}
    /\ l.pc = "deliver" => l.held \subseteq Events
    /\ l.pc \in {"run", "ran"} => l.held \subseteq Items
    /\ l.sent \subseteq l.held \cap DOMAIN l.writes
    /\ \A x \in l.held : journal[x].status = "scheduled"
    /\ \A x \in DOMAIN l.writes :
          IF x \in l.held THEN HeldWrite(l, x) ELSE NewItem(l, x)

LoopsSound ==
    /\ \A r \in Replicas : LoopSound(loop[r])
    /\ \A r, s \in Replicas : r # s => loop[r].held \cap loop[s].held = {}

\* A call is remembered in the row, will be, or was rolled back.
CallsCounted ==
    \A x \in Entries :
        \/ sends[x] <= journal[x].tries + faults
        \/ /\ sends[x] <= journal[x].tries + faults + 1
           /\ \E r \in Replicas : x \in loop[r].sent

TriggersInv ==
    /\ TypeOK
    /\ LoopsShaped
    /\ JournalSound
    /\ LoopsSound
    /\ CallsCounted
    /\ JournalIsTrue

-----------------------------------------------------------------------------
LEMMA ConstantsAreNumbers ==
    /\ NumRetries \in Nat /\ RetryInterval \in Nat /\ Tolerance \in Nat
    /\ MaxTime \in Nat /\ MaxFaults \in Nat /\ ExpandLimit \in Nat
    /\ \A t \in Instants : t \in 0..MaxTime
BY TriggersAssumption

\* A pair is not a triple.
LEMMA EventsAreNotItems == \A x : ~(x \in Events /\ x \in Items)
BY DEF Events, Items

LEMMA ItemFacts ==
    ASSUME NEW i \in Items
    PROVE  /\ i = <<i[1], i[2], i[3]>>
           /\ i \in Entries /\ EventOf(i) \in Events
           /\ EventOf(i)[1] = i[1] /\ EventOf(i)[2] = i[2]
BY DEF Items, Events, Entries, EventOf

LEMMA EventFacts ==
    ASSUME NEW e \in Events
    PROVE  /\ e = <<e[1], e[2]>> /\ e[1] \in Triggers /\ e[2] \in Instants
           /\ e \in Entries /\ e \notin Items
BY EventsAreNotItems DEF Events, Entries

LEMMA AtIsATime ==
    ASSUME NEW x \in Entries
    PROVE  At(x) \in 0..MaxTime
<1>1. At(x) \in Instants
  BY DEF At, Entries, Events, Items
<1> QED
  BY <1>1, ConstantsAreNumbers

LEMMA Restful ==
    /\ Resting \in Loop /\ Resting.pc = "idle" /\ Resting.held = {}
    /\ DOMAIN Resting.writes = {} /\ Resting.sent = {} /\ Resting.left = 0
<1>1. <<>> \in [{} -> Row] /\ DOMAIN <<>> = {}
  OBVIOUS
<1> DEFINE All == UNION {[S -> Row] : S \in SUBSET Entries}
<1>2. <<>> \in All
  BY <1>1
<1>3. Loop = [pc : {"idle", "claim", "deliver", "items", "run", "ran"},
              held : SUBSET Entries, writes : All, sent : SUBSET Entries,
              left : 0..ExpandLimit]
  BY DEF Loop
<1>4. 0 \in 0..ExpandLimit
  BY ConstantsAreNumbers
<1> HIDE DEF All
<1>5. Resting \in Loop
  BY <1>2, <1>3, <1>4 DEF Resting
<1> QED
  BY <1>1, <1>5 DEF Resting

LEMMA OverFacts ==
    ASSUME NEW new, NEW old
    PROVE  /\ DOMAIN Over(new, old) = DOMAIN new \cup DOMAIN old
           /\ \A x \in DOMAIN new : Over(new, old)[x] = new[x]
           /\ \A x \in DOMAIN old : x \notin DOMAIN new => Over(new, old)[x] = old[x]
BY DEF Over

LEMMA OnlyFacts ==
    ASSUME NEW x, NEW w
    PROVE  DOMAIN Only(x, w) = {x} /\ Only(x, w)[x] = w
BY DEF Only

LEMMA RowFacts ==
    ASSUME TypeOK, NEW x \in Entries
    PROVE  /\ journal[x] \in Row
           /\ journal[x].tries \in Nat /\ journal[x].tries <= NumRetries + 1
           /\ journal[x].status \in Final \cup {"absent", "scheduled"}
BY ConstantsAreNumbers DEF TypeOK, Row

LEMMA AbsentFacts ==
    /\ Absent \in Row /\ Absent.status = "absent" /\ Absent.tries = 0
    /\ \A t \in 0..MaxTime : /\ Scheduled(t) \in Row /\ Scheduled(t).status = "scheduled"
                             /\ Scheduled(t).tries = 0 /\ Scheduled(t) # Absent
<1>1. 0 \in 0..MaxTime /\ 0 \in 0..(NumRetries + 1)
  BY ConstantsAreNumbers
<1>2. Absent \in Row /\ Absent.status = "absent" /\ Absent.tries = 0
  BY <1>1 DEF Absent, Row
<1>3. ASSUME NEW t \in 0..MaxTime
      PROVE  /\ Scheduled(t) \in Row /\ Scheduled(t).status = "scheduled"
             /\ Scheduled(t).tries = 0
  BY <1>2, <1>3 DEF Row, Scheduled
<1> QED
  BY <1>2, <1>3

\* The functions a transaction's writes may be.
LEMMA WritesType ==
    ASSUME NEW f, DOMAIN f \subseteq Entries, f = [x \in DOMAIN f |-> f[x]],
           \A x \in DOMAIN f : f[x] \in Row
    PROVE  f \in UNION {[S -> Row] : S \in SUBSET Entries}
<1>1. f \in [DOMAIN f -> Row]
  OBVIOUS
<1> QED
  BY <1>1

LEMMA LoopFacts ==
    ASSUME LoopsShaped, NEW r \in Replicas
    PROVE  /\ loop[r] \in Loop /\ loop[r].held \subseteq Entries /\ loop[r].sent \subseteq Entries
           /\ DOMAIN loop[r].writes \subseteq Entries
           /\ \A x \in DOMAIN loop[r].writes : loop[r].writes[x] \in Row
BY DEF LoopsShaped, Loop

\* Shape is all the type invariant says of loops.
LEMMA LoopsTyped ==
    ASSUME LoopsShaped
    PROVE  \A r \in Replicas :
          /\ loop[r].pc \in {"idle", "claim", "deliver", "items", "run", "ran"}
          /\ {loop[r].held, loop[r].sent} \subseteq SUBSET Entries
          /\ DOMAIN loop[r].writes \subseteq Entries
          /\ loop[r].writes \in [DOMAIN loop[r].writes -> Row]
          /\ loop[r].left \in 0..ExpandLimit
BY DEF LoopsShaped, Loop

LEMMA LoopsTypedNext ==
    ASSUME LoopsShaped'
    PROVE  \A r \in Replicas :
          /\ loop'[r].pc \in {"idle", "claim", "deliver", "items", "run", "ran"}
          /\ {loop'[r].held, loop'[r].sent} \subseteq SUBSET Entries
          /\ DOMAIN loop'[r].writes \subseteq Entries
          /\ loop'[r].writes \in [DOMAIN loop'[r].writes -> Row]
          /\ loop'[r].left \in 0..ExpandLimit
BY DEF LoopsShaped, Loop

LEMMA TriggersInit == Init => TriggersInv
<1> SUFFICES ASSUME Init PROVE TriggersInv
  OBVIOUS
<1>1. LoopsShaped
  BY Restful DEF Init, LoopsShaped
<1>2. TypeOK
  BY <1>1, LoopsTyped, AbsentFacts, ConstantsAreNumbers DEF Init, TypeOK
<1>3. JournalSound /\ JournalIsTrue
  BY AbsentFacts DEF Init, JournalSound, JournalIsTrue, DeliveredIsDone, NotDroppedMidRetry, Entries
<1>4. LoopsSound
  BY Restful DEF Init, LoopsSound, LoopSound
<1>5. CallsCounted
  BY AbsentFacts DEF Init, CallsCounted
<1> QED
  BY <1>1, <1>2, <1>3, <1>4, <1>5 DEF TriggersInv

-----------------------------------------------------------------------------
\* A loop's soundness is about the journal, what was done and the rows.
LEMMA SoundSame ==
    ASSUME UNCHANGED <<kind, journal>>, rows' \subseteq rows, done \subseteq done',
           NEW l, LoopSound(l)
    PROVE  LoopSound(l)'
<1>1. \A x, w : EndIsTrue(x, w) => EndIsTrue(x, w)'
  BY DEF EndIsTrue, RowGone
<1>2. \A x : ItemsOf(x)' \subseteq ItemsOf(x)
  BY DEF ItemsOf, KeysOf
<1>3. \A x : HeldWrite(l, x) => HeldWrite(l, x)'
  BY <1>1, <1>2 DEF HeldWrite
<1>4. \A x : NewItem(l, x) => NewItem(l, x)'
  BY DEF NewItem
<1> QED
  BY <1>3, <1>4 DEF LoopSound

LEMMA SoundNext ==
    ASSUME NEW l, NEW r, loop'[r] = l, LoopSound(l)'
    PROVE  LoopSound(loop[r])'
BY DEF LoopSound, HeldWrite, NewItem, EndIsTrue, RowGone, ItemsOf, KeysOf

LEMMA JournalKept ==
    ASSUME TriggersInv, UNCHANGED <<kind, journal>>, rows' \subseteq rows,
           done \subseteq done'
    PROVE  JournalSound' /\ JournalIsTrue'
<1>1. JournalSound'
  BY DEF TriggersInv, JournalSound
<1>2. JournalIsTrue'
  BY DEF TriggersInv, JournalIsTrue, DeliveredIsDone, NotDroppedMidRetry, RowGone, ItemsOf, KeysOf
<1> QED
  BY <1>1, <1>2

\* A loop moves and makes no call; it may forget calls only in a fault.
LEMMA LoopMoves ==
    ASSUME TriggersInv, NEW r \in Replicas, NEW l \in Loop,
           loop' = [loop EXCEPT ![r] = l], LoopSound(l),
           \A s \in Replicas : s # r => l.held \cap loop[s].held = {},
           UNCHANGED <<kind, journal, metadata, rows, clock, sends, done>>,
           faults' \in {faults, faults + 1}, faults' <= MaxFaults,
           loop[r].sent \subseteq l.sent \/ faults' = faults + 1
    PROVE  TriggersInv'
<1> USE DEF TriggersInv
<1>1. loop'[r] = l /\ \A s \in Replicas : s # r => loop'[s] = loop[s]
  BY DEF LoopsShaped
<1>2. LoopsShaped'
  BY DEF LoopsShaped
<1>3. faults \in Nat /\ faults' \in 0..MaxFaults
  BY ConstantsAreNumbers DEF TypeOK
<1>4. TypeOK'
  <2>1. \A s \in Replicas :
          /\ loop'[s].pc \in {"idle", "claim", "deliver", "items", "run", "ran"}
          /\ {loop'[s].held, loop'[s].sent} \subseteq SUBSET Entries
          /\ DOMAIN loop'[s].writes \subseteq Entries
          /\ loop'[s].writes \in [DOMAIN loop'[s].writes -> Row]
          /\ loop'[s].left \in 0..ExpandLimit
    BY <1>2 DEF LoopsShaped, Loop
  <2> QED
    BY <1>3, <2>1 DEF TypeOK
<1>5. LoopsSound'
  <2>1. LoopSound(l)'
    BY SoundSame
  <2>2. \A s \in Replicas : LoopSound(loop[s])'
    <3> SUFFICES ASSUME NEW s \in Replicas PROVE LoopSound(loop[s])'
      OBVIOUS
    <3>1. CASE s = r
      BY <1>1, <2>1, <3>1, SoundNext
    <3>2. CASE s # r
      <4>1. PICK m : m = loop[s]
        OBVIOUS
      <4>2. LoopSound(m)'
        BY <4>1, SoundSame DEF LoopsSound
      <4> QED
        BY <1>1, <3>2, <4>1, <4>2, SoundNext
    <3> QED
      BY <3>1, <3>2
  <2> QED
    BY <1>1, <2>2 DEF LoopsSound
<1>6. CallsCounted'
  <2> SUFFICES ASSUME NEW x \in Entries
               PROVE  \/ sends[x] <= journal[x].tries + faults'
                      \/ /\ sends[x] <= journal[x].tries + faults' + 1
                         /\ \E s \in Replicas : x \in loop'[s].sent
    BY DEF CallsCounted
  <2>1. sends[x] \in Nat /\ journal[x].tries \in Nat
    BY RowFacts DEF TypeOK
  <2>2. CASE faults' = faults + 1
    BY <1>3, <2>1, <2>2 DEF CallsCounted
  <2>3. CASE faults' = faults /\ loop[r].sent \subseteq l.sent
    BY <1>1, <2>3 DEF CallsCounted
  <2> QED
    BY <2>2, <2>3
<1> QED
  BY <1>2, <1>4, <1>5, <1>6, JournalKept

-----------------------------------------------------------------------------
(* What an attempt leaves *)

LEMMA EndedFacts ==
    ASSUME TypeOK, NEW x \in Entries, NEW how \in Final
    PROVE  /\ Ended(x, how) \in Row /\ Ended(x, how).status = how
           /\ Ended(x, how).tries = journal[x].tries
BY RowFacts DEF Ended, Row

LEMMA SucceededFacts ==
    ASSUME TypeOK, NEW x \in Entries, journal[x].tries <= NumRetries, NEW how \in Final
    PROVE  LET w == [Ended(x, how) EXCEPT !.tries = @ + 1] IN
           w \in Row /\ w.status = how /\ w.tries = journal[x].tries + 1
<1>1. journal[x].tries + 1 \in 0..(NumRetries + 1)
  BY RowFacts, ConstantsAreNumbers
<1> QED
  BY <1>1, EndedFacts DEF Row

LEMMA RetriedFacts ==
    ASSUME TypeOK, NEW x \in Entries, journal[x].status = "scheduled",
           journal[x].tries <= NumRetries
    PROVE  /\ Retried(x) \in Row /\ Retried(x).tries = journal[x].tries + 1
           /\ Retried(x).status \in {"error", "scheduled"}
           /\ Retried(x).status = "scheduled" => Retried(x).tries <= NumRetries
<1> DEFINE n == journal[x].tries + 1
           at == Min({clock + RetryInterval, MaxTime})
<1>1. n \in 0..(NumRetries + 1) /\ n \in Nat
  BY RowFacts, ConstantsAreNumbers
<1>2. at \in 0..MaxTime
  <2>1. clock + RetryInterval \in Nat /\ MaxTime \in Nat
    BY ConstantsAreNumbers DEF TypeOK
  <2>2. ASSUME NEW a \in Nat, NEW b \in Nat
        PROVE  Min({a, b}) \in 0..b
    <3>1. CASE a <= b
      <4>1. a \in {a, b} /\ \A y \in {a, b} : a <= y
        BY <3>1
      <4>2. \A z \in {a, b} : (\A y \in {a, b} : z <= y) => z \in 0..b
        BY <3>1
      <4> QED
        BY <4>1, <4>2 DEF Min
    <3>2. CASE ~(a <= b)
      <4>1. b \in {a, b} /\ \A y \in {a, b} : b <= y
        BY <3>2
      <4>2. \A z \in {a, b} : (\A y \in {a, b} : z <= y) => z \in 0..b
        BY <3>2
      <4> QED
        BY <4>1, <4>2 DEF Min
    <3> QED
      BY <3>1, <3>2
  <2> QED
    BY <2>1, <2>2
<1>3. CASE n > NumRetries
  BY <1>3, SucceededFacts DEF Retried, Ended, Final, Row
<1>4. CASE ~(n > NumRetries)
  <2>1. Retried(x) = [journal[x] EXCEPT !.tries = n, !.retryAt = at]
    BY <1>4 DEF Retried
  <2>2. journal[x] \in Row
    BY RowFacts
  <2> HIDE DEF n, at
  <2>3. /\ Retried(x) \in Row /\ Retried(x).tries = n
        /\ Retried(x).status = journal[x].status
    BY <1>1, <1>2, <2>1, <2>2 DEF Row
  <2> QED
    BY <1>1, <1>4, <2>3, ConstantsAreNumbers DEF n
<1> QED
  BY <1>3, <1>4

\* What an open transaction will say stays true while it is open.
LEMMA EndStaysTrue ==
    ASSUME UNCHANGED <<kind, rows>>, done \subseteq done', NEW x, NEW w, EndIsTrue(x, w)
    PROVE  EndIsTrue(x, w)'
BY DEF EndIsTrue, RowGone

\* A loop with one row more written, and the calls X made.
WithRow(m, pc, x, w, X) ==
    [m EXCEPT !.pc = pc, !.writes = Over(Only(x, w), m.writes), !.sent = m.sent \cup X]

LEMMA OneRowMore ==
    ASSUME NEW m \in Loop, NEW x \in Entries, NEW w \in Row,
           NEW pc \in {"deliver", "ran"}, NEW X \in SUBSET Entries,
           NEW l, l = WithRow(m, pc, x, w, X)
    PROVE  /\ l \in Loop
           /\ l.pc = pc /\ l.held = m.held /\ l.sent = m.sent \cup X
           /\ DOMAIN l.writes = {x} \cup DOMAIN m.writes
           /\ l.writes[x] = w
           /\ \A y \in DOMAIN m.writes : y # x => l.writes[y] = m.writes[y]
<1> DEFINE f == Over(Only(x, w), m.writes)
<1>1. PICK o : o = Only(x, w)
  OBVIOUS
<1>2. DOMAIN o = {x} /\ o[x] = w
  BY <1>1, OnlyFacts
<1>3. f = Over(o, m.writes)
  BY <1>1
<1>4. f = [y \in DOMAIN f |-> f[y]]
  BY DEF Over
<1>5. /\ DOMAIN f = {x} \cup DOMAIN m.writes
      /\ f[x] = w
      /\ \A y \in DOMAIN m.writes : y # x => f[y] = m.writes[y]
  <2>1. PICK g : g = m.writes
    OBVIOUS
  <2>2. /\ DOMAIN Over(o, g) = DOMAIN o \cup DOMAIN g
        /\ \A y \in DOMAIN o : Over(o, g)[y] = o[y]
        /\ \A y \in DOMAIN g : y \notin DOMAIN o => Over(o, g)[y] = g[y]
    BY OverFacts
  <2>3. f = Over(o, g)
    BY <1>3, <2>1
  <2> HIDE DEF f
  <2> QED
    BY <1>2, <2>1, <2>2, <2>3
<1> HIDE DEF f
<1>6. /\ DOMAIN m.writes \subseteq Entries
      /\ \A y \in DOMAIN m.writes : m.writes[y] \in Row
  BY DEF Loop
<1>7. f \in UNION {[S -> Row] : S \in SUBSET Entries}
  <2>1. DOMAIN f \subseteq Entries /\ \A y \in DOMAIN f : f[y] \in Row
    BY <1>5, <1>6
  <2> QED
    BY <1>4, <2>1, WritesType
<1> DEFINE All == UNION {[S -> Row] : S \in SUBSET Entries}
<1>8. Loop = [pc : {"idle", "claim", "deliver", "items", "run", "ran"},
              held : SUBSET Entries, writes : All, sent : SUBSET Entries,
              left : 0..ExpandLimit]
  BY DEF Loop
<1>9. f \in All
  BY <1>7
<1>10. l = [m EXCEPT !.pc = pc, !.writes = f, !.sent = m.sent \cup X]
  BY DEF f, WithRow
<1> HIDE DEF All
<1>11. l \in Loop
  BY <1>8, <1>9, <1>10
<1>12. l.pc = pc /\ l.held = m.held /\ l.sent = m.sent \cup X /\ l.writes = f
  BY <1>8, <1>10
<1> QED
  BY <1>5, <1>11, <1>12

\* An attempt at a row the loop holds ends, with a call or without one.
LEMMA RowWritten ==
    ASSUME TriggersInv, NEW r \in Replicas, NEW m, m = loop[r],
           NEW x \in m.held, x \notin DOMAIN m.writes,
           NEW pc, (m.pc = "deliver" /\ pc = "deliver") \/ (m.pc = "run" /\ pc = "ran"),
           NEW w \in Row, EndIsTrue(x, w)', w.tries >= journal[x].tries,
           x \in Invoke \X Instants => w.status # "delivered",
           NEW X \in {{}, {x}}, X = {x} => w.tries = journal[x].tries + 1,
           NEW l, l = WithRow(m, pc, x, w, X),
           loop' = [loop EXCEPT ![r] = l],
           UNCHANGED <<kind, journal, metadata, rows, clock>>,
           done \subseteq done', done' \subseteq Entries,
           sends' = IF X = {x} THEN [sends EXCEPT ![x] = @ + 1] ELSE sends,
           faults' \in {faults, faults + 1}, faults' <= MaxFaults
    PROVE  TriggersInv'
<1> USE DEF TriggersInv
<1>1. x \in Entries /\ LoopSound(m) /\ m \in Loop /\ journal[x].status = "scheduled"
  BY LoopFacts DEF LoopsSound, LoopSound
<1>2. /\ l \in Loop
      /\ l.pc = pc /\ l.held = m.held /\ l.sent = m.sent \cup X
      /\ DOMAIN l.writes = {x} \cup DOMAIN m.writes
      /\ l.writes[x] = w
      /\ \A y \in DOMAIN m.writes : y # x => l.writes[y] = m.writes[y]
  <2>1. X \in SUBSET Entries /\ pc \in {"deliver", "ran"}
    BY <1>1
  <2> QED
    BY <1>1, <2>1, OneRowMore
<1>3. LoopSound(l)'
  <2>1. \A y \in DOMAIN l.writes :
           IF y \in l.held THEN HeldWrite(l, y)' ELSE NewItem(l, y)'
    <3> SUFFICES ASSUME NEW y \in DOMAIN l.writes
                 PROVE  IF y \in l.held THEN HeldWrite(l, y)' ELSE NewItem(l, y)'
      OBVIOUS
    <3>1. CASE y = x
      <4>1. x \in l.sent => X = {x}
        BY <1>1, <1>2 DEF LoopSound
      <4> QED
        BY <1>2, <3>1, <4>1 DEF HeldWrite
    <3>2. CASE y # x /\ y \in l.held
      <4>1. y \in DOMAIN m.writes /\ HeldWrite(m, y) /\ l.writes[y] = m.writes[y]
        BY <1>1, <1>2, <3>2 DEF LoopSound
      <4>2. ItemsOf(y)' = ItemsOf(y)
        BY DEF ItemsOf, KeysOf
      <4>3. PICK v : v = m.writes[y]
        OBVIOUS
      <4>4. EndIsTrue(y, v)'
        BY <4>1, <4>3, EndStaysTrue DEF HeldWrite
      <4>5. y \in l.sent => y \in m.sent
        BY <1>2, <3>2
      <4> QED
        BY <1>2, <3>2, <4>1, <4>2, <4>3, <4>4, <4>5 DEF HeldWrite
    <3>3. CASE y # x /\ y \notin l.held
      <4>1. y \in DOMAIN m.writes /\ NewItem(m, y) /\ l.writes[y] = m.writes[y]
        BY <1>1, <1>2, <3>3 DEF LoopSound
      <4>2. EventOf(y) # x
        BY <4>1 DEF NewItem
      <4> QED
        BY <1>2, <3>3, <4>1, <4>2 DEF NewItem
    <3> QED
      BY <3>1, <3>2, <3>3
  <2>2. l.pc \notin {"idle", "claim", "items", "run"}
    BY <1>2
  <2>3. l.pc = "deliver" => l.held \subseteq Events
    BY <1>1, <1>2 DEF LoopSound
  <2>4. l.pc \in {"run", "ran"} => l.held \subseteq Items
    BY <1>1, <1>2 DEF LoopSound
  <2>5. l.sent \subseteq l.held \cap DOMAIN l.writes
    BY <1>1, <1>2 DEF LoopSound
  <2>6. \A y \in l.held : journal'[y].status = "scheduled"
    BY <1>1, <1>2 DEF LoopSound
  <2> QED
    BY <2>1, <2>2, <2>3, <2>4, <2>5, <2>6 DEF LoopSound
<1>4. loop'[r] = l /\ \A s \in Replicas : s # r => loop'[s] = loop[s]
  BY DEF LoopsShaped
<1>5. LoopsShaped'
  BY <1>2 DEF LoopsShaped
<1>6. faults \in Nat /\ faults' \in 0..MaxFaults
  BY ConstantsAreNumbers DEF TypeOK
<1>7. TypeOK'
  <2>1. sends' \in [Entries -> Nat]
    BY <1>1 DEF TypeOK
  <2> QED
    BY <1>5, <1>6, <2>1, LoopsTypedNext DEF TypeOK
<1>8. LoopsSound'
  <2>1. \A s \in Replicas : LoopSound(loop[s])'
    <3> SUFFICES ASSUME NEW s \in Replicas PROVE LoopSound(loop[s])'
      OBVIOUS
    <3>1. CASE s = r
      <4>1. loop'[s] = l
        BY <1>4, <3>1
      <4> QED
        BY <1>3, <4>1, SoundNext
    <3>2. CASE s # r
      <4>1. PICK k : k = loop[s]
        OBVIOUS
      <4>2. LoopSound(k)'
        BY <4>1, SoundSame DEF LoopsSound
      <4> QED
        BY <1>4, <3>2, <4>1, <4>2, SoundNext
    <3> QED
      BY <3>1, <3>2
  <2>2. \A s \in Replicas : loop'[s].held = loop[s].held
    BY <1>2, <1>4
  <2> QED
    BY <2>1, <2>2 DEF LoopsSound
<1>9. CallsCounted'
  <2> SUFFICES ASSUME NEW y \in Entries
               PROVE  \/ sends'[y] <= journal[y].tries + faults'
                      \/ /\ sends'[y] <= journal[y].tries + faults' + 1
                         /\ \E s \in Replicas : y \in loop'[s].sent
    BY DEF CallsCounted
  <2>1. sends[y] \in Nat /\ journal[y].tries \in Nat
    BY RowFacts DEF TypeOK
  <2>2. CASE X = {x} /\ y = x
    <3>1. \A s \in Replicas : x \notin loop[s].sent
      BY <1>1 DEF LoopsSound, LoopSound
    <3>2. sends[x] <= journal[x].tries + faults
      BY <1>1, <3>1 DEF CallsCounted
    <3>3. sends'[x] = sends[x] + 1 /\ x \in loop'[r].sent
      BY <1>1, <1>2, <1>4, <2>2 DEF TypeOK
    <3> QED
      BY <1>6, <2>1, <2>2, <3>2, <3>3
  <2>3. CASE ~(X = {x} /\ y = x)
    <3>1. sends'[y] = sends[y]
      BY <1>1, <2>3 DEF TypeOK
    <3>2. \A s \in Replicas : loop[s].sent \subseteq loop'[s].sent
      BY <1>2, <1>4
    <3>3. (\E s \in Replicas : y \in loop[s].sent) => \E s \in Replicas : y \in loop'[s].sent
      BY <3>2
    <3> QED
      BY <1>6, <2>1, <3>1, <3>3 DEF CallsCounted
  <2> QED
    BY <2>2, <2>3
<1> QED
  BY <1>5, <1>7, <1>8, <1>9, JournalKept

-----------------------------------------------------------------------------
(* The attempts at events and work items *)

LEMMA HeldFacts ==
    ASSUME TriggersInv, NEW r \in Replicas, NEW x \in loop[r].held
    PROVE  /\ x \in Entries /\ journal[x].status = "scheduled"
           /\ journal[x].tries \in Nat /\ journal[x].tries <= NumRetries
           /\ loop[r].pc = "deliver" => x \in Events
           /\ loop[r].pc = "run" => x \in Items /\ x \notin DOMAIN loop[r].writes
<1>1. x \in Entries /\ LoopSound(loop[r])
  BY LoopFacts DEF TriggersInv, LoopsSound
<1>2. journal[x].status = "scheduled"
  BY <1>1 DEF LoopSound
<1> QED
  BY <1>1, <1>2, RowFacts DEF TriggersInv, JournalSound, LoopSound

LEMMA WriteIs ==
    ASSUME LoopsShaped, NEW r \in Replicas, NEW m, m = loop[r], NEW pc, NEW x, NEW w,
           Write(r, pc, Only(x, w))
    PROVE  loop' = [loop EXCEPT ![r] = WithRow(m, pc, x, w, {})]
<1>1. m \in Loop
  BY LoopFacts
<1>2. WithRow(m, pc, x, w, {}) = [m EXCEPT !.pc = pc, !.writes = Over(Only(x, w), m.writes)]
  BY <1>1 DEF WithRow, Loop
<1> QED
  BY <1>1, <1>2 DEF Write, LoopsShaped, Loop

\* RowWritten for an attempt without a call.
LEMMA RowEnded ==
    ASSUME TriggersInv, NEW r \in Replicas, NEW x \in loop[r].held,
           x \notin DOMAIN loop[r].writes,
           loop[r].pc \in {"deliver", "run"},
           NEW pc, pc = IF loop[r].pc = "run" THEN "ran" ELSE "deliver",
           NEW w \in Row, EndIsTrue(x, w), w.tries >= journal[x].tries,
           w.status # "delivered",
           Write(r, pc, Only(x, w)),
           UNCHANGED <<kind, journal, metadata, rows, clock, sends, done>>,
           faults' \in {faults, faults + 1}, faults' <= MaxFaults
    PROVE  TriggersInv'
<1>1. PICK m : m = loop[r]
  OBVIOUS
<1>2. PICK l : l = WithRow(m, pc, x, w, {})
  OBVIOUS
<1>3. loop' = [loop EXCEPT ![r] = l]
  BY <1>1, <1>2, WriteIs DEF TriggersInv
<1>4. EndIsTrue(x, w)'
  BY EndStaysTrue
<1>5. {} \in {{}, {x}} /\ {} # {x}
  OBVIOUS
<1>6. done' \subseteq Entries
  BY DEF TriggersInv, TypeOK
<1> QED
  <2>1. (m.pc = "deliver" /\ pc = "deliver") \/ (m.pc = "run" /\ pc = "ran")
    BY <1>1
  <2>2. x \in m.held /\ x \notin DOMAIN m.writes
    BY <1>1
  <2> QED
    BY <1>1, <1>2, <1>3, <1>4, <1>5, <1>6, <2>1, <2>2, RowWritten

\* RowWritten for an attempt with a call.
LEMMA RowCalled ==
    ASSUME TriggersInv, NEW r \in Replicas, NEW x \in loop[r].held,
           x \notin DOMAIN loop[r].writes,
           loop[r].pc \in {"deliver", "run"},
           NEW pc, pc = IF loop[r].pc = "run" THEN "ran" ELSE "deliver",
           x \notin Invoke \X Instants,
           NEW w \in Row, w.tries = journal[x].tries + 1, NEW works \in BOOLEAN,
           w.status = "delivered" => works,
           w.status \in {"delivered", "error", "scheduled"},
           w.status = "scheduled" => w.tries <= NumRetries,
           Called(r, x, pc, works, w),
           UNCHANGED <<kind, journal, metadata, rows, clock, faults>>
    PROVE  TriggersInv'
<1>1. PICK m : m = loop[r]
  OBVIOUS
<1>2. PICK l : l = WithRow(m, pc, x, w, {x})
  OBVIOUS
<1>3. loop' = [loop EXCEPT ![r] = l]
  <2>1. m \in Loop
    BY <1>1, LoopFacts DEF TriggersInv
  <2> QED
    BY <1>1, <1>2, <2>1 DEF Called, WithRow, LoopsShaped, Loop, TriggersInv
<1>4. x \in Entries /\ journal[x].tries \in Nat
  BY HeldFacts
<1>5. w.tries >= journal[x].tries
  BY <1>4
<1>6. done \subseteq done' /\ done' \subseteq Entries /\ (works => x \in done')
  BY <1>4 DEF Called, TriggersInv, TypeOK
<1>7. EndIsTrue(x, w)'
  BY <1>6 DEF EndIsTrue
<1>8. sends' = [sends EXCEPT ![x] = @ + 1]
  BY DEF Called
<1>9. {x} \in {{}, {x}} /\ faults' \in {faults, faults + 1} /\ faults' <= MaxFaults
  BY DEF TriggersInv, TypeOK
<1> QED
  <2>1. (m.pc = "deliver" /\ pc = "deliver") \/ (m.pc = "run" /\ pc = "ran")
    BY <1>1
  <2>2. x \in m.held /\ x \notin DOMAIN m.writes
    BY <1>1
  <2> QED
    BY <1>1, <1>2, <1>3, <1>5, <1>6, <1>7, <1>8, <1>9, <2>1, <2>2, RowWritten

LEMMA DropKeeps ==
    ASSUME TriggersInv, NEW r \in Replicas, NEW e \in loop[r].held, Drop(r, e)
    PROVE  TriggersInv'
<1>1. /\ e \in Entries /\ journal[e].status = "scheduled" /\ journal[e].tries \in Nat
      /\ e \notin DOMAIN loop[r].writes /\ loop[r].pc = "deliver"
  BY HeldFacts DEF Drop, NextOf
<1>2. PICK w : w = Dropped(r, e)
  OBVIOUS
<1>3. w \in Row /\ w.status \in {"dead", "error"} /\ w.tries = journal[e].tries
  BY <1>1, <1>2, EndedFacts DEF Dropped, Final, TriggersInv
<1>4. EndIsTrue(e, w)
  <2>1. CASE ~Declared(r, e)
    <3>1. e[1] \notin Old \cap New
      BY <2>1 DEF Declared, TriggersInv, TypeOK
    <3> QED
      BY <1>3, <3>1 DEF EndIsTrue
  <2>2. CASE Declared(r, e)
    <3>1. journal[e].tries = 0
      BY <2>2 DEF Drop, TooLate
    <3> QED
      BY <1>3, <3>1 DEF EndIsTrue
  <2> QED
    BY <2>1, <2>2
<1>5. w.tries >= journal[e].tries
  BY <1>1, <1>3
<1>6. Write(r, "deliver", Only(e, w))
  BY <1>2 DEF Drop
<1>7. UNCHANGED <<kind, journal, metadata, rows, clock, sends, done>>
  BY DEF Drop
<1>8. faults' \in {faults, faults + 1} /\ faults' <= MaxFaults
  BY DEF Drop, TriggersInv, TypeOK
<1> QED
  BY <1>1, <1>3, <1>4, <1>5, <1>6, <1>7, <1>8, RowEnded

LEMMA ExpandFailsKeeps ==
    ASSUME TriggersInv, NEW r \in Replicas, NEW e \in loop[r].held, ExpandFails(r, e)
    PROVE  TriggersInv'
<1>1. /\ e \in Entries /\ journal[e].status = "scheduled" /\ journal[e].tries \in Nat
      /\ journal[e].tries <= NumRetries
      /\ e \notin DOMAIN loop[r].writes /\ loop[r].pc = "deliver"
  BY HeldFacts DEF ExpandFails, Live, NextOf
<1>2. PICK w : w = Retried(e)
  OBVIOUS
<1>3. /\ w \in Row /\ w.status \in {"error", "scheduled"} /\ w.tries = journal[e].tries + 1
      /\ w.status = "scheduled" => w.tries <= NumRetries
  BY <1>1, <1>2, RetriedFacts DEF TriggersInv
<1>4. EndIsTrue(e, w)
  BY <1>3 DEF EndIsTrue
<1>5. w.tries >= journal[e].tries
  BY <1>1, <1>3
<1>6. Write(r, "deliver", Only(e, w))
  BY <1>2 DEF ExpandFails
<1>7. UNCHANGED <<kind, journal, metadata, rows, clock, sends, done>>
  BY DEF ExpandFails
<1>8. faults' \in {faults, faults + 1} /\ faults' <= MaxFaults
  BY ConstantsAreNumbers DEF ExpandFails, TriggersInv, TypeOK
<1> QED
  BY <1>1, <1>3, <1>4, <1>5, <1>6, <1>7, <1>8, RowEnded

LEMMA AnsweredFacts ==
    ASSUME TypeOK, NEW x \in Entries, journal[x].status = "scheduled",
           journal[x].tries <= NumRetries, NEW works \in BOOLEAN, NEW heard \in BOOLEAN
    PROVE  LET w == Answered(x, works, heard) IN
           /\ w \in Row /\ w.tries = journal[x].tries + 1
           /\ w.status \in {"delivered", "error", "scheduled"}
           /\ w.status = "delivered" => works
           /\ w.status = "scheduled" => w.tries <= NumRetries
<1>1. CASE works /\ heard
  BY <1>1, SucceededFacts DEF Answered, Succeeded, Final
<1>2. CASE ~(works /\ heard)
  BY <1>2, RetriedFacts DEF Answered
<1> QED
  BY <1>1, <1>2

LEMMA PostKeeps ==
    ASSUME TriggersInv, NEW r \in Replicas, NEW e \in loop[r].held,
           NEW works \in BOOLEAN, NEW heard \in BOOLEAN, Post(r, e, works, heard)
    PROVE  TriggersInv'
<1>1. /\ e \in Entries /\ journal[e].status = "scheduled"
      /\ journal[e].tries <= NumRetries
      /\ e \notin DOMAIN loop[r].writes /\ loop[r].pc = "deliver"
  BY HeldFacts DEF Post, Live, NextOf
<1>2. e \notin Invoke \X Instants
  BY DEF Post
<1>3. PICK w : w = Answered(e, works, heard)
  OBVIOUS
<1>4. /\ w \in Row /\ w.tries = journal[e].tries + 1
      /\ w.status \in {"delivered", "error", "scheduled"}
      /\ w.status = "delivered" => works
      /\ w.status = "scheduled" => w.tries <= NumRetries
  BY <1>1, <1>3, AnsweredFacts DEF TriggersInv
<1>5. Called(r, e, "deliver", works, w)
  BY <1>3 DEF Post
<1>6. UNCHANGED <<kind, journal, metadata, rows, clock, faults>>
  BY DEF Post
<1> QED
  BY <1>1, <1>2, <1>4, <1>5, <1>6, RowCalled

LEMMA DropItemKeeps ==
    ASSUME TriggersInv, NEW r \in Replicas, NEW i \in loop[r].held, DropItem(r, i)
    PROVE  TriggersInv'
<1>1. /\ i \in Items /\ i \in Entries /\ journal[i].status = "scheduled"
      /\ journal[i].tries \in Nat
      /\ i \notin DOMAIN loop[r].writes /\ loop[r].pc = "run"
  BY HeldFacts DEF DropItem
<1>2. PICK w : w = Ended(i, "dead")
  OBVIOUS
<1>3. w \in Row /\ w.status = "dead" /\ w.tries = journal[i].tries
  BY <1>1, <1>2, EndedFacts DEF Final, TriggersInv
<1>4. EndIsTrue(i, w)
  <2>1. i[1] \in Invoke
    BY <1>1 DEF TriggersInv, JournalSound
  <2>2. CASE ~Declared(r, i)
    <3>1. i[1] \notin Old \cap New
      BY <2>2 DEF Declared, TriggersInv, TypeOK
    <3> QED
      BY <1>3, <3>1 DEF EndIsTrue
  <2>3. CASE TooLate(i)
    <3>1. journal[i].tries = 0
      BY <2>3 DEF TooLate
    <3> QED
      BY <1>3, <3>1 DEF EndIsTrue
  <2>4. CASE RowGone(i)
    BY <1>1, <1>3, <2>4 DEF EndIsTrue
  <2> QED
    BY <2>1, <2>2, <2>3, <2>4 DEF DropItem, HasTarget
<1>5. w.tries >= journal[i].tries
  BY <1>1, <1>3
<1>6. Write(r, "ran", Only(i, w))
  BY <1>2 DEF DropItem
<1>7. UNCHANGED <<kind, journal, metadata, rows, clock, sends, done>>
  BY DEF DropItem
<1>8. faults' \in {faults, faults + 1} /\ faults' <= MaxFaults
  BY DEF DropItem, TriggersInv, TypeOK
<1> QED
  BY <1>1, <1>3, <1>4, <1>5, <1>6, <1>7, <1>8, RowEnded

LEMMA RunItemKeeps ==
    ASSUME TriggersInv, NEW r \in Replicas, NEW i \in loop[r].held,
           NEW works \in BOOLEAN, NEW heard \in BOOLEAN, NEW permanent \in BOOLEAN,
           RunItem(r, i, works, heard, permanent)
    PROVE  TriggersInv'
<1>1. /\ i \in Items /\ i \in Entries /\ journal[i].status = "scheduled"
      /\ journal[i].tries <= NumRetries
      /\ i \notin DOMAIN loop[r].writes /\ loop[r].pc = "run"
  BY HeldFacts DEF RunItem
<1>2. i \notin Invoke \X Instants
  BY <1>1 DEF Items
<1>3. PICK w : w = IF permanent /\ ~(works /\ heard)
                   THEN [Ended(i, "error") EXCEPT !.tries = @ + 1]
                   ELSE Answered(i, works, heard)
  OBVIOUS
<1>4. /\ w \in Row /\ w.tries = journal[i].tries + 1
      /\ w.status \in {"delivered", "error", "scheduled"}
      /\ w.status = "delivered" => works
      /\ w.status = "scheduled" => w.tries <= NumRetries
  <2>1. CASE permanent /\ ~(works /\ heard)
    BY <1>1, <1>3, <2>1, SucceededFacts DEF TriggersInv, Final
  <2>2. CASE ~(permanent /\ ~(works /\ heard))
    BY <1>1, <1>3, <2>2, AnsweredFacts DEF TriggersInv
  <2> QED
    BY <2>1, <2>2
<1>5. Called(r, i, "ran", works, w)
  BY <1>3 DEF RunItem
<1>6. UNCHANGED <<kind, journal, metadata, rows, clock, faults>>
  BY DEF RunItem
<1> QED
  BY <1>1, <1>2, <1>4, <1>5, <1>6, RowCalled

-----------------------------------------------------------------------------
(* Claims, and ticks that end *)

LEMMA ClaimedFacts ==
    ASSUME NEW table, NEW n, NEW S \in Claims(table, n)
    PROVE  S \subseteq table /\ \A x \in S : Due(x) /\ ~Locked(x)
BY DEF Claims, kSubset

\* A loop that holds nothing claims rows no loop holds.
LEMMA LoopClaims ==
    ASSUME TriggersInv, NEW r \in Replicas, NEW m, m = loop[r],
           m.pc \in {"claim", "items"}, NEW S,
           NEW pc, (pc = "deliver" /\ S \subseteq Events) \/ (pc = "run" /\ S \subseteq Items),
           \A x \in S : Due(x) /\ ~Locked(x),
           NEW n \in 0..ExpandLimit,
           loop' = [loop EXCEPT ![r] = [m EXCEPT !.pc = pc, !.held = S, !.left = n]],
           UNCHANGED <<kind, journal, metadata, rows, clock, faults, sends, done>>
    PROVE  TriggersInv'
<1>1. PICK l : l = [m EXCEPT !.pc = pc, !.held = S, !.left = n]
  OBVIOUS
<1>2. m \in Loop /\ LoopSound(m)
  BY LoopFacts DEF TriggersInv, LoopsSound
<1>3. S \subseteq Entries
  BY DEF Entries
<1> DEFINE All == UNION {[T -> Row] : T \in SUBSET Entries}
<1>4. Loop = [pc : {"idle", "claim", "deliver", "items", "run", "ran"},
              held : SUBSET Entries, writes : All, sent : SUBSET Entries,
              left : 0..ExpandLimit]
  BY DEF Loop
<1> HIDE DEF All
<1>5. /\ l \in Loop /\ l.pc = pc /\ l.held = S
      /\ l.writes = m.writes /\ l.sent = m.sent
  BY <1>1, <1>2, <1>3, <1>4
<1>6. m.held = {} /\ DOMAIN m.writes = {} /\ m.sent = {}
  BY <1>2 DEF LoopSound
<1>7. \A x \in S : journal[x].status = "scheduled"
  BY DEF Due
<1>8. LoopSound(l)
  BY <1>5, <1>6, <1>7 DEF LoopSound
<1>9. \A s \in Replicas : s # r => l.held \cap loop[s].held = {}
  BY <1>5 DEF Locked
<1>10. loop' = [loop EXCEPT ![r] = l]
  BY <1>1
<1>11. faults' \in {faults, faults + 1} /\ faults' <= MaxFaults
  BY DEF TriggersInv, TypeOK
<1>12. loop[r].sent \subseteq l.sent
  BY <1>5
<1> QED
  BY <1>5, <1>8, <1>9, <1>10, <1>11, <1>12, LoopMoves

LEMMA ClaimKeeps ==
    ASSUME TriggersInv, NEW r \in Replicas, Claim(r)
    PROVE  TriggersInv'
<1>1. PICK S \in Claims(Events, BatchLimit) :
          loop' = [loop EXCEPT ![r].pc = "deliver", ![r].held = S]
  BY DEF Claim
<1>2. S \subseteq Events /\ \A x \in S : Due(x) /\ ~Locked(x)
  BY ClaimedFacts
<1>3. PICK m : m = loop[r]
  OBVIOUS
<1>4. m \in Loop /\ m.pc = "claim" /\ m.left \in 0..ExpandLimit
  BY <1>3, LoopFacts DEF Claim, TriggersInv, Loop
<1>5. PICK n \in 0..ExpandLimit : n = m.left
  BY <1>4
<1>6. loop' = [loop EXCEPT ![r] = [m EXCEPT !.pc = "deliver", !.held = S, !.left = n]]
  BY <1>1, <1>3, <1>4, <1>5 DEF TriggersInv, LoopsShaped, Loop
<1>7. UNCHANGED <<kind, journal, metadata, rows, clock, faults, sends, done>>
  BY DEF Claim
<1> QED
  BY <1>2, <1>3, <1>4, <1>6, <1>7, LoopClaims

LEMMA ClaimItemKeeps ==
    ASSUME TriggersInv, NEW r \in Replicas, ClaimItem(r)
    PROVE  TriggersInv'
<1>1. PICK S \in Claims(Items, 1) :
          loop' = [loop EXCEPT ![r].pc = "run", ![r].held = S, ![r].left = @ - 1]
  BY DEF ClaimItem
<1>2. S \subseteq Items /\ \A x \in S : Due(x) /\ ~Locked(x)
  BY ClaimedFacts
<1>3. PICK m : m = loop[r]
  OBVIOUS
<1>4. m \in Loop /\ m.pc = "items" /\ m.left - 1 \in 0..ExpandLimit
  BY <1>3, LoopFacts, ConstantsAreNumbers DEF ClaimItem, TriggersInv, Loop
<1>5. PICK n \in 0..ExpandLimit : n = m.left - 1
  BY <1>4
<1>6. loop' = [loop EXCEPT ![r] = [m EXCEPT !.pc = "run", !.held = S, !.left = n]]
  BY <1>1, <1>3, <1>4, <1>5 DEF TriggersInv, LoopsShaped, Loop
<1>7. UNCHANGED <<kind, journal, metadata, rows, clock, faults, sends, done>>
  BY DEF ClaimItem
<1> QED
  BY <1>2, <1>3, <1>4, <1>6, <1>7, LoopClaims

LEMMA RestIsSound == LoopSound(Resting)
BY Restful DEF LoopSound

LEMMA EndTickKeeps ==
    ASSUME TriggersInv, NEW r \in Replicas, EndTick(r)
    PROVE  TriggersInv'
<1>1. LoopSound(loop[r]) /\ loop[r].pc = "items"
  BY DEF EndTick, TriggersInv, LoopsSound
<1>2. loop[r].sent = {}
  BY <1>1 DEF LoopSound
<1>3. UNCHANGED <<kind, journal, metadata, rows, clock, sends, done>>
  BY DEF EndTick
<1>4. loop' = [loop EXCEPT ![r] = Resting]
  BY DEF EndTick
<1>5. faults' \in {faults, faults + 1} /\ faults' <= MaxFaults
  BY DEF EndTick, TriggersInv, TypeOK
<1>6. \A s \in Replicas : s # r => Resting.held \cap loop[s].held = {}
  BY Restful
<1> QED
  BY <1>2, <1>3, <1>4, <1>5, <1>6, Restful, RestIsSound, LoopMoves

LEMMA RollbackKeeps ==
    ASSUME TriggersInv, NEW r \in Replicas, Rollback(r)
    PROVE  TriggersInv'
<1>1. UNCHANGED <<kind, journal, metadata, rows, clock, sends, done>>
  BY DEF Rollback
<1>2. loop' = [loop EXCEPT ![r] = Resting]
  BY DEF Rollback
<1>3. faults' = faults + 1 /\ faults' <= MaxFaults
  BY ConstantsAreNumbers DEF Rollback, TriggersInv, TypeOK
<1>4. \A s \in Replicas : s # r => Resting.held \cap loop[s].held = {}
  BY Restful
<1> QED
  BY <1>1, <1>2, <1>3, <1>4, Restful, RestIsSound, LoopMoves

-----------------------------------------------------------------------------
(* The surroundings *)

\* Metadata, rows, time and faults leave what is true true.
LEMMA SurroundingsKeep ==
    ASSUME TriggersInv, UNCHANGED <<kind, journal, loop, sends, done>>,
           rows' \subseteq rows, metadata' \in [Replicas -> {Old, New}],
           clock' \in 0..MaxTime, faults' \in 0..MaxFaults, faults <= faults'
    PROVE  TriggersInv'
<1> USE DEF TriggersInv
<1>1. LoopsShaped'
  BY DEF LoopsShaped
<1>2. TypeOK'
  BY DEF TypeOK
<1>3. LoopsSound'
  <2>1. ASSUME NEW s \in Replicas
        PROVE  LoopSound(loop[s])'
    <3>1. PICK m : m = loop[s]
      OBVIOUS
    <3>2. LoopSound(m)'
      BY <2>1, <3>1, SoundSame DEF LoopsSound
    <3> QED
      BY <3>1, <3>2, SoundNext
  <2> QED
    BY <2>1 DEF LoopsSound
<1>4. CallsCounted'
  <2> SUFFICES ASSUME NEW x \in Entries
               PROVE  \/ sends[x] <= journal[x].tries + faults'
                      \/ /\ sends[x] <= journal[x].tries + faults' + 1
                         /\ \E s \in Replicas : x \in loop[s].sent
    BY DEF CallsCounted
  <2>1. sends[x] \in Nat /\ journal[x].tries \in Nat /\ faults \in Nat /\ faults' \in Nat
    BY RowFacts, ConstantsAreNumbers DEF TypeOK
  <2> QED
    BY <2>1 DEF CallsCounted
<1> QED
  BY <1>1, <1>2, <1>3, <1>4, JournalKept

LEMMA DeployKeeps ==
    ASSUME TriggersInv, NEW r \in Replicas, Deploy(r)
    PROVE  TriggersInv'
<1>1. metadata' \in [Replicas -> {Old, New}]
  BY DEF Deploy, TriggersInv, TypeOK
<1>2. clock' \in 0..MaxTime /\ faults' \in 0..MaxFaults /\ faults <= faults' /\ rows' \subseteq rows
  BY ConstantsAreNumbers DEF Deploy, TriggersInv, TypeOK
<1> QED
  BY <1>1, <1>2, SurroundingsKeep DEF Deploy

LEMMA DeleteKeeps ==
    ASSUME TriggersInv, NEW k \in Rows, Delete(k)
    PROVE  TriggersInv'
<1>1. rows' \subseteq rows /\ metadata' \in [Replicas -> {Old, New}] /\ clock' \in 0..MaxTime
  BY DEF Delete, TriggersInv, TypeOK
<1>2. faults' \in 0..MaxFaults /\ faults <= faults'
  BY ConstantsAreNumbers DEF Delete, TriggersInv, TypeOK
<1> QED
  BY <1>1, <1>2, SurroundingsKeep DEF Delete

LEMMA TickKeeps ==
    ASSUME TriggersInv, Tick
    PROVE  TriggersInv'
<1>1. rows' \subseteq rows /\ metadata' \in [Replicas -> {Old, New}]
  BY DEF Tick, TriggersInv, TypeOK
<1>2. clock' \in 0..MaxTime /\ faults' \in 0..MaxFaults /\ faults <= faults'
  BY ConstantsAreNumbers DEF Tick, TriggersInv, TypeOK
<1> QED
  BY <1>1, <1>2, SurroundingsKeep DEF Tick

-----------------------------------------------------------------------------
(* Events come: absent ones are scheduled *)

\* Scheduling an absent event disturbs no loop and nothing that was said.
LEMMA EnqueuedKeeps ==
    ASSUME TriggersInv, NEW S, S \subseteq Events,
           \A x \in S : journal[x] = Absent,
           NEW at, \A x \in S : at[x] \in 0..MaxTime,
           journal' = [x \in Entries |-> IF x \in S THEN Scheduled(at[x]) ELSE journal[x]],
           NEW lp \in [Replicas -> Loop], loop' = lp,
           \A s \in Replicas : /\ LoopSound(lp[s])
                               /\ lp[s].held = loop[s].held
                               /\ lp[s].sent = loop[s].sent,
           UNCHANGED <<kind, metadata, rows, clock, faults, sends, done>>
    PROVE  TriggersInv'
<1> USE DEF TriggersInv
<1>1. \A x \in Entries : x \notin S => journal'[x] = journal[x]
  OBVIOUS
<1>2. \A x \in S : /\ x \in Entries /\ x \in Events /\ x \notin Items
                   /\ journal'[x] = Scheduled(at[x])
  BY EventFacts
<1>3. \A x \in S : /\ journal'[x] \in Row /\ journal'[x].status = "scheduled"
                   /\ journal'[x].tries = 0 /\ journal[x].tries = 0
                   /\ journal[x].status = "absent"
  BY <1>2, AbsentFacts
<1>4. LoopsShaped'
  BY DEF LoopsShaped
<1>5. TypeOK'
  <2>1. journal' \in [Entries -> Row]
    BY <1>1, <1>3 DEF TypeOK
  <2> QED
    BY <1>4, <2>1, LoopsTypedNext DEF TypeOK
<1>6. JournalSound'
  <2> SUFFICES ASSUME NEW x \in Entries
               PROVE  /\ journal'[x].status = "absent" => journal'[x] = Absent
                      /\ journal'[x].status = "scheduled" => journal'[x].tries <= NumRetries
                      /\ x \in Items /\ journal'[x].status # "absent" =>
                            x[1] \in Invoke /\ journal'[EventOf(x)].status = "delivered"
    BY DEF JournalSound
  <2>1. CASE x \in S
    BY <1>2, <1>3, <2>1, ConstantsAreNumbers
  <2>2. CASE x \notin S
    <3>1. ASSUME x \in Items, journal'[x].status # "absent"
          PROVE  x[1] \in Invoke /\ journal'[EventOf(x)].status = "delivered"
      <4>1. x[1] \in Invoke /\ journal[EventOf(x)].status = "delivered"
        BY <1>1, <2>2, <3>1 DEF JournalSound
      <4>2. EventOf(x) \in Entries
        BY <3>1, ItemFacts, EventFacts
      <4>3. EventOf(x) \notin S
        BY <1>3, <4>1
      <4> QED
        BY <1>1, <4>1, <4>2, <4>3
    <3> QED
      BY <1>1, <2>2, <3>1 DEF JournalSound
  <2> QED
    BY <2>1, <2>2
<1>7. ASSUME NEW l \in Loop, LoopSound(l)
      PROVE  LoopSound(l)'
  <2>1. l.held \subseteq Entries /\ DOMAIN l.writes \subseteq Entries
    BY DEF Loop
  <2>2. \A x \in l.held : x \notin S /\ journal'[x] = journal[x]
    BY <1>1, <1>3, <1>7, <2>1 DEF LoopSound
  <2>3. \A x, w : EndIsTrue(x, w) => EndIsTrue(x, w)'
    BY EndStaysTrue
  <2>4. \A x : ItemsOf(x)' = ItemsOf(x)
    BY DEF ItemsOf, KeysOf
  <2>5. \A x \in l.held : HeldWrite(l, x) => HeldWrite(l, x)'
    BY <2>2, <2>3, <2>4 DEF HeldWrite
  <2>6. \A x \in DOMAIN l.writes : NewItem(l, x) => NewItem(l, x)'
    <3> SUFFICES ASSUME NEW x \in DOMAIN l.writes, NewItem(l, x)
                 PROVE  NewItem(l, x)'
      OBVIOUS
    <3>1. x \in Entries /\ x \notin S
      BY <1>2, <2>1 DEF NewItem
    <3> QED
      BY <1>1, <3>1 DEF NewItem
  <2>7. \A x \in l.held : journal'[x].status = "scheduled"
    BY <1>7, <2>2 DEF LoopSound
  <2> QED
    BY <1>7, <2>5, <2>6, <2>7 DEF LoopSound
<1>8. LoopsSound'
  <2>1. ASSUME NEW s \in Replicas
        PROVE  LoopSound(loop[s])'
    <3>1. PICK m : m = lp[s]
      OBVIOUS
    <3>2. LoopSound(m)'
      BY <1>7, <2>1, <3>1
    <3> QED
      BY <3>1, <3>2, SoundNext
  <2>2. \A s \in Replicas : loop'[s].held = loop[s].held
    OBVIOUS
  <2> QED
    BY <2>1, <2>2 DEF LoopsSound
<1>9. CallsCounted'
  <2>1. \A x \in Entries : journal'[x].tries = journal[x].tries
    BY <1>1, <1>3
  <2>2. \A s \in Replicas : loop'[s].sent = loop[s].sent
    OBVIOUS
  <2> QED
    BY <2>1, <2>2 DEF CallsCounted
<1>10. JournalIsTrue'
  <2>1. \A x \in Entries : journal[x] # Absent => journal'[x] # Absent
    BY <1>1
  <2>2. \A x \in Entries : journal'[x].status \in Final => journal'[x] = journal[x]
    BY <1>1, <1>3 DEF Final
  <2>3. DeliveredIsDone'
    <3>1. \A x \in Entries : journal'[x].status = "delivered" =>
              x \in done \/ x \in Invoke \X Instants
      BY <2>2 DEF JournalIsTrue, DeliveredIsDone, Final
    <3>2. ASSUME NEW e \in Invoke \X Instants \cap Events,
                 journal'[e].status = "delivered", NEW i \in ItemsOf(e)
          PROVE  journal'[i] # Absent
      <4>1. e \in Entries /\ journal[e].status = "delivered"
        BY <2>2, <3>2, EventFacts DEF Final
      <4>2. i \in Entries
        BY <3>2 DEF ItemsOf, KeysOf, TypeOK, Entries, Items, Events
      <4> QED
        BY <2>1, <3>2, <4>1, <4>2 DEF JournalIsTrue, DeliveredIsDone
    <3>3. \A x : ItemsOf(x)' = ItemsOf(x)
      BY DEF ItemsOf, KeysOf
    <3> QED
      BY <3>1, <3>2, <3>3 DEF DeliveredIsDone
  <2>4. NotDroppedMidRetry'
    <3>1. \A x : RowGone(x)' = RowGone(x)
      BY DEF RowGone
    <3> QED
      BY <2>2, <3>1 DEF JournalIsTrue, NotDroppedMidRetry, Final
  <2> QED
    BY <2>3, <2>4 DEF JournalIsTrue
<1> QED
  BY <1>4, <1>5, <1>6, <1>8, <1>9, <1>10

LEMMA MaterializeKeeps ==
    ASSUME TriggersInv, NEW r \in Replicas, Materialize(r)
    PROVE  TriggersInv'
<1>1. PICK S : S = {x \in Entries : x \in Materialized(r) /\ journal[x] = Absent}
  OBVIOUS
<1>2. S \subseteq Events
  BY <1>1 DEF Materialized, Entries, Items
<1>3. \A x \in S : journal[x] = Absent
  BY <1>1
<1>4. PICK at : at = [x \in Entries |-> At(x)]
  OBVIOUS
<1>5. \A x \in S : at[x] \in 0..MaxTime
  BY <1>1, <1>4, AtIsATime
<1>6. journal' = [x \in Entries |-> IF x \in S THEN Scheduled(at[x]) ELSE journal[x]]
  BY <1>1, <1>4 DEF Materialize
<1>7. PICK lp : lp = [loop EXCEPT ![r].pc = "claim"]
  OBVIOUS
<1>8. /\ lp \in [Replicas -> Loop]
      /\ \A s \in Replicas : s # r => lp[s] = loop[s]
      /\ lp[r].pc = "claim" /\ lp[r].held = loop[r].held /\ lp[r].sent = loop[r].sent
      /\ lp[r].writes = loop[r].writes
  <2> DEFINE All == UNION {[T -> Row] : T \in SUBSET Entries}
  <2>1. Loop = [pc : {"idle", "claim", "deliver", "items", "run", "ran"},
                held : SUBSET Entries, writes : All, sent : SUBSET Entries,
                left : 0..ExpandLimit]
    BY DEF Loop
  <2> HIDE DEF All
  <2> QED
    BY <1>7, <2>1 DEF TriggersInv, LoopsShaped
<1>9. ASSUME NEW s \in Replicas
      PROVE  LoopSound(lp[s]) /\ lp[s].held = loop[s].held /\ lp[s].sent = loop[s].sent
  <2>1. LoopSound(loop[s])
    BY DEF TriggersInv, LoopsSound
  <2>2. CASE s # r
    BY <1>8, <2>1, <2>2
  <2>3. CASE s = r
    <3>1. loop[r].held = {} /\ DOMAIN loop[r].writes = {} /\ loop[r].sent = {}
      BY <2>1, <2>3 DEF LoopSound, Materialize
    <3> QED
      BY <1>8, <2>3, <3>1 DEF LoopSound
  <2> QED
    BY <2>2, <2>3
<1>10. loop' = lp
  BY <1>7 DEF Materialize
<1>11. UNCHANGED <<kind, metadata, rows, clock, faults, sends, done>>
  BY DEF Materialize
<1> QED
  BY <1>2, <1>3, <1>5, <1>6, <1>8, <1>9, <1>10, <1>11, EnqueuedKeeps

LEMMA CaptureKeeps ==
    ASSUME TriggersInv, NEW t \in Triggers, Capture(t)
    PROVE  TriggersInv'
<1>1. PICK e : e = <<t, clock>>
  OBVIOUS
<1>2. e \in Events /\ e \in Entries
  BY <1>1 DEF Capture, Events, Entries
<1>3. PICK at : at = [x \in Entries |-> clock]
  OBVIOUS
<1>4. journal' = [x \in Entries |-> IF x \in {e} THEN Scheduled(at[x]) ELSE journal[x]]
  BY <1>1, <1>2, <1>3 DEF Capture, TriggersInv, TypeOK
<1>5. \A x \in {e} : at[x] \in 0..MaxTime /\ journal[x] = Absent
  BY <1>1, <1>2, <1>3 DEF Capture, TriggersInv, TypeOK
<1>6. PICK lp : lp = loop
  OBVIOUS
<1>7. /\ lp \in [Replicas -> Loop] /\ loop' = lp
      /\ \A s \in Replicas : /\ LoopSound(lp[s])
                             /\ lp[s].held = loop[s].held
                             /\ lp[s].sent = loop[s].sent
  BY <1>6 DEF Capture, TriggersInv, LoopsShaped, LoopsSound
<1>8. UNCHANGED <<kind, metadata, rows, clock, faults, sends, done>>
  BY DEF Capture
<1>9. {e} \subseteq Events
  BY <1>2
<1> QED
  BY <1>4, <1>5, <1>7, <1>8, <1>9, EnqueuedKeeps

-----------------------------------------------------------------------------
(* An event of an invoke trigger becomes work items *)

LEMMA ItemsOfFacts ==
    ASSUME TypeOK, NEW e \in Events, NEW i \in ItemsOf(e)
    PROVE  i \in Items /\ i \in Entries /\ EventOf(i) = e /\ i[1] = e[1]
<1>1. PICK k \in KeysOf : i = <<e[1], e[2], k>>
  BY DEF ItemsOf
<1>2. k \in Rows \cup {TheRow}
  BY DEF KeysOf, TypeOK
<1>3. e = <<e[1], e[2]>> /\ e[1] \in Triggers /\ e[2] \in Instants
  BY EventFacts
<1>4. i \in Items
  BY <1>1, <1>2, <1>3 DEF Items
<1> QED
  BY <1>1, <1>3, <1>4 DEF Entries, EventOf

\* A scheduled event has no work items yet: they come with its end.
LEMMA NoItemsYet ==
    ASSUME TriggersInv, NEW e \in Events, journal[e].status = "scheduled",
           NEW i \in ItemsOf(e)
    PROVE  journal[i].status = "absent" /\ journal[i] = Absent
<1>1. i \in Items /\ i \in Entries /\ EventOf(i) = e
  BY ItemsOfFacts DEF TriggersInv
<1> QED
  BY <1>1 DEF TriggersInv, JournalSound

LEMMA ExpandKeeps ==
    ASSUME TriggersInv, NEW r \in Replicas, NEW e \in loop[r].held, Expand(r, e)
    PROVE  TriggersInv'
<1>1. /\ e \in Entries /\ e \in Events /\ journal[e].status = "scheduled"
      /\ journal[e].tries \in Nat /\ journal[e].tries <= NumRetries
      /\ e \notin DOMAIN loop[r].writes /\ loop[r].pc = "deliver"
  BY HeldFacts DEF Expand, Live, NextOf
<1>2. PICK m : m = loop[r]
  OBVIOUS
<1>3. m \in Loop /\ LoopSound(m)
  BY <1>2, LoopFacts DEF TriggersInv, LoopsSound
<1>4. PICK w : w = Succeeded(e)
  OBVIOUS
<1>5. w \in Row /\ w.status = "delivered" /\ w.tries = journal[e].tries + 1
  BY <1>1, <1>4, SucceededFacts DEF TriggersInv, Succeeded, Final
<1>6. PICK g : g = [i \in ItemsOf(e) |-> IF journal[i] = Absent THEN Scheduled(clock)
                                         ELSE journal[i]]
  OBVIOUS
<1>7. /\ DOMAIN g = ItemsOf(e)
      /\ \A i \in ItemsOf(e) : /\ g[i] \in Row /\ g[i].status = "scheduled"
                               /\ g[i].tries = 0
  <2>1. ASSUME NEW i \in ItemsOf(e)
        PROVE  g[i] \in Row /\ g[i].status = "scheduled" /\ g[i].tries = 0
    <3>1. g[i] = Scheduled(clock)
      BY <1>1, <1>6, NoItemsYet
    <3> QED
      BY <3>1, AbsentFacts DEF TriggersInv, TypeOK
  <2> QED
    BY <1>6, <2>1
<1>8. PICK o : o = Only(e, w)
  OBVIOUS
<1>9. DOMAIN o = {e} /\ o[e] = w
  BY <1>8, OnlyFacts
<1>10. \A i \in ItemsOf(e) : i # e /\ i \in Items /\ i \in Entries /\ EventOf(i) = e /\ i[1] = e[1]
  BY <1>1, ItemsOfFacts, EventFacts DEF TriggersInv
<1>11. PICK h : h = Over(o, g)
  OBVIOUS
<1>12. /\ DOMAIN h = {e} \cup ItemsOf(e)
       /\ h[e] = w
       /\ \A i \in ItemsOf(e) : h[i] = g[i]
  <2>1. /\ DOMAIN Over(o, g) = DOMAIN o \cup DOMAIN g
        /\ \A y \in DOMAIN o : Over(o, g)[y] = o[y]
        /\ \A y \in DOMAIN g : y \notin DOMAIN o => Over(o, g)[y] = g[y]
    BY OverFacts
  <2> QED
    BY <1>7, <1>9, <1>10, <1>11, <2>1
<1>13. PICK v : v = m.writes
  OBVIOUS
<1>14. PICK f : f = Over(h, v)
  OBVIOUS
<1>15. /\ DOMAIN f = {e} \cup ItemsOf(e) \cup DOMAIN v
       /\ f[e] = w
       /\ \A i \in ItemsOf(e) : f[i] = g[i]
       /\ \A y \in DOMAIN v : y # e /\ y \notin ItemsOf(e) => f[y] = v[y]
  <2>1. /\ DOMAIN Over(h, v) = DOMAIN h \cup DOMAIN v
        /\ \A y \in DOMAIN h : Over(h, v)[y] = h[y]
        /\ \A y \in DOMAIN v : y \notin DOMAIN h => Over(h, v)[y] = v[y]
    BY OverFacts
  <2> QED
    BY <1>12, <1>14, <2>1
<1>16. f = [y \in DOMAIN f |-> f[y]]
  BY <1>14 DEF Over
<1>17. f \in UNION {[S -> Row] : S \in SUBSET Entries}
  <2>1. DOMAIN v \subseteq Entries /\ \A y \in DOMAIN v : v[y] \in Row
    BY <1>2, <1>13, LoopFacts DEF TriggersInv
  <2>2. DOMAIN f \subseteq Entries
    BY <1>1, <1>10, <1>15, <2>1
  <2>3. ASSUME NEW y \in DOMAIN f
        PROVE  f[y] \in Row
    BY <1>5, <1>7, <1>15, <2>1
  <2> QED
    BY <1>16, <2>2, <2>3, WritesType
<1>18. PICK l : l = [m EXCEPT !.pc = "deliver", !.writes = f]
  OBVIOUS
<1> DEFINE All == UNION {[T -> Row] : T \in SUBSET Entries}
<1>19. Loop = [pc : {"idle", "claim", "deliver", "items", "run", "ran"},
              held : SUBSET Entries, writes : All, sent : SUBSET Entries,
              left : 0..ExpandLimit]
  BY DEF Loop
<1>20. f \in All
  BY <1>17
<1> HIDE DEF All
<1>21. /\ l \in Loop /\ l.pc = "deliver" /\ l.held = m.held
       /\ l.writes = f /\ l.sent = m.sent
  BY <1>3, <1>18, <1>19, <1>20
<1>22. loop' = [loop EXCEPT ![r] = l]
  <2>1. Write(r, "deliver", h)
    BY <1>4, <1>6, <1>8, <1>11 DEF Expand
  <2> QED
    BY <1>2, <1>3, <1>13, <1>14, <1>18, <1>19, <2>1 DEF Write, TriggersInv, LoopsShaped
<1>23. m.pc = "deliver" /\ m.held \subseteq Events /\ e \in m.held
  BY <1>1, <1>2, <1>3 DEF LoopSound
<1>24. LoopSound(l)
  <2>1. ASSUME NEW y \in DOMAIN l.writes
        PROVE  IF y \in l.held THEN HeldWrite(l, y) ELSE NewItem(l, y)
    <3>1. CASE y = e
      <4>1. e \notin l.sent
        BY <1>1, <1>2, <1>3, <1>21 DEF LoopSound
      <4>2. e \in Invoke \X Instants
        BY <1>1, EventFacts DEF Expand
      <4>3. EndIsTrue(e, w)
        BY <1>5, <4>2 DEF EndIsTrue
      <4>4. w.tries >= journal[e].tries
        BY <1>1, <1>5
      <4> QED
        BY <1>5, <1>15, <1>21, <1>23, <3>1, <4>1, <4>3, <4>4 DEF HeldWrite
    <3>2. CASE y \in ItemsOf(e)
      <4>1. y \notin l.held
        BY <1>10, <1>21, <1>23, <3>2, EventFacts
      <4>2. journal[y].status = "absent"
        BY <1>1, <3>2, NoItemsYet
      <4>3. y[1] \in Invoke
        BY <1>10, <3>2 DEF Expand
      <4> QED
        BY <1>5, <1>7, <1>10, <1>15, <1>21, <1>23, <3>2, <4>1, <4>2, <4>3 DEF NewItem
    <3>3. CASE y # e /\ y \notin ItemsOf(e)
      <4>1. y \in DOMAIN m.writes /\ l.writes[y] = m.writes[y]
        BY <1>13, <1>15, <1>21, <2>1, <3>3
      <4>2. CASE y \in l.held
        <5>1. HeldWrite(m, y)
          BY <1>3, <1>21, <4>1, <4>2 DEF LoopSound
        <5> QED
          BY <1>13, <1>15, <1>21, <4>1, <4>2, <5>1 DEF HeldWrite
      <4>3. CASE y \notin l.held
        <5>1. NewItem(m, y)
          BY <1>3, <1>21, <4>1, <4>3 DEF LoopSound
        <5>2. EventOf(y) \in DOMAIN m.writes /\ EventOf(y) \in Events
          BY <5>1, ItemFacts DEF NewItem
        <5>3. EventOf(y) # e
          BY <1>1, <1>2, <5>2
        <5>4. EventOf(y) \notin ItemsOf(e)
          BY <1>10, <5>2, EventFacts
        <5>5. l.writes[EventOf(y)] = m.writes[EventOf(y)] /\ EventOf(y) \in DOMAIN l.writes
          BY <1>13, <1>15, <1>21, <5>2, <5>3, <5>4
        <5> QED
          BY <1>21, <4>1, <4>3, <5>1, <5>5 DEF NewItem
      <4> QED
        BY <4>2, <4>3
    <3> QED
      BY <3>1, <3>2, <3>3
  <2>2. l.sent \subseteq l.held \cap DOMAIN l.writes
    BY <1>3, <1>13, <1>15, <1>21 DEF LoopSound
  <2>3. \A y \in l.held : journal[y].status = "scheduled"
    BY <1>3, <1>21 DEF LoopSound
  <2> QED
    BY <1>21, <1>23, <2>1, <2>2, <2>3 DEF LoopSound
<1>25. \A s \in Replicas : s # r => l.held \cap loop[s].held = {}
  BY <1>2, <1>21 DEF TriggersInv, LoopsSound
<1>26. UNCHANGED <<kind, journal, metadata, rows, clock, sends, done>>
  BY DEF Expand
<1>27. faults' \in {faults, faults + 1} /\ faults' <= MaxFaults
  BY DEF Expand, TriggersInv, TypeOK
<1>28. loop[r].sent \subseteq l.sent
  BY <1>2, <1>21
<1> QED
  BY <1>21, <1>22, <1>24, <1>25, <1>26, <1>27, <1>28, LoopMoves

-----------------------------------------------------------------------------
(* Commits *)

\* The batch of a loop is visible at once, and other loops' rows are untouched.
LEMMA CommitKeeps ==
    ASSUME TriggersInv, NEW r \in Replicas, NEW m, m = loop[r],
           journal' = Over(m.writes, journal),
           NEW n \in 0..ExpandLimit,
           loop' = [loop EXCEPT ![r] = [Resting EXCEPT !.pc = "items", !.left = n]],
           UNCHANGED <<kind, metadata, rows, clock, faults, sends, done>>
    PROVE  TriggersInv'
<1> USE DEF TriggersInv
<1>1. m \in Loop /\ LoopSound(m)
  BY LoopFacts DEF LoopsSound
<1>2. /\ DOMAIN m.writes \subseteq Entries
      /\ \A y \in DOMAIN m.writes : m.writes[y] \in Row
  BY LoopFacts
<1>3. /\ DOMAIN journal' = Entries
      /\ \A x \in DOMAIN m.writes : journal'[x] = m.writes[x]
      /\ \A x \in Entries : x \notin DOMAIN m.writes => journal'[x] = journal[x]
  <2>1. DOMAIN journal = Entries
    BY DEF TypeOK
  <2>2. PICK v : v = m.writes
    OBVIOUS
  <2>3. PICK j : j = journal
    OBVIOUS
  <2>4. /\ DOMAIN Over(v, j) = DOMAIN v \cup DOMAIN j
        /\ \A y \in DOMAIN v : Over(v, j)[y] = v[y]
        /\ \A y \in DOMAIN j : y \notin DOMAIN v => Over(v, j)[y] = j[y]
    BY OverFacts
  <2> QED
    BY <1>2, <2>1, <2>2, <2>3, <2>4
<1>4. journal' \in [Entries -> Row]
  <2>1. journal' = [x \in Entries |-> journal'[x]]
    BY <1>3 DEF Over
  <2>2. \A x \in Entries : journal'[x] \in Row
    BY <1>2, <1>3, RowFacts
  <2> QED
    BY <2>1, <2>2
<1>5. PICK l : l = [Resting EXCEPT !.pc = "items", !.left = n]
  OBVIOUS
<1>6. /\ l \in Loop /\ l.pc = "items" /\ l.held = {}
      /\ DOMAIN l.writes = {} /\ l.sent = {}
  <2> DEFINE All == UNION {[S -> Row] : S \in SUBSET Entries}
  <2>1. Loop = [pc : {"idle", "claim", "deliver", "items", "run", "ran"},
                held : SUBSET Entries, writes : All, sent : SUBSET Entries,
                left : 0..ExpandLimit]
    BY DEF Loop
  <2> HIDE DEF All
  <2> QED
    BY <1>5, <2>1, Restful
<1>7. /\ loop'[r] = l
      /\ \A s \in Replicas : s # r => loop'[s] = loop[s]
      /\ loop' \in [Replicas -> Loop]
  BY <1>5, <1>6 DEF LoopsShaped
<1>8. LoopsShaped'
  BY <1>7 DEF LoopsShaped
<1>9. TypeOK'
  BY <1>4, <1>8, LoopsTypedNext DEF TypeOK
\* What is written was scheduled and held, or absent.
<1>10. ASSUME NEW x \in DOMAIN m.writes
       PROVE  \/ x \in m.held /\ HeldWrite(m, x) /\ journal[x].status = "scheduled"
              \/ x \notin m.held /\ NewItem(m, x) /\ journal[x].status = "absent"
  BY <1>1, <1>10 DEF LoopSound, NewItem
<1>11. \A x \in DOMAIN m.writes : m.writes[x].status # "absent"
  BY <1>10 DEF HeldWrite, NewItem, EndIsTrue
<1>12. \A x \in Entries : journal[x].status = "delivered" => x \notin DOMAIN m.writes
  BY <1>10
<1>13. JournalSound'
  <2> SUFFICES ASSUME NEW x \in Entries
               PROVE  /\ journal'[x].status = "absent" => journal'[x] = Absent
                      /\ journal'[x].status = "scheduled" => journal'[x].tries <= NumRetries
                      /\ x \in Items /\ journal'[x].status # "absent" =>
                            x[1] \in Invoke /\ journal'[EventOf(x)].status = "delivered"
    BY DEF JournalSound
  <2>1. ASSUME x \in Items, journal[EventOf(x)].status = "delivered"
        PROVE  journal'[EventOf(x)].status = "delivered"
    <3>1. EventOf(x) \in Entries
      BY <2>1, ItemFacts, EventFacts
    <3> QED
      BY <1>3, <1>12, <2>1, <3>1
  <2>2. CASE x \notin DOMAIN m.writes
    BY <1>3, <2>1, <2>2 DEF JournalSound
  <2>3. CASE x \in DOMAIN m.writes /\ x \in m.held
    <3>1. HeldWrite(m, x) /\ journal[x].status = "scheduled" /\ journal'[x] = m.writes[x]
      BY <1>3, <1>10, <2>3
    <3> QED
      BY <2>1, <3>1 DEF JournalSound, HeldWrite, EndIsTrue
  <2>4. CASE x \in DOMAIN m.writes /\ x \notin m.held
    <3>1. NewItem(m, x) /\ journal'[x] = m.writes[x]
      BY <1>3, <1>10, <2>4
    <3>2. journal'[EventOf(x)] = m.writes[EventOf(x)]
      BY <1>3, <3>1 DEF NewItem
    <3> QED
      BY <3>1, <3>2, ConstantsAreNumbers DEF NewItem
  <2> QED
    BY <2>2, <2>3, <2>4
<1>14. ASSUME NEW s \in Replicas, s # r, NEW k, k = loop[s]
       PROVE  LoopSound(k)'
  <2>1. k \in Loop /\ LoopSound(k) /\ k.held \cap m.held = {}
    BY <1>14, LoopFacts DEF LoopsSound
  <2>2. k.held \subseteq Entries /\ DOMAIN k.writes \subseteq Entries
    BY <1>14, LoopFacts
  <2>3. \A x \in k.held : journal'[x] = journal[x]
    <3>1. \A x \in k.held : journal[x].status = "scheduled"
      BY <2>1 DEF LoopSound
    <3>2. \A x \in k.held : x \notin DOMAIN m.writes
      BY <1>10, <2>1, <3>1
    <3> QED
      BY <1>3, <2>2, <3>2
  <2>4. ASSUME NEW x \in DOMAIN k.writes, NewItem(k, x)
        PROVE  journal'[x] = journal[x]
    <3>1. x \in DOMAIN m.writes => x \notin m.held /\ NewItem(m, x)
      BY <1>10, <2>4 DEF NewItem
    <3>2. x \notin DOMAIN m.writes
      BY <2>1, <2>4, <3>1 DEF NewItem
    <3> QED
      BY <1>3, <2>2, <3>2
  <2>5. \A x, w : EndIsTrue(x, w) => EndIsTrue(x, w)'
    BY EndStaysTrue
  <2>6. \A x : ItemsOf(x)' = ItemsOf(x)
    BY DEF ItemsOf, KeysOf
  <2>7. \A x \in k.held : HeldWrite(k, x) => HeldWrite(k, x)'
    BY <2>3, <2>5, <2>6 DEF HeldWrite
  <2>8. \A x \in DOMAIN k.writes : NewItem(k, x) => NewItem(k, x)'
    BY <2>4 DEF NewItem
  <2>9. \A x \in k.held : journal'[x].status = "scheduled"
    BY <2>1, <2>3 DEF LoopSound
  <2> QED
    BY <2>1, <2>7, <2>8, <2>9 DEF LoopSound
<1>15. LoopsSound'
  <2>1. LoopSound(l)'
    BY <1>6 DEF LoopSound
  <2>2. ASSUME NEW s \in Replicas
        PROVE  LoopSound(loop[s])'
    <3>1. CASE s = r
      <4>1. loop'[s] = l
        BY <1>7, <3>1
      <4> QED
        BY <2>1, <4>1, SoundNext
    <3>2. CASE s # r
      <4>1. PICK k : k = loop[s]
        OBVIOUS
      <4>2. LoopSound(k)'
        BY <1>14, <3>2, <4>1
      <4> QED
        BY <1>7, <3>2, <4>1, <4>2, SoundNext
    <3> QED
      BY <3>1, <3>2
  <2> QED
    BY <1>6, <1>7, <2>2 DEF LoopsSound
<1>16. CallsCounted'
  <2> SUFFICES ASSUME NEW x \in Entries
               PROVE  \/ sends[x] <= journal'[x].tries + faults
                      \/ /\ sends[x] <= journal'[x].tries + faults + 1
                         /\ \E s \in Replicas : x \in loop'[s].sent
    BY DEF CallsCounted
  <2>1. /\ sends[x] \in Nat /\ journal[x].tries \in Nat /\ journal'[x].tries \in Nat
        /\ faults \in Nat
    BY <1>4, RowFacts, ConstantsAreNumbers DEF TypeOK, Row
  <2>2. \A s \in Replicas : loop[s].sent \subseteq loop[s].held
    BY DEF LoopsSound, LoopSound
  <2>3. m.sent \subseteq DOMAIN m.writes
    BY <1>1 DEF LoopSound
  <2>4. CASE x \notin DOMAIN m.writes
    <3>1. journal'[x] = journal[x]
      BY <1>3, <2>4
    <3>2. \A s \in Replicas : x \in loop[s].sent => x \in loop'[s].sent
      BY <1>7, <2>3, <2>4
    <3>3. (\E s \in Replicas : x \in loop[s].sent) => \E s \in Replicas : x \in loop'[s].sent
      BY <3>2
    <3> QED
      BY <3>1, <3>3 DEF CallsCounted
  <2>5. CASE x \in DOMAIN m.writes /\ x \in m.held
    <3>1. HeldWrite(m, x) /\ journal'[x] = m.writes[x]
      BY <1>3, <1>10, <2>5
    <3>2. CASE x \in m.sent
      <4>1. journal'[x].tries = journal[x].tries + 1
        BY <3>1, <3>2 DEF HeldWrite
      <4>2. sends[x] <= journal[x].tries + faults + 1
        BY <2>1 DEF CallsCounted
      <4> QED
        BY <2>1, <4>1, <4>2
    <3>3. CASE x \notin m.sent
      <4>1. \A s \in Replicas : x \notin loop[s].sent
        BY <2>2, <2>5, <3>3 DEF LoopsSound
      <4>2. sends[x] <= journal[x].tries + faults
        BY <4>1 DEF CallsCounted
      <4>3. journal'[x].tries >= journal[x].tries
        BY <3>1 DEF HeldWrite
      <4> QED
        BY <2>1, <4>2, <4>3
    <3> QED
      BY <3>2, <3>3
  <2>6. CASE x \in DOMAIN m.writes /\ x \notin m.held
    <3>1. NewItem(m, x) /\ journal[x].status = "absent"
      BY <1>10, <2>6
    <3>2. \A s \in Replicas : x \notin loop[s].sent
      BY <2>2, <3>1 DEF LoopsSound, LoopSound
    <3>3. sends[x] <= journal[x].tries + faults
      BY <3>2 DEF CallsCounted
    <3>4. journal[x].tries = 0
      BY <3>1, AbsentFacts DEF JournalSound
    <3> QED
      BY <2>1, <3>3, <3>4
  <2> QED
    BY <2>4, <2>5, <2>6
<1>17. JournalIsTrue'
  <2>1. \A x \in Entries : journal[x] # Absent => journal'[x] # Absent
    BY <1>3, <1>11, AbsentFacts
  <2>2. DeliveredIsDone'
    <3>1. ASSUME NEW x \in Entries, journal'[x].status = "delivered"
          PROVE  x \in done \/ x \in Invoke \X Instants
      <4>1. CASE x \notin DOMAIN m.writes
        BY <1>3, <3>1, <4>1 DEF JournalIsTrue, DeliveredIsDone
      <4>2. CASE x \in DOMAIN m.writes
        <5>1. HeldWrite(m, x) /\ journal'[x] = m.writes[x]
          BY <1>3, <1>10, <3>1, <4>2 DEF NewItem
        <5> QED
          BY <3>1, <5>1 DEF HeldWrite, EndIsTrue
      <4> QED
        BY <4>1, <4>2
    <3>2. ASSUME NEW e \in Invoke \X Instants \cap Events,
                 journal'[e].status = "delivered", NEW i \in ItemsOf(e)
          PROVE  journal'[i] # Absent
      <4>1. e \in Entries /\ e \in Events
        BY EventFacts
      <4>2. i \in Entries
        BY <4>1, ItemsOfFacts
      <4>3. CASE e \notin DOMAIN m.writes
        BY <1>3, <2>1, <3>2, <4>1, <4>2, <4>3 DEF JournalIsTrue, DeliveredIsDone
      <4>4. CASE e \in DOMAIN m.writes
        <5>1. HeldWrite(m, e) /\ journal'[e] = m.writes[e]
          BY <1>3, <1>10, <3>2, <4>4 DEF NewItem
        <5>2. i \in DOMAIN m.writes
          BY <3>2, <5>1 DEF HeldWrite
        <5> QED
          BY <1>3, <1>11, <5>2, AbsentFacts
      <4> QED
        BY <4>3, <4>4
    <3>3. \A x : ItemsOf(x)' = ItemsOf(x)
      BY DEF ItemsOf, KeysOf
    <3> QED
      BY <3>1, <3>2, <3>3 DEF DeliveredIsDone
  <2>3. NotDroppedMidRetry'
    <3>1. \A x : RowGone(x)' = RowGone(x)
      BY DEF RowGone
    <3>2. ASSUME NEW x \in Entries, kind = "cron", journal'[x].status = "dead",
                 journal'[x].tries > 0
          PROVE  x[1] \notin Old \cap New \/ (x \in Items /\ RowGone(x))
      <4>1. CASE x \notin DOMAIN m.writes
        BY <1>3, <3>2, <4>1 DEF JournalIsTrue, NotDroppedMidRetry
      <4>2. CASE x \in DOMAIN m.writes
        <5>1. HeldWrite(m, x) /\ journal'[x] = m.writes[x]
          BY <1>3, <1>10, <3>2, <4>2 DEF NewItem
        <5> QED
          BY <3>2, <5>1 DEF HeldWrite, EndIsTrue
      <4> QED
        BY <4>1, <4>2
    <3> QED
      BY <3>1, <3>2 DEF NotDroppedMidRetry
  <2> QED
    BY <2>2, <2>3 DEF JournalIsTrue
<1> QED
  BY <1>8, <1>9, <1>13, <1>15, <1>16, <1>17

-----------------------------------------------------------------------------
LEMMA StepKeeps ==
    ASSUME TriggersInv, NEW r \in Replicas, Step(r)
    PROVE  TriggersInv'
<1>1. CASE Materialize(r)
  BY <1>1, MaterializeKeeps
<1>2. CASE Claim(r)
  BY <1>2, ClaimKeeps
<1>3. CASE DeliverEvent(r)
  <2>1. PICK e \in loop[r].held :
            \/ Drop(r, e)
            \/ \E works, heard \in BOOLEAN : Post(r, e, works, heard)
            \/ Expand(r, e)
            \/ ExpandFails(r, e)
    BY <1>3 DEF DeliverEvent
  <2> QED
    BY <2>1, DropKeeps, PostKeeps, ExpandKeeps, ExpandFailsKeeps
<1>4. CASE Commit(r)
  <2>1. PICK m : m = loop[r]
    OBVIOUS
  <2>2. /\ journal' = Over(m.writes, journal)
        /\ loop' = [loop EXCEPT ![r] = [Resting EXCEPT !.pc = "items",
                                                       !.left = ExpandLimit]]
        /\ UNCHANGED <<kind, metadata, rows, clock, faults, sends, done>>
    BY <1>4, <2>1 DEF Commit, Committed
  <2>3. ExpandLimit \in 0..ExpandLimit
    BY ConstantsAreNumbers
  <2> QED
    BY <2>1, <2>2, <2>3, CommitKeeps
<1>5. CASE ClaimItem(r)
  BY <1>5, ClaimItemKeeps
<1>6. CASE EndTick(r)
  BY <1>6, EndTickKeeps
<1>7. CASE DeliverItem(r)
  <2>1. PICK i \in loop[r].held :
            \/ DropItem(r, i)
            \/ \E works, heard, permanent \in BOOLEAN :
                  RunItem(r, i, works, heard, permanent)
    BY <1>7 DEF DeliverItem
  <2> QED
    BY <2>1, DropItemKeeps, RunItemKeeps
<1>8. CASE CommitItem(r)
  <2>1. PICK m : m = loop[r]
    OBVIOUS
  <2>2. m.left \in 0..ExpandLimit
    BY <2>1, LoopsTyped DEF TriggersInv
  <2>3. PICK n \in 0..ExpandLimit : n = m.left
    BY <2>2
  <2>4. /\ journal' = Over(m.writes, journal)
        /\ loop' = [loop EXCEPT ![r] = [Resting EXCEPT !.pc = "items", !.left = n]]
        /\ UNCHANGED <<kind, metadata, rows, clock, faults, sends, done>>
    BY <1>8, <2>1, <2>3 DEF CommitItem, Committed
  <2> QED
    BY <2>1, <2>4, CommitKeeps
<1> QED
  BY <1>1, <1>2, <1>3, <1>4, <1>5, <1>6, <1>7, <1>8 DEF Step

\* No step of the program breaks TriggersInv.
LEMMA TriggersNext == TriggersInv /\ [Next]_vars => TriggersInv'
<1> SUFFICES ASSUME TriggersInv, [Next]_vars PROVE TriggersInv'
  OBVIOUS
<1>1. CASE \E r \in Replicas : Step(r)
  BY <1>1, StepKeeps
<1>2. CASE \E r \in Replicas : Rollback(r)
  BY <1>2, RollbackKeeps
<1>3. CASE \E r \in Replicas : Deploy(r)
  BY <1>3, DeployKeeps
<1>4. CASE \E t \in Triggers : Capture(t)
  BY <1>4, CaptureKeeps
<1>5. CASE \E k \in Rows : Delete(k)
  BY <1>5, DeleteKeeps
<1>6. CASE Tick
  BY <1>6, TickKeeps
<1>7. CASE UNCHANGED vars
  <2>1. UNCHANGED <<kind, journal, loop, sends, done, rows, metadata, clock, faults>>
    BY <1>7 DEF vars
  <2>2. /\ rows' \subseteq rows /\ metadata' \in [Replicas -> {Old, New}]
        /\ clock' \in 0..MaxTime /\ faults' \in 0..MaxFaults /\ faults <= faults'
    BY <2>1, ConstantsAreNumbers DEF TriggersInv, TypeOK
  <2> QED
    BY <2>1, <2>2, SurroundingsKeep
<1> QED
  BY <1>1, <1>2, <1>3, <1>4, <1>5, <1>6, <1>7 DEF Next

\* The calls a receiver gets are bounded by its tries and the rollbacks.
LEMMA CountedIsBounded == TriggersInv => CallsBounded
<1> SUFFICES ASSUME TriggersInv PROVE CallsBounded
  OBVIOUS
<1> USE DEF TriggersInv
<1>1. ASSUME NEW x \in Entries
      PROVE  sends[x] <= NumRetries + 1 + faults
  <2>1. /\ sends[x] \in Nat /\ journal[x].tries \in Nat /\ faults \in Nat
        /\ NumRetries \in Nat /\ journal[x].tries <= NumRetries + 1
    BY RowFacts, ConstantsAreNumbers DEF TypeOK
  <2>2. CASE sends[x] <= journal[x].tries + faults
    BY <2>1, <2>2
  <2>3. CASE /\ sends[x] <= journal[x].tries + faults + 1
             /\ \E r \in Replicas : x \in loop[r].sent
    <3>1. PICK r \in Replicas : x \in loop[r].sent
      BY <2>3
    <3>2. x \in loop[r].held
      BY <3>1 DEF LoopsSound, LoopSound
    <3>3. journal[x].tries <= NumRetries
      BY <3>2, HeldFacts
    <3> QED
      BY <2>1, <2>3, <3>3
  <2> QED
    BY <2>2, <2>3 DEF CallsCounted
<1>2. OneDeliverer
  <2>1. \A r \in Replicas : loop[r].sent \subseteq loop[r].held
    BY DEF LoopsSound, LoopSound
  <2> QED
    BY <2>1 DEF OneDeliverer, LoopsSound
<1> QED
  BY <1>1, <1>2 DEF CallsBounded

-----------------------------------------------------------------------------
LEMMA TriggersInvariant == Spec => []TriggersInv
BY TriggersInit, TriggersNext, PTL DEF Spec

\* However many replicas poll, whatever fails in the middle of a batch and
\* whenever they are redeployed: a receiver or a target is called at most once
\* for each try of retry_conf and once more for each rollback, and two replicas
\* never have calls for one entry under way (tick, deliver_due).
THEOREM CallsAreBounded == Spec => []CallsBounded
BY TriggersInvariant, CountedIsBounded, PTL

\* What the journal says of an end is true: delivered is done, or has work items
\* for all its rows, and dead after a try means that the row, or the trigger in
\* one of the two versions of the metadata, was gone.
THEOREM JournalTellsTheTruth == Spec => []JournalIsTrue
<1>1. TriggersInv => JournalIsTrue
  BY DEF TriggersInv
<1> QED
  BY <1>1, TriggersInvariant, PTL
=============================================================================
