---------------------------- MODULE FanoutProofs ----------------------------
(***************************************************************************)
(* Proofs about a bounded for-each state, for any number of workers, any   *)
(* max_items, max_concurrency and input, and any number of faults.         *)
(***************************************************************************)
EXTENDS Fanout, FiniteSetTheorems, WellFoundedInduction, TLAPS

-----------------------------------------------------------------------------
(* The walk that collects, by induction on the ordinals *)

\* A set of numbers has a smallest one.
LEMMA Smallest ==
    ASSUME NEW T, T \subseteq Nat, T # {}
    PROVE  \E x \in T : \A y \in T : x <= y
<1>1. PICK R : R = OpToRel(<, Nat)
  OBVIOUS
<1>2. IsWellFoundedOn(R, Nat)
  BY <1>1, NatLessThanWellFounded
<1>3. PICK x \in T : \A y \in T : ~(<<y, x>> \in R)
  BY <1>2, WFMin
<1>4. \A y \in T : y < x => <<y, x>> \in R
  BY <1>1 DEF OpToRel
<1>5. \A y \in T : ~(y < x)
  BY <1>3, <1>4
<1>6. \A y \in T : x <= y
  BY <1>5
<1> QED
  BY <1>6

LEMMA LowestFacts ==
    ASSUME NEW T, T \subseteq Nat, T # {}
    PROVE  Lowest(T) \in T /\ \A y \in T : Lowest(T) <= y
<1>1. \E x \in T : \A y \in T : x <= y
  BY Smallest
<1> QED
  BY <1>1 DEF Lowest

LEMMA ConstantsAreNumbers ==
    /\ MaxItems \in Nat /\ MaxItems > 0 /\ MaxLength \in Nat
    /\ MaxConcurrency \in Nat /\ MaxConcurrency > 0 /\ RetryCeiling \in Nat
    /\ MaxFaults \in Nat
BY FanoutAssumption

\* f is the walk over the first k rows.
IsWalk(f, results, k) ==
    f = [n \in 0..k |-> IF n = 0 THEN Unrouted ELSE Routed(f[n - 1], results[n])]

LEMMA WalkExists ==
    ASSUME NEW results, NEW k \in Nat
    PROVE  \E f : IsWalk(f, results, k)
<1>1. PICK T : T = {i \in Nat : ~\E f : IsWalk(f, results, i)}
  OBVIOUS
<1>2. SUFFICES ASSUME T # {} PROVE FALSE
  BY <1>1
<1>3. PICK i \in T : \A j \in T : i <= j
  BY <1>1, <1>2, Smallest
<1>4. i \in Nat /\ ~\E f : IsWalk(f, results, i)
  BY <1>1
<1>5. CASE i = 0
  <2>1. PICK f : f = [n \in 0..0 |-> Unrouted]
    OBVIOUS
  <2>2. \A n \in 0..0 : n = 0
    OBVIOUS
  <2>3. f = [n \in 0..0 |-> IF n = 0 THEN Unrouted ELSE Routed(f[n - 1], results[n])]
    BY <2>1, <2>2
  <2> QED
    BY <1>4, <1>5, <2>3 DEF IsWalk
<1>6. CASE i # 0
  <2>1. i - 1 \in Nat /\ i - 1 \notin T
    BY <1>3, <1>4, <1>6
  <2>2. PICK f : IsWalk(f, results, i - 1)
    BY <1>1, <2>1
  <2>3. \A n \in 0..(i - 1) : f[n] = IF n = 0 THEN Unrouted ELSE Routed(f[n - 1], results[n])
    BY <2>2 DEF IsWalk
  <2>4. PICK g : g = [n \in 0..i |-> IF n = i THEN Routed(f[n - 1], results[n]) ELSE f[n]]
    OBVIOUS
  <2>5. \A n \in 0..i : g[n] = IF n = 0 THEN Unrouted ELSE Routed(g[n - 1], results[n])
    <3> SUFFICES ASSUME NEW n \in 0..i
                 PROVE  g[n] = IF n = 0 THEN Unrouted ELSE Routed(g[n - 1], results[n])
      OBVIOUS
    <3>1. CASE n = 0
      <4>1. 0 \in 0..(i - 1) /\ n # i
        BY <1>4, <1>6, <2>1, <3>1
      <4> QED
        BY <2>3, <2>4, <3>1, <4>1
    <3>2. CASE n # 0
      <4>1. n - 1 \in 0..i /\ n - 1 # i
        BY <1>4, <3>2
      <4>2. g[n - 1] = f[n - 1]
        BY <2>4, <4>1
      <4>3. CASE n = i
        BY <2>4, <3>2, <4>2, <4>3
      <4>4. CASE n # i
        <5>1. n \in 0..(i - 1)
          BY <1>4, <4>4
        <5> QED
          BY <2>3, <2>4, <3>2, <4>2, <4>4, <5>1
      <4> QED
        BY <4>3, <4>4
    <3> QED
      BY <3>1, <3>2
  <2>6. g = [n \in 0..i |-> g[n]]
    BY <2>4
  <2>7. IsWalk(g, results, i)
    BY <2>5, <2>6 DEF IsWalk
  <2> QED
    BY <1>4, <2>7
<1> QED
  BY <1>5, <1>6

LEMMA CollectedWalks ==
    ASSUME NEW results
    PROVE  \E f : IsWalk(f, results, MaxItems) /\ Collected(results) = f[MaxItems].to
<1>1. \E f : IsWalk(f, results, MaxItems)
  BY WalkExists, ConstantsAreNumbers
<1>2. PICK f : f = CHOOSE g : g = [n \in 0..MaxItems |->
                        IF n = 0 THEN Unrouted ELSE Routed(g[n - 1], results[n])]
  OBVIOUS
<1>3. IsWalk(f, results, MaxItems)
  BY <1>1, <1>2 DEF IsWalk
<1>4. Collected(results) = f[MaxItems].to
  BY <1>2 DEF Collected
<1> QED
  BY <1>3, <1>4

\* What the walk has found after its first n rows.
Found(s, results, n) ==
    /\ s.chosen \in BOOLEAN /\ s.ambiguous \in BOOLEAN
    /\ s.chosen <=> \E m \in 1..n : results[m] \in Failures
    /\ s.ambiguous <=> \E m \in 1..n : results[m] = "ambiguous"
    /\ s.ambiguous => s.to = "on_ambiguous"
    /\ ~s.chosen => s.to = "next"
    /\ s.chosen /\ ~s.ambiguous =>
          \E m \in 1..n : /\ results[m] \in Failures /\ s.to = RouteOf(results[m])
                          /\ \A p \in 1..n : results[p] \in Failures => m <= p

LEMMA OneRowFurther ==
    ASSUME NEW results, NEW n \in Nat, n > 0, NEW s, Found(s, results, n - 1)
    PROVE  Found(Routed(s, results[n]), results, n)
<1>1. PICK o : o = results[n]
  OBVIOUS
<1>2. PICK u : u = Routed(s, o)
  OBVIOUS
<1>3. /\ \A m \in 1..n : m \in 1..(n - 1) \/ m = n
      /\ \A m \in 1..(n - 1) : m \in 1..n /\ m < n
      /\ n \in 1..n
  OBVIOUS
<1>4. (\E m \in 1..n : results[m] \in Failures) <=> s.chosen \/ o \in Failures
  BY <1>1, <1>3 DEF Found
<1>5. (\E m \in 1..n : results[m] = "ambiguous") <=> s.ambiguous \/ o = "ambiguous"
  BY <1>1, <1>3 DEF Found
<1>6. s.chosen \in BOOLEAN /\ s.ambiguous \in BOOLEAN /\ "ambiguous" \in Failures
  BY DEF Found, Failures
<1>7. s.ambiguous => s.chosen
  BY <1>6 DEF Found
<1>8. CASE Supersedes(s, o)
  <2>1. u.chosen = TRUE /\ u.ambiguous = (o = "ambiguous") /\ u.to = RouteOf(o)
    BY <1>2, <1>8 DEF Routed
  <2>2. o \in Failures /\ ~s.ambiguous /\ (s.chosen => o = "ambiguous")
    BY <1>7, <1>8 DEF Supersedes
  <2>3. u.ambiguous => u.to = "on_ambiguous"
    BY <2>1 DEF RouteOf
  <2>4. ASSUME ~u.ambiguous
        PROVE  \E m \in 1..n : /\ results[m] \in Failures /\ u.to = RouteOf(results[m])
                               /\ \A p \in 1..n : results[p] \in Failures => m <= p
    <3>1. ~s.chosen
      BY <2>1, <2>2, <2>4
    <3>2. \A p \in 1..n : results[p] \in Failures => p = n
      BY <1>3, <3>1 DEF Found
    <3> QED
      BY <1>1, <1>3, <2>1, <2>2, <3>2
  <2>5. Found(u, results, n)
    BY <1>4, <1>5, <2>1, <2>2, <2>3, <2>4 DEF Found
  <2> QED
    BY <1>1, <1>2, <2>5
<1>9. CASE ~Supersedes(s, o)
  <2>1. u = s
    BY <1>2, <1>9 DEF Routed
  <2>2. o \in Failures => s.chosen /\ (s.ambiguous \/ o # "ambiguous")
    BY <1>9 DEF Supersedes
  <2>3. ASSUME s.chosen, ~s.ambiguous
        PROVE  \E m \in 1..n : /\ results[m] \in Failures /\ s.to = RouteOf(results[m])
                               /\ \A p \in 1..n : results[p] \in Failures => m <= p
    <3>1. PICK m \in 1..(n - 1) :
             /\ results[m] \in Failures /\ s.to = RouteOf(results[m])
             /\ \A p \in 1..(n - 1) : results[p] \in Failures => m <= p
      BY <2>3 DEF Found
    <3>2. m <= n /\ \A p \in 1..n : results[p] \in Failures => m <= p
      BY <1>3, <3>1
    <3> QED
      BY <1>3, <3>1, <3>2
  <2>4. Found(s, results, n)
    BY <1>4, <1>5, <1>6, <2>2, <2>3 DEF Found
  <2> QED
    BY <1>1, <1>2, <2>1, <2>4
<1> QED
  BY <1>8, <1>9

LEMMA WalkFinds ==
    ASSUME NEW results, NEW k \in Nat, NEW f, IsWalk(f, results, k)
    PROVE  Found(f[k], results, k)
<1>1. PICK T : T = {i \in 0..k : ~Found(f[i], results, i)}
  OBVIOUS
<1>2. SUFFICES ASSUME T # {} PROVE FALSE
  BY <1>1
<1>3. PICK i \in T : \A j \in T : i <= j
  BY <1>1, <1>2, Smallest
<1>4. i \in 0..k /\ ~Found(f[i], results, i)
  BY <1>1
<1>5. f[i] = IF i = 0 THEN Unrouted ELSE Routed(f[i - 1], results[i])
  BY <1>4 DEF IsWalk
<1>6. CASE i = 0
  <2>1. 1..0 = {}
    OBVIOUS
  <2>2. Found(Unrouted, results, 0)
    BY <2>1 DEF Found, Unrouted
  <2> QED
    BY <1>4, <1>5, <1>6, <2>2
<1>7. CASE i # 0
  <2>1. i - 1 \in 0..k /\ i - 1 \notin T /\ i \in Nat /\ i > 0
    BY <1>3, <1>4, <1>7
  <2>2. Found(f[i - 1], results, i - 1)
    BY <1>1, <2>1
  <2>3. Found(Routed(f[i - 1], results[i]), results, i)
    BY <2>1, <2>2, OneRowFurther
  <2> QED
    BY <1>4, <1>5, <1>7, <2>3
<1> QED
  BY <1>6, <1>7

\* The destination is a function of the order of the journal: the walk finds an
\* ambiguous item, or else the failed item of the lowest ordinal.
LEMMA CollectedIs ==
    ASSUME NEW results, NEW F, F = {n \in Ordinals : results[n] \in Failures}
    PROVE  Collected(results) =
               IF \E n \in F : results[n] = "ambiguous" THEN "on_ambiguous"
               ELSE IF F = {} THEN "next"
               ELSE RouteOf(results[Lowest(F)])
<1>1. PICK f : IsWalk(f, results, MaxItems) /\ Collected(results) = f[MaxItems].to
  BY CollectedWalks
<1>2. PICK s : s = f[MaxItems]
  OBVIOUS
<1>3. Found(s, results, MaxItems)
  BY <1>1, <1>2, WalkFinds, ConstantsAreNumbers
<1>4. Ordinals = 1..MaxItems /\ F \subseteq Nat
  BY DEF Ordinals
<1>5. s.ambiguous <=> \E n \in F : results[n] = "ambiguous"
  BY <1>3, <1>4 DEF Found, Failures
<1>6. s.chosen <=> F # {}
  BY <1>3, <1>4 DEF Found
<1>7. ASSUME F # {}, ~s.ambiguous
      PROVE  s.to = RouteOf(results[Lowest(F)])
  <2>1. PICK m \in 1..MaxItems :
             /\ results[m] \in Failures /\ s.to = RouteOf(results[m])
             /\ \A p \in 1..MaxItems : results[p] \in Failures => m <= p
    BY <1>3, <1>6, <1>7 DEF Found
  <2>2. Lowest(F) \in F /\ \A y \in F : Lowest(F) <= y
    BY <1>4, <1>7, LowestFacts
  <2>3. m \in F /\ m <= Lowest(F) /\ Lowest(F) <= m
    BY <1>4, <2>1, <2>2
  <2>4. m = Lowest(F)
    BY <1>4, <2>2, <2>3
  <2> QED
    BY <2>1, <2>4
<1> QED
  BY <1>1, <1>2, <1>3, <1>5, <1>6, <1>7 DEF Found

-----------------------------------------------------------------------------
(* The inductive invariant *)

\* Before the expansion there is nothing but the event that entered the state.
FreshSound ==
    inst.version = 0 =>
        /\ inst.status = "running" /\ inst.state = "fanout"
        /\ \A n \in Ordinals : /\ item[n] = "absent" /\ job[n] = "none"
                               /\ outcome[n] = "none" /\ token[n].status = "absent"

EntrySound == inst.version > 0 => token[Entry].status = "consumed"

\* The row of an item, its event, its job and its outcome agree.
RowSound(n) ==
    /\ item[n] = "absent" <=> n > plan.length
    /\ item[n] = "scheduled" => (token[n].status = "pending" <=> job[n] # "live")
    /\ item[n] # "scheduled" => token[n].status # "pending" /\ job[n] # "live"
    /\ item[n] = "pending" => token[n].status = "absent"
    /\ plan.activity = "command" =>
          /\ job[n] = "none"
          /\ token[n].status = "pending" => token[n].version = inst.version
    /\ plan.activity = "request" => (job[n] = "done" <=> token[n].status # "absent")
    /\ item[n] = "absent" => outcome[n] = "none"
    /\ item[n] = "succeeded" => outcome[n] = "ok"
    /\ item[n] = "failed" => outcome[n] \in Failures

OpenSound ==
    Open => /\ inst.version = 1 /\ plan.length \in 1..MaxItems
            /\ \A n \in Ordinals : RowSound(n)

Holders == {n \in Ordinals : item[n] = "scheduled"}
SlotsCounted ==
    Open => Cardinality(Holders) = Min({plan.concurrency, Cardinality(Unfinished(item))})

\* Once the state is left, nothing of it moves.
LeftSound ==
    inst.status = "running" /\ inst.state # "fanout" =>
        /\ inst.version \in 1..2
        /\ \A n \in Ordinals : token[n].status # "pending" /\ job[n] # "live"

\* A worker read an event that was there, of an instance no newer than it is now;
\* if it found no scheduled item, the event is gone or the version has moved.
TransitionSound(r) ==
    r.pc # "idle" =>
        /\ token[r.token].status # "absent"
        /\ r.version <= inst.version
        /\ r.pc = "failing" /\ r.code = "transition_preparation_failed" =>
              \/ inst.status # "running"
              \/ r.version # inst.version
              \/ token[r.token].status = "consumed"

Coded(r) == r.code # "none" => r.pc = "failing"
Counted == \A t \in Tokens : token[t].attempts <= faults

FanoutInv ==
    /\ TypeOK
    /\ Counted
    /\ \A w \in Workers : Coded(worker[w])
    /\ FreshSound
    /\ EntrySound
    /\ OpenSound
    /\ SlotsCounted
    /\ LeftSound
    /\ \A w \in Workers : TransitionSound(worker[w])
    /\ CollectedWhole
    /\ RouteByOrder
    /\ NoRaceFails

-----------------------------------------------------------------------------
(* Small facts *)

LEMMA MinOfTwo ==
    ASSUME NEW a \in Nat, NEW b \in Nat
    PROVE  Min({a, b}) = IF a <= b THEN a ELSE b
<1>1. CASE a <= b
  <2>1. \E x \in {a, b} : \A y \in {a, b} : x <= y
    BY <1>1
  <2>2. PICK m : m = Min({a, b})
    OBVIOUS
  <2>3. m \in {a, b} /\ \A y \in {a, b} : m <= y
    BY <2>1, <2>2 DEF Min
  <2> QED
    BY <1>1, <2>2, <2>3
<1>2. CASE ~(a <= b)
  <2>1. \E x \in {a, b} : \A y \in {a, b} : x <= y
    BY <1>2
  <2>2. PICK m : m = Min({a, b})
    OBVIOUS
  <2>3. m \in {a, b} /\ \A y \in {a, b} : m <= y
    BY <2>1, <2>2 DEF Min
  <2> QED
    BY <1>2, <2>2, <2>3
<1> QED
  BY <1>1, <1>2

\* A slot that is given up is passed on to an item that waits, if one does:
\* U are the unfinished items, S the ones that hold a slot.
LEMMA SlotPassedOn ==
    ASSUME NEW U, NEW S, IsFiniteSet(U), S \subseteq U, NEW n \in S,
           NEW c \in Nat, Cardinality(S) = Min({c, Cardinality(U)}),
           NEW next, next \subseteq U \ S, next = {} => U = S,
           \A a \in next, b \in next : a = b
    PROVE  Cardinality((S \ {n}) \cup next) = Min({c, Cardinality(U \ {n})})
<1>1. IsFiniteSet(S) /\ Cardinality(S) \in Nat /\ Cardinality(U) \in Nat
      /\ Cardinality(S) <= Cardinality(U)
      /\ (Cardinality(S) = Cardinality(U) => S = U)
  BY FS_Subset, FS_CardinalityType
<1>2. PICK R : R = S \ {n}
  OBVIOUS
<1>3. PICK V : V = U \ {n}
  OBVIOUS
<1>4. IsFiniteSet(R) /\ Cardinality(R) = Cardinality(S) - 1 /\ Cardinality(R) \in Nat
  BY <1>1, <1>2, FS_RemoveElement, FS_CardinalityType
<1>5. IsFiniteSet(V) /\ Cardinality(V) = Cardinality(U) - 1 /\ Cardinality(V) \in Nat
  BY <1>1, <1>3, FS_RemoveElement, FS_CardinalityType
<1>6. Cardinality(S) = IF c <= Cardinality(U) THEN c ELSE Cardinality(U)
  BY <1>1, MinOfTwo
<1>7. Min({c, Cardinality(V)}) = IF c <= Cardinality(V) THEN c ELSE Cardinality(V)
  BY <1>5, MinOfTwo
<1>8. CASE next = {}
  <2>1. R \cup next = V
    BY <1>2, <1>3, <1>8
  <2>2. U = S
    BY <1>8
  <2>3. Cardinality(V) = Min({c, Cardinality(V)})
    BY <1>1, <1>4, <1>5, <1>6, <1>7, <2>2
  <2> QED
    BY <1>2, <1>3, <2>1, <2>3
<1>9. CASE next # {}
  <2>1. PICK m : next = {m}
    BY <1>9
  <2>2. m \in U /\ m \notin S /\ m \notin R
    BY <1>2, <2>1
  <2>3. Cardinality(R \cup {m}) = Cardinality(R) + 1
    BY <1>4, <2>2, FS_AddElement
  <2>4. Cardinality(S) # Cardinality(U)
    BY <1>1, <2>2
  <2>5. Cardinality(R) + 1 = Min({c, Cardinality(V)})
    BY <1>1, <1>4, <1>5, <1>6, <1>7, <2>4
  <2> QED
    BY <1>2, <1>3, <2>1, <2>3, <2>5
<1> QED
  BY <1>8, <1>9

-----------------------------------------------------------------------------
(* The instance is before the expansion, in it, past it, or has failed *)

LEMMA Phases ==
    ASSUME FanoutInv
    PROVE  /\ inst.version \in Nat
           /\ \/ inst.status = "running" /\ inst.version = 0 /\ inst.state = "fanout"
              \/ Open /\ inst.version = 1
              \/ inst.status = "running" /\ inst.state # "fanout" /\ inst.version \in 1..2
              \/ inst.status = "failed" /\ inst.version > 0
<1>1. inst \in InstanceRow
  BY DEF FanoutInv, TypeOK
<1>2. inst.version \in 0..3 /\ inst.status \in {"running", "failed"}
  BY <1>1 DEF InstanceRow
<1>3. inst.version \in Nat /\ (inst.version = 0 \/ inst.version > 0)
  BY <1>2
<1>4. CASE inst.version = 0
  BY <1>3, <1>4 DEF FanoutInv, FreshSound
<1>5. CASE inst.version > 0
  BY <1>2, <1>3, <1>5 DEF FanoutInv, OpenSound, LeftSound, Open
<1> QED
  BY <1>3, <1>4, <1>5

\* An item's event that is pending belongs to the open fan-out.
LEMMA PendingIsOpen ==
    ASSUME FanoutInv, NEW n \in Ordinals, token[n].status = "pending",
           inst.status = "running"
    PROVE  Open /\ inst.version = 1 /\ item[n] = "scheduled" /\ RowSound(n)
<1>1. inst.version # 0
  BY DEF FanoutInv, FreshSound
<1>2. ~(inst.status = "running" /\ inst.state # "fanout")
  BY DEF FanoutInv, LeftSound
<1>3. Open /\ inst.version = 1
  BY <1>1, <1>2, Phases
<1>4. RowSound(n)
  BY <1>3 DEF FanoutInv, OpenSound
<1> QED
  BY <1>3, <1>4 DEF RowSound

\* The entry is pending only before the expansion.
LEMMA EntryIsFresh ==
    ASSUME FanoutInv, token[Entry].status = "pending"
    PROVE  /\ inst.version = 0 /\ inst.status = "running" /\ inst.state = "fanout"
           /\ \A n \in Ordinals : /\ item[n] = "absent" /\ job[n] = "none"
                                  /\ outcome[n] = "none" /\ token[n].status = "absent"
<1>1. inst.version = 0
  BY Phases DEF FanoutInv, EntrySound
<1> QED
  BY <1>1 DEF FanoutInv, FreshSound

\* What a worker holds stays sound when versions only grow, a failed instance
\* stays failed and events of a running one only move on.
LEMMA StaysSound ==
    ASSUME FanoutInv, NEW r \in Transition, TransitionSound(r),
           inst' \in InstanceRow,
           inst'.version >= inst.version,
           inst.status # "running" => inst'.status # "running",
           \A t \in Entry..MaxItems :
               token[t].status # "absent" =>
                   /\ token'[t].status # "absent"
                   /\ inst.status = "running" /\ token[t].status = "consumed" =>
                          token'[t].status = "consumed"
    PROVE  (r.pc # "idle" =>
              /\ token'[r.token].status # "absent"
              /\ r.version <= inst'.version
              /\ r.pc = "failing" /\ r.code = "transition_preparation_failed" =>
                    \/ inst'.status # "running"
                    \/ r.version # inst'.version
                    \/ token'[r.token].status = "consumed")
<1>1. HAVE r.pc # "idle"
<1>2. /\ token[r.token].status # "absent"
      /\ r.version <= inst.version
      /\ r.pc = "failing" /\ r.code = "transition_preparation_failed" =>
              \/ inst.status # "running"
              \/ r.version # inst.version
              \/ token[r.token].status = "consumed"
  BY <1>1 DEF TransitionSound
<1>3. r.token \in Entry..MaxItems /\ r.version \in Nat
  BY DEF Transition
<1>4. inst.version \in Nat /\ inst'.version \in Nat
  BY Phases DEF InstanceRow
<1>5. PICK v \in Nat, u \in Nat, x \in Nat : v = inst.version /\ u = inst'.version /\ x = r.version
  BY <1>3, <1>4
<1>6. x <= v /\ v <= u
  BY <1>2, <1>5
<1>7. x <= u /\ (x # v => x # u)
  BY <1>6
<1>8. token'[r.token].status # "absent"
  BY <1>2, <1>3
<1> QED
  BY <1>2, <1>3, <1>5, <1>7, <1>8

\* One worker gets r, the others keep what they hold.
LEMMA OneWorkerMoves ==
    ASSUME FanoutInv, NEW w \in Workers, NEW r \in Transition, Coded(r), TransitionSound(r)',
           worker' = [worker EXCEPT ![w] = r],
           inst' \in InstanceRow,
           inst'.version >= inst.version,
           inst.status # "running" => inst'.status # "running",
           \A t \in Entry..MaxItems :
               token[t].status # "absent" =>
                   /\ token'[t].status # "absent"
                   /\ inst.status = "running" /\ token[t].status = "consumed" =>
                          token'[t].status = "consumed"
    PROVE  /\ worker' \in [Workers -> Transition]
           /\ \A x \in Workers : Coded(worker'[x])
           /\ \A x \in Workers : TransitionSound(worker[x])'
<1>1. worker \in [Workers -> Transition]
  BY DEF FanoutInv, TypeOK
<1>2. worker' \in [Workers -> Transition]
  BY <1>1
<1>3. \A x \in Workers : Coded(worker'[x])
  BY <1>1 DEF FanoutInv, Coded
<1>4. ASSUME NEW x \in Workers PROVE TransitionSound(worker[x])'
  <2>1. CASE x = w
    <3>1. worker'[x] = r
      BY <1>1, <2>1
    <3> QED
      BY <3>1 DEF TransitionSound
  <2>2. CASE x # w
    <3>1. PICK q : q = worker[x]
      OBVIOUS
    <3>2. worker'[x] = q /\ q \in Transition
      BY <1>1, <2>2, <3>1
    <3>3. TransitionSound(q)
      BY <3>1 DEF FanoutInv
    <3>4. (q.pc # "idle" =>
              /\ token'[q.token].status # "absent"
              /\ q.version <= inst'.version
              /\ q.pc = "failing" /\ q.code = "transition_preparation_failed" =>
                    \/ inst'.status # "running"
                    \/ q.version # inst'.version
                    \/ token'[q.token].status = "consumed")
      BY <3>2, <3>3, StaysSound
    <3> QED
      BY <3>2, <3>4 DEF TransitionSound
  <2> QED
    BY <2>1, <2>2
<1> QED
  BY <1>2, <1>3, <1>4

LEMMA IdleIsSound ==
    Idle \in Transition /\ Coded(Idle) /\ TransitionSound(Idle)'
<1>1. Entry \in Entry..MaxItems
  BY ConstantsAreNumbers DEF Entry
<1> QED
  BY <1>1 DEF Idle, Transition, Coded, TransitionSound, States, Codes

\* Nothing but the workers and the attempts of events move.
LEMMA QuietStep ==
    ASSUME FanoutInv, UNCHANGED <<plan, inst, item, outcome, job>>,
           token' \in [Tokens -> EventRow],
           \A t \in Tokens : /\ token'[t].status = token[t].status
                             /\ token'[t].version = token[t].version
                             /\ token'[t].attempts <= faults',
           faults' \in 0..MaxFaults,
           NEW w \in Workers, NEW r \in Transition, Coded(r), TransitionSound(r)',
           worker' = [worker EXCEPT ![w] = r]
    PROVE  FanoutInv'
<1>1. Entry \in Tokens /\ Ordinals \subseteq Tokens /\ Entry..MaxItems \subseteq Tokens
  BY ConstantsAreNumbers DEF Tokens, Entry, Onward, Ordinals
<1>2. inst' \in InstanceRow /\ inst'.version >= inst.version
  BY Phases DEF FanoutInv, TypeOK
<1>3. /\ worker' \in [Workers -> Transition]
      /\ \A x \in Workers : Coded(worker'[x])
      /\ \A x \in Workers : TransitionSound(worker[x])'
  BY <1>1, <1>2, OneWorkerMoves
<1>4. TypeOK'
  BY <1>3 DEF FanoutInv, TypeOK
<1>5. Counted'
  BY DEF Counted
<1>6. FreshSound'
  BY <1>1 DEF FanoutInv, FreshSound
<1>7. EntrySound'
  BY <1>1 DEF FanoutInv, EntrySound
<1>8. OpenSound'
  BY <1>1 DEF FanoutInv, OpenSound, Open, RowSound
<1>9. SlotsCounted'
  BY DEF FanoutInv, SlotsCounted, Open, Holders, Unfinished
<1>10. LeftSound'
  BY <1>1 DEF FanoutInv, LeftSound
<1>11. CollectedWhole'
  BY DEF FanoutInv, CollectedWhole
<1>12. RouteByOrder'
  BY DEF FanoutInv, RouteByOrder
<1>13. NoRaceFails'
  BY DEF FanoutInv, NoRaceFails
<1> QED
  BY <1>3, <1>4, <1>5, <1>6, <1>7, <1>8, <1>9, <1>10, <1>11, <1>12, <1>13 DEF FanoutInv

-----------------------------------------------------------------------------
(* The steps of a worker that write nothing *)

\* Only the transition a worker is inside moves, and it may be a fault.
LEMMA WorkerOnly ==
    ASSUME FanoutInv, UNCHANGED <<plan, inst, item, outcome, job, token>>,
           faults' \in 0..MaxFaults, faults <= faults',
           NEW w \in Workers, NEW r \in Transition, Coded(r), TransitionSound(r),
           worker' = [worker EXCEPT ![w] = r]
    PROVE  FanoutInv'
<1>1. token \in [Tokens -> EventRow] /\ Counted /\ faults \in 0..MaxFaults
  BY DEF FanoutInv, TypeOK
<1>2. ASSUME NEW t \in Tokens PROVE token[t].attempts <= faults'
  <2>1. token[t].attempts <= faults /\ token[t].attempts \in Nat
    BY <1>1 DEF Counted, EventRow
  <2> QED
    BY <1>1, <2>1, ConstantsAreNumbers
<1>3. TransitionSound(r)'
  BY DEF TransitionSound
<1> QED
  BY <1>1, <1>2, <1>3, QuietStep

LEMMA WorkersTyped ==
    ASSUME FanoutInv, NEW w \in Workers
    PROVE  /\ worker \in [Workers -> Transition] /\ worker[w] \in Transition
           /\ Coded(worker[w]) /\ TransitionSound(worker[w])
           /\ worker[w].token \in Entry..MaxItems /\ worker[w].token \in Tokens
           /\ faults \in 0..MaxFaults
<1>1. worker \in [Workers -> Transition] /\ faults \in 0..MaxFaults
  BY DEF FanoutInv, TypeOK
<1>2. worker[w].token \in Entry..MaxItems
  BY <1>1 DEF Transition
<1>3. Entry..MaxItems \subseteq Tokens
  BY ConstantsAreNumbers DEF Tokens, Entry, Onward
<1> QED
  BY <1>1, <1>2, <1>3 DEF FanoutInv

LEMMA GoesIdle ==
    ASSUME FanoutInv, UNCHANGED <<plan, inst, item, outcome, job, token>>,
           faults' \in 0..MaxFaults, faults <= faults',
           NEW w \in Workers, worker' = [worker EXCEPT ![w] = Idle]
    PROVE  FanoutInv'
<1>1. Idle \in Transition /\ Coded(Idle) /\ TransitionSound(Idle)
  BY IdleIsSound DEF Idle, TransitionSound
<1> QED
  BY <1>1, WorkerOnly

LEMMA ReadKeeps ==
    ASSUME FanoutInv, NEW w \in Workers, NEW t \in Tokens, Read(w, t)
    PROVE  FanoutInv'
<1>1. PICK r : r = [Idle EXCEPT !.pc = "read", !.token = t,
                                !.version = inst.version, !.state = inst.state]
  OBVIOUS
<1>2. worker' = [worker EXCEPT ![w] = r]
  BY <1>1 DEF Read
<1>3. /\ r.pc = "read" /\ r.token = t /\ r.version = inst.version
       /\ r.state = inst.state /\ r.code = "none"
       /\ r = [pc |-> r.pc, token |-> r.token, version |-> r.version,
               state |-> r.state, code |-> r.code]
  BY <1>1 DEF Idle
<1>4. inst \in InstanceRow
  BY DEF FanoutInv, TypeOK
<1>5. inst.version \in 0..2 /\ inst.state \in States
  BY <1>4, Phases DEF Read, InstanceRow
<1>6. t \in Entry..MaxItems
  BY DEF Read
<1>7. r \in Transition
  BY <1>3, <1>5, <1>6 DEF Transition, Codes
<1>8. TransitionSound(r)
  BY <1>3, <1>5 DEF TransitionSound, Read
<1>9. Coded(r)
  BY <1>3 DEF Coded
<1>10. faults' \in 0..MaxFaults /\ faults <= faults'
  BY WorkersTyped DEF Read
<1> QED
  BY <1>2, <1>7, <1>8, <1>9, <1>10, WorkerOnly DEF Read

\* A worker that finds no scheduled item lost a race or looks at an instance
\* that has moved.
LEMMA NoItemNoEvent ==
    ASSUME FanoutInv, NEW w \in Workers, worker[w].pc # "idle",
           worker[w].token # Entry, ~ItemIsScheduled(w)
    PROVE  \/ inst.status # "running"
           \/ worker[w].version # inst.version
           \/ token[worker[w].token].status = "consumed"
<1>1. PICK n : n = worker[w].token
  OBVIOUS
<1>2. n \in Ordinals /\ n \in Tokens
  BY <1>1, WorkersTyped, ConstantsAreNumbers DEF Entry, Ordinals
<1>3. token[n].status # "absent" /\ token[n].status \in {"absent", "pending", "consumed"}
  BY <1>1, <1>2, WorkersTyped DEF TransitionSound, FanoutInv, TypeOK, EventRow
<1>4. SUFFICES ASSUME inst.status = "running", worker[w].version = inst.version,
                      token[n].status = "pending"
               PROVE  ItemIsScheduled(w)
  BY <1>1, <1>3
<1>5. item[n] = "scheduled" /\ RowSound(n)
  BY <1>2, <1>4, PendingIsOpen
<1> QED
  BY <1>1, <1>4, <1>5 DEF ItemIsScheduled, RowSound

LEMMA PrepareKeeps ==
    ASSUME FanoutInv, NEW w \in Workers, Prepare(w)
    PROVE  FanoutInv'
<1>1. PICK good \in BOOLEAN : good = (worker[w].token = Entry \/ ItemIsScheduled(w))
  OBVIOUS
<1>2. PICK r : r = [worker[w] EXCEPT
                       !.pc = IF good THEN "prepared" ELSE "failing",
                       !.code = IF good THEN "none" ELSE "transition_preparation_failed"]
  OBVIOUS
<1>3. worker[w] \in Transition /\ worker \in [Workers -> Transition]
  BY WorkersTyped
<1>4. worker' = [worker EXCEPT ![w] = r]
  BY <1>1, <1>2, <1>3 DEF Prepare
<1>5. r \in Transition
  BY <1>2, <1>3 DEF Transition, Codes
<1>6. /\ r.token = worker[w].token /\ r.version = worker[w].version
      /\ r.pc = IF good THEN "prepared" ELSE "failing"
      /\ r.code = IF good THEN "none" ELSE "transition_preparation_failed"
  BY <1>2, <1>3 DEF Transition
<1>7. Coded(r)
  BY <1>6 DEF Coded
<1>8. worker[w].pc # "idle"
  BY DEF Prepare
<1>9. ~good => \/ inst.status # "running"
               \/ worker[w].version # inst.version
               \/ token[worker[w].token].status = "consumed"
  BY <1>1, <1>8, NoItemNoEvent
<1>10. TransitionSound(r)
  BY <1>6, <1>8, <1>9, WorkersTyped DEF TransitionSound
<1>11. faults' \in 0..MaxFaults /\ faults <= faults'
  BY WorkersTyped DEF Prepare
<1> QED
  BY <1>4, <1>5, <1>7, <1>10, <1>11, WorkerOnly DEF Prepare

LEMMA AbandonKeeps ==
    ASSUME FanoutInv, NEW w \in Workers, Abandon(w)
    PROVE  FanoutInv'
<1>1. faults' \in 0..MaxFaults /\ faults <= faults'
  BY WorkersTyped DEF Abandon
<1> QED
  BY <1>1, GoesIdle DEF Abandon

LEMMA CrashKeeps ==
    ASSUME FanoutInv, NEW w \in Workers, Crash(w)
    PROVE  FanoutInv'
<1>1. faults' \in 0..MaxFaults /\ faults <= faults'
  BY WorkersTyped, ConstantsAreNumbers DEF Crash
<1> QED
  BY <1>1, GoesIdle DEF Crash

LEMMA RefuseKeeps ==
    ASSUME FanoutInv, NEW w \in Workers, Refuse(w)
    PROVE  FanoutInv'
<1>1. PICK r : r = [worker[w] EXCEPT !.pc = "failing", !.code = "transition_failed"]
  OBVIOUS
<1>2. worker[w] \in Transition /\ worker \in [Workers -> Transition]
  BY WorkersTyped
<1>3. worker' = [worker EXCEPT ![w] = r]
  BY <1>1, <1>2 DEF Refuse
<1>4. r \in Transition
  BY <1>1, <1>2 DEF Transition, Codes
<1>5. /\ r.token = worker[w].token /\ r.version = worker[w].version
      /\ r.pc = "failing" /\ r.code = "transition_failed"
  BY <1>1, <1>2 DEF Transition
<1>6. Coded(r) /\ worker[w].pc # "idle"
  BY <1>5 DEF Coded, Refuse, Current
<1>7. TransitionSound(r)
  BY <1>5, <1>6, WorkersTyped DEF TransitionSound
<1>8. faults' \in 0..MaxFaults /\ faults <= faults'
  BY WorkersTyped, ConstantsAreNumbers DEF Refuse
<1> QED
  BY <1>3, <1>4, <1>6, <1>7, <1>8, WorkerOnly DEF Refuse

LEMMA DeferKeeps ==
    ASSUME FanoutInv, NEW w \in Workers, Defer(w)
    PROVE  FanoutInv'
<1>1. PICK t : t = worker[w].token
  OBVIOUS
<1>2. worker[w] \in Transition /\ worker \in [Workers -> Transition] /\ t \in Tokens
  BY <1>1, WorkersTyped
<1>3. faults' = faults + 1 /\ faults' \in 0..MaxFaults /\ faults \in 0..MaxFaults
      /\ faults <= faults'
  BY WorkersTyped, ConstantsAreNumbers DEF Defer
<1>4. CASE token[t].status # "pending"
  <2>1. worker' = [worker EXCEPT ![w] = Idle] /\ UNCHANGED token
    BY <1>1, <1>4 DEF Defer
  <2> QED
    BY <1>3, <2>1, GoesIdle DEF Defer
<1>5. CASE token[t].status = "pending"
  <2>1. token \in [Tokens -> EventRow] /\ Counted
    BY DEF FanoutInv, TypeOK
  <2>2. token' = [token EXCEPT ![t].attempts = @ + 1]
    BY <1>1, <1>5 DEF Defer
  <2>3. ASSUME NEW x \in Tokens
        PROVE  /\ token'[x] \in EventRow
               /\ token'[x].status = token[x].status
               /\ token'[x].version = token[x].version
               /\ token'[x].attempts <= faults'
    <3>1. PICK e : e = token[x]
      OBVIOUS
    <3>2. e \in EventRow /\ e.attempts <= faults /\ e.attempts \in Nat
      BY <2>1, <3>1 DEF Counted, EventRow
    <3>3. e.attempts <= faults' /\ e.attempts + 1 <= faults' /\ e.attempts + 1 \in 0..MaxFaults
      BY <1>3, <3>2, ConstantsAreNumbers
    <3>4. token'[x] = IF x = t THEN [e EXCEPT !.attempts = e.attempts + 1] ELSE e
      BY <2>1, <2>2, <3>1
    <3>5. [e EXCEPT !.attempts = e.attempts + 1] \in EventRow
      BY <3>2, <3>3 DEF EventRow
    <3> QED
      BY <3>1, <3>2, <3>3, <3>4, <3>5 DEF EventRow
  <2>4. token' \in [Tokens -> EventRow]
    BY <2>1, <2>2, <2>3
  <2>5. PICK q : q = [worker[w] EXCEPT !.pc = "failing", !.code = "transition_retry_exhausted"]
    OBVIOUS
  <2>6. PICK r : r = IF token[t].attempts + 1 >= RetryCeiling THEN q ELSE Idle
    OBVIOUS
  <2>7. worker' = [worker EXCEPT ![w] = r]
    BY <1>1, <1>5, <2>5, <2>6 DEF Defer
  <2>8. q \in Transition /\ q.token = t /\ q.version = worker[w].version
        /\ q.pc = "failing" /\ q.code = "transition_retry_exhausted"
    BY <1>1, <1>2, <2>5 DEF Transition, Codes
  <2>9. worker[w].pc # "idle" /\ inst' = inst
    BY DEF Defer
  <2>10. Coded(q)
    BY <2>8 DEF Coded
  <2>11. TransitionSound(q)'
    <3>1. token[t].status # "absent" /\ q.version <= inst.version
      BY <1>1, <2>8, <2>9, WorkersTyped DEF TransitionSound
    <3>2. token'[t].status # "absent" /\ q.version <= inst'.version
      BY <1>2, <2>3, <2>9, <3>1
    <3> QED
      BY <2>8, <3>2 DEF TransitionSound
  <2>12. r \in Transition /\ Coded(r) /\ TransitionSound(r)'
    <3>1. r = q \/ r = Idle
      BY <2>6
    <3>2. CASE r = q
      BY <2>8, <2>10, <2>11, <3>2
    <3>3. CASE r = Idle
      BY <3>3, IdleIsSound
    <3> QED
      BY <3>1, <3>2, <3>3
  <2> QED
    BY <1>3, <2>3, <2>4, <2>7, <2>12, QuietStep DEF Defer
<1> QED
  BY <1>4, <1>5

-----------------------------------------------------------------------------
(* The instance fails *)

\* Once the instance has failed only the shape of the rows matters.
LEMMA FailedStep ==
    ASSUME FanoutInv, inst'.status = "failed", inst' \in InstanceRow,
           inst'.version = inst.version + 1,
           inst'.code # "transition_preparation_failed",
           UNCHANGED <<plan, item, outcome, job, faults>>,
           inst.status = "running",
           NEW w \in Workers, worker' = [worker EXCEPT ![w] = Idle],
           NEW k \in Entry..MaxItems, token[k].status = "pending",
           token' = [token EXCEPT ![k].status = "consumed"]
    PROVE  FanoutInv'
<1>1. token \in [Tokens -> EventRow] /\ k \in Tokens /\ Entry..MaxItems \subseteq Tokens
  BY ConstantsAreNumbers DEF FanoutInv, TypeOK, Tokens, Entry, Onward
<1>2. ASSUME NEW t \in Tokens
      PROVE  /\ token'[t] \in EventRow /\ token'[t].attempts = token[t].attempts
             /\ token'[t].status = IF t = k THEN "consumed" ELSE token[t].status
  <2>1. token[t] \in EventRow
    BY <1>1
  <2>2. token'[t] = IF t = k THEN [token[t] EXCEPT !.status = "consumed"] ELSE token[t]
    BY <1>1
  <2> QED
    BY <2>1, <2>2 DEF EventRow
<1>3. token' \in [Tokens -> EventRow]
  BY <1>1, <1>2
<1>4. inst.version \in Nat /\ inst'.version >= inst.version /\ inst'.version > 0
  BY Phases
<1>5. /\ worker' \in [Workers -> Transition]
      /\ \A x \in Workers : Coded(worker'[x])
      /\ \A x \in Workers : TransitionSound(worker[x])'
  <2>1. \A t \in Entry..MaxItems :
               token[t].status # "absent" =>
                   /\ token'[t].status # "absent"
                   /\ inst.status = "running" /\ token[t].status = "consumed" =>
                          token'[t].status = "consumed"
    BY <1>1, <1>2
  <2> QED
    BY <1>4, <2>1, IdleIsSound, OneWorkerMoves
<1>6. TypeOK'
  BY <1>3, <1>5 DEF FanoutInv, TypeOK
<1>7. Counted'
  BY <1>2 DEF FanoutInv, Counted
<1>8. FreshSound'
  BY <1>4 DEF FreshSound
<1>9. EntrySound'
  <2>1. token'[Entry].status = "consumed"
    <3>1. CASE k = Entry
      BY <1>1, <1>2, <3>1
    <3>2. CASE k # Entry
      <4>1. k \in Ordinals
        BY <3>2, ConstantsAreNumbers DEF Entry, Ordinals
      <4>2. inst.version = 1
        BY <4>1, PendingIsOpen
      <4>3. token[Entry].status = "consumed"
        BY <4>2 DEF FanoutInv, EntrySound
      <4>4. Entry \in Tokens
        BY ConstantsAreNumbers DEF Tokens, Entry, Onward
      <4> QED
        BY <1>2, <3>2, <4>3, <4>4
    <3> QED
      BY <3>1, <3>2
  <2> QED
    BY <2>1 DEF EntrySound
<1>10. OpenSound' /\ SlotsCounted' /\ LeftSound' /\ CollectedWhole' /\ RouteByOrder'
  BY DEF OpenSound, SlotsCounted, LeftSound, CollectedWhole, RouteByOrder, Open
<1>11. NoRaceFails'
  BY DEF NoRaceFails
<1> QED
  BY <1>5, <1>6, <1>7, <1>8, <1>9, <1>10, <1>11 DEF FanoutInv

LEMMA RunningVersion ==
    ASSUME FanoutInv, inst.status = "running"
    PROVE  inst \in InstanceRow /\ inst.version \in 0..2 /\ inst.version + 1 \in 0..3
<1>1. inst.version \in 0..2
  BY Phases
<1> QED
  BY <1>1 DEF FanoutInv, TypeOK

LEMMA ExpandInvalidKeeps ==
    ASSUME FanoutInv, NEW w \in Workers, ExpandInvalid(w)
    PROVE  FanoutInv'
<1>1. inst.status = "running" /\ token[Entry].status = "pending"
  BY DEF ExpandInvalid, Current
<1>2. PICK v : v = inst.version + 1
  OBVIOUS
<1>3. inst \in InstanceRow /\ v \in 0..3
  BY <1>1, <1>2, RunningVersion
<1>4. inst' = [inst EXCEPT !.status = "failed", !.version = v, !.code = "fanout_input"]
  BY <1>2, <1>3 DEF ExpandInvalid
<1>5. /\ inst' \in InstanceRow /\ inst'.status = "failed"
      /\ inst'.version = v /\ inst'.code = "fanout_input"
  BY <1>3, <1>4 DEF InstanceRow, Codes
<1>6. Entry \in Entry..MaxItems
  BY ConstantsAreNumbers DEF Entry
<1>7. token' = [token EXCEPT ![Entry].status = "consumed"] /\ worker' = [worker EXCEPT ![w] = Idle]
      /\ UNCHANGED <<plan, item, outcome, job, faults>>
  BY DEF ExpandInvalid
<1> QED
  BY <1>1, <1>2, <1>5, <1>6, <1>7, FailedStep

LEMMA FailInstanceKeeps ==
    ASSUME FanoutInv, NEW w \in Workers, FailInstance(w)
    PROVE  FanoutInv'
<1>1. CASE ~Failable(w)
  <2>1. UNCHANGED <<plan, inst, item, outcome, job, token>> /\ faults' \in 0..MaxFaults
        /\ faults <= faults' /\ worker' = [worker EXCEPT ![w] = Idle]
    BY <1>1, WorkersTyped DEF FailInstance
  <2> QED
    BY <2>1, GoesIdle
<1>2. CASE Failable(w)
  <2>1. PICK k : k = worker[w].token
    OBVIOUS
  <2>2. k \in Entry..MaxItems /\ worker[w] \in Transition
    BY <2>1, WorkersTyped
  <2>3. inst.status = "running" /\ token[k].status = "pending" /\ inst.version = worker[w].version
    BY <1>2, <2>1 DEF Failable
  <2>4. worker[w].code # "transition_preparation_failed" /\ worker[w].code \in Codes
    BY <2>1, <2>2, <2>3, WorkersTyped DEF TransitionSound, FailInstance, Transition
  <2>5. PICK v, c : v = inst.version + 1 /\ c = worker[w].code
    OBVIOUS
  <2>6. inst \in InstanceRow /\ v \in 0..3
    BY <2>3, <2>5, RunningVersion
  <2>7. inst' = [inst EXCEPT !.status = "failed", !.version = v, !.code = c]
    BY <1>2, <2>5, <2>6 DEF FailInstance
  <2>8. /\ inst' \in InstanceRow /\ inst'.status = "failed"
        /\ inst'.version = v /\ inst'.code = c
    BY <2>4, <2>5, <2>6, <2>7 DEF InstanceRow
  <2>9. token' = [token EXCEPT ![k].status = "consumed"] /\ worker' = [worker EXCEPT ![w] = Idle]
        /\ UNCHANGED <<plan, item, outcome, job, faults>>
    BY <1>2, <2>1 DEF FailInstance
  <2> QED
    BY <2>2, <2>3, <2>4, <2>5, <2>8, <2>9, FailedStep
<1> QED
  BY <1>1, <1>2

-----------------------------------------------------------------------------
(* The activity consumer ends a job *)

\* A live job belongs to a scheduled item of the open fan-out, or outlives a
\* failed instance.
LEMMA LiveJob ==
    ASSUME FanoutInv, NEW n \in Ordinals, job[n] = "live"
    PROVE  \/ inst.status = "failed" /\ inst.version > 0
           \/ /\ Open /\ inst.version = 1 /\ item[n] = "scheduled"
              /\ token[n].status = "absent" /\ plan.activity = "request"
<1>1. inst.version # 0
  BY DEF FanoutInv, FreshSound
<1>2. ~(inst.status = "running" /\ inst.state # "fanout")
  BY DEF FanoutInv, LeftSound
<1>3. CASE Open /\ inst.version = 1
  <2>1. RowSound(n)
    BY <1>3 DEF FanoutInv, OpenSound
  <2>2. plan.activity \in {"command", "request"}
    BY DEF FanoutInv, TypeOK, Plans
  <2> QED
    BY <1>3, <2>1, <2>2 DEF RowSound
<1> QED
  BY <1>1, <1>2, <1>3, Phases

LEMMA RunJobKeeps ==
    ASSUME FanoutInv, NEW n \in Ordinals, NEW r \in RequestOutcomes, RunJob(n, r)
    PROVE  FanoutInv'
<1>1. /\ \/ inst.status = "failed" /\ inst.version > 0
         \/ /\ Open /\ inst.version = 1 /\ item[n] = "scheduled"
            /\ token[n].status = "absent" /\ plan.activity = "request"
      /\ job[n] = "live"
  BY LiveJob DEF RunJob
<1>2. /\ Ordinals \subseteq Tokens /\ Entry \notin Ordinals /\ Entry \in Tokens
      /\ Entry..MaxItems \subseteq Tokens
  BY ConstantsAreNumbers DEF Ordinals, Tokens, Entry, Onward
<1>3. /\ token \in [Tokens -> EventRow] /\ job \in [Ordinals -> {"none", "parked", "live", "done"}]
      /\ outcome \in [Ordinals -> Failures \cup {"none", "ok"}]
      /\ faults \in 0..MaxFaults /\ inst \in InstanceRow
      /\ worker \in [Workers -> Transition]
  BY DEF FanoutInv, TypeOK
<1>4. PICK e : e = NewToken(0)
  OBVIOUS
<1>5. e \in EventRow /\ e.status = "pending" /\ e.attempts = 0
  BY <1>4, ConstantsAreNumbers DEF NewToken, EventRow
<1>6. token' = [token EXCEPT ![n] = e] /\ job' = [job EXCEPT ![n] = "done"]
      /\ outcome' = [outcome EXCEPT ![n] = r]
  BY <1>4 DEF RunJob
<1>7. UNCHANGED <<plan, inst, item, worker, faults>>
  BY DEF RunJob
<1>8. \A t \in Tokens : token'[t] = IF t = n THEN e ELSE token[t]
  BY <1>3, <1>6
<1>9. \A m \in Ordinals : job'[m] = IF m = n THEN "done" ELSE job[m]
  BY <1>3, <1>6
<1>10. \A m \in Ordinals : outcome'[m] = IF m = n THEN r ELSE outcome[m]
  BY <1>3, <1>6
<1>11. TypeOK'
  <2>1. token' \in [Tokens -> EventRow]
    BY <1>3, <1>5, <1>6
  <2>2. job' \in [Ordinals -> {"none", "parked", "live", "done"}]
    BY <1>3, <1>6
  <2>3. outcome' \in [Ordinals -> Failures \cup {"none", "ok"}]
    BY <1>3, <1>6 DEF RequestOutcomes, Failures
  <2> QED
    BY <1>7, <2>1, <2>2, <2>3 DEF FanoutInv, TypeOK
<1>12. Counted'
  BY <1>3, <1>5, <1>7, <1>8, ConstantsAreNumbers DEF FanoutInv, Counted
<1>13. FreshSound'
  BY <1>1, <1>7, Phases DEF FreshSound
<1>14. EntrySound'
  BY <1>2, <1>7, <1>8 DEF FanoutInv, EntrySound
<1>15. OpenSound'
  <2>1. ASSUME Open', NEW m \in Ordinals PROVE RowSound(m)'
    <3>1. Open
      BY <1>7, <2>1 DEF Open
    <3>2. RowSound(m)
      BY <3>1 DEF FanoutInv, OpenSound
    <3>3. /\ item[n] = "scheduled" /\ token[n].status = "absent" /\ plan.activity = "request"
      BY <1>1, <3>1 DEF Open
    <3>4. CASE m = n
      <4>1. token'[m] = e /\ job'[m] = "done"
        BY <1>2, <1>8, <1>9, <3>4
      <4> QED
        BY <1>5, <1>7, <3>2, <3>3, <3>4, <4>1 DEF RowSound
    <3>5. CASE m # n
      <4>1. token'[m] = token[m] /\ job'[m] = job[m] /\ outcome'[m] = outcome[m]
        BY <1>2, <1>8, <1>9, <1>10, <3>5
      <4> QED
        BY <1>7, <3>2, <4>1 DEF RowSound
    <3> QED
      BY <3>4, <3>5
  <2> QED
    BY <1>7, <2>1 DEF FanoutInv, OpenSound, Open
<1>16. SlotsCounted'
  BY <1>7 DEF FanoutInv, SlotsCounted, Open, Holders, Unfinished
<1>17. LeftSound' /\ CollectedWhole' /\ RouteByOrder'
  BY <1>1, <1>7 DEF LeftSound, CollectedWhole, RouteByOrder, Open
<1>18. NoRaceFails'
  BY <1>7 DEF FanoutInv, NoRaceFails
<1>19. ASSUME NEW x \in Workers PROVE TransitionSound(worker[x])' /\ Coded(worker'[x])
  <2>1. PICK q : q = worker[x]
    OBVIOUS
  <2>2. q \in Transition /\ TransitionSound(q) /\ Coded(q) /\ worker'[x] = q
    BY <1>7, <2>1, WorkersTyped
  <2>3. inst' \in InstanceRow /\ inst'.version >= inst.version
        /\ (inst.status # "running" => inst'.status # "running")
    BY <1>3, <1>7, Phases
  <2>4. ASSUME NEW t \in Entry..MaxItems, token[t].status # "absent"
        PROVE  /\ token'[t].status # "absent"
               /\ inst.status = "running" /\ token[t].status = "consumed" =>
                      token'[t].status = "consumed"
    BY <1>1, <1>2, <1>5, <1>8, <2>4 DEF Open
  <2>5. (q.pc # "idle" =>
              /\ token'[q.token].status # "absent"
              /\ q.version <= inst'.version
              /\ q.pc = "failing" /\ q.code = "transition_preparation_failed" =>
                    \/ inst'.status # "running"
                    \/ q.version # inst'.version
                    \/ token'[q.token].status = "consumed")
    BY <2>2, <2>3, <2>4, StaysSound
  <2> QED
    BY <2>2, <2>5 DEF TransitionSound
<1> QED
  BY <1>11, <1>12, <1>13, <1>14, <1>15, <1>16, <1>17, <1>18, <1>19 DEF FanoutInv

-----------------------------------------------------------------------------
(* The expansion *)

LEMMA ExpandEmptyKeeps ==
    ASSUME FanoutInv, NEW w \in Workers, ExpandEmpty(w)
    PROVE  FanoutInv'
<1>1. token[Entry].status = "pending" /\ plan.length = 0
  BY DEF ExpandEmpty, Current
<1>2. /\ inst.version = 0 /\ inst.status = "running" /\ inst.state = "fanout"
      /\ \A n \in Ordinals : /\ item[n] = "absent" /\ job[n] = "none"
                             /\ outcome[n] = "none" /\ token[n].status = "absent"
  BY <1>1, EntryIsFresh
<1>3. /\ token \in [Tokens -> EventRow] /\ inst \in InstanceRow /\ faults \in 0..MaxFaults
  BY DEF FanoutInv, TypeOK
<1>4. /\ Ordinals \subseteq Tokens /\ Entry \notin Ordinals /\ Entry \in Tokens
      /\ Entry..MaxItems \subseteq Tokens /\ Onward \in Tokens /\ Onward # Entry
      /\ Onward \notin Ordinals /\ Onward \notin Entry..MaxItems
      /\ \A t \in Entry..MaxItems : t = Entry \/ t \in Ordinals
  BY ConstantsAreNumbers DEF Ordinals, Tokens, Entry, Onward
<1>5. PICK e : e = NewToken(inst.version + 1)
  OBVIOUS
<1>6. e \in EventRow /\ e.status = "pending" /\ e.attempts = 0
  BY <1>2, <1>5, ConstantsAreNumbers DEF NewToken, EventRow
<1>7. PICK c : c = [token[Entry] EXCEPT !.status = "consumed"]
  OBVIOUS
<1>8. c \in EventRow /\ c.status = "consumed" /\ c.attempts = token[Entry].attempts
  BY <1>3, <1>4, <1>7 DEF EventRow
<1>9. token' = [token EXCEPT ![Entry].status = "consumed", ![Onward] = e]
  BY <1>5 DEF ExpandEmpty
<1>10. \A t \in Tokens : token'[t] = IF t = Entry THEN c ELSE IF t = Onward THEN e ELSE token[t]
  BY <1>3, <1>4, <1>7, <1>9
<1>11. inst' = [inst EXCEPT !.state = "next", !.version = 1]
  BY <1>2, <1>3 DEF ExpandEmpty
<1>12. /\ inst' \in InstanceRow /\ inst'.state = "next" /\ inst'.version = 1
       /\ inst'.status = "running" /\ inst'.code = inst.code
  <2>1. 1 \in 0..3 /\ "next" \in States
    BY DEF States
  <2> QED
    BY <1>2, <1>3, <1>11, <2>1 DEF InstanceRow
<1>13. UNCHANGED <<plan, item, outcome, job, faults>> /\ worker' = [worker EXCEPT ![w] = Idle]
  BY DEF ExpandEmpty
<1>14. /\ worker' \in [Workers -> Transition]
       /\ \A x \in Workers : Coded(worker'[x])
       /\ \A x \in Workers : TransitionSound(worker[x])'
  <2>1. ASSUME NEW t \in Entry..MaxItems, token[t].status # "absent"
        PROVE  token'[t].status = "consumed"
    <3>1. t = Entry
      BY <1>2, <1>4, <2>1
    <3> QED
      BY <1>4, <1>8, <1>10, <3>1
  <2>2. inst'.version >= inst.version
    BY <1>2, <1>12
  <2> QED
    BY <1>2, <1>12, <1>13, <2>1, <2>2, IdleIsSound, OneWorkerMoves
<1>15. TypeOK'
  <2>1. token' \in [Tokens -> EventRow]
    BY <1>3, <1>6, <1>8, <1>9, <1>10
  <2> QED
    BY <1>12, <1>13, <1>14, <2>1 DEF FanoutInv, TypeOK
<1>16. Counted'
  BY <1>3, <1>4, <1>6, <1>8, <1>10, <1>13, ConstantsAreNumbers DEF FanoutInv, Counted
<1>17. FreshSound' /\ OpenSound' /\ SlotsCounted'
  BY <1>12 DEF FreshSound, OpenSound, SlotsCounted, Open
<1>18. EntrySound'
  BY <1>4, <1>8, <1>10 DEF EntrySound
<1>19. LeftSound'
  <2>1. \A n \in Ordinals : token'[n] = token[n]
    BY <1>4, <1>10
  <2> QED
    BY <1>2, <1>12, <1>13, <2>1 DEF LeftSound
<1>20. CollectedWhole'
  <2>1. 1..plan.length = {}
    BY <1>1
  <2> QED
    BY <1>2, <1>13, <2>1 DEF CollectedWhole
<1>21. RouteByOrder'
  BY <1>2, <1>12, <1>13 DEF RouteByOrder
<1>22. NoRaceFails'
  BY <1>12 DEF FanoutInv, NoRaceFails
<1> QED
  BY <1>14, <1>15, <1>16, <1>17, <1>18, <1>19, <1>20, <1>21, <1>22 DEF FanoutInv

LEMMA ExpandKeeps ==
    ASSUME FanoutInv, NEW w \in Workers, Expand(w)
    PROVE  FanoutInv'
<1>1. /\ token[Entry].status = "pending" /\ plan.length \in 1..MaxItems
      /\ worker[w].version = inst.version
  BY DEF Expand, Current
<1>2. /\ inst.version = 0 /\ inst.status = "running" /\ inst.state = "fanout"
      /\ \A n \in Ordinals : /\ item[n] = "absent" /\ job[n] = "none"
                             /\ outcome[n] = "none" /\ token[n].status = "absent"
  BY <1>1, EntryIsFresh
<1>3. /\ token \in [Tokens -> EventRow] /\ inst \in InstanceRow /\ faults \in 0..MaxFaults
      /\ plan \in Plans
  BY DEF FanoutInv, TypeOK
<1>4. /\ Ordinals \subseteq Tokens /\ Entry \notin Ordinals /\ Entry \in Tokens
      /\ Entry..MaxItems \subseteq Tokens
      /\ \A t \in Entry..MaxItems : t = Entry \/ t \in Ordinals
      /\ Ordinals = 1..MaxItems /\ Tokens \subseteq Nat
  BY ConstantsAreNumbers DEF Ordinals, Tokens, Entry, Onward
<1>5. PICK len, con, k : len = plan.length /\ con = plan.concurrency /\ k = Scheduled
  OBVIOUS
<1>6. len \in 1..MaxItems /\ len \in Nat /\ con \in Nat /\ con > 0 /\ con \in 1..MaxConcurrency
  BY <1>1, <1>3, <1>5, ConstantsAreNumbers DEF Plans
<1>7. k = IF len <= con THEN len ELSE con
  BY <1>5, <1>6, MinOfTwo DEF Scheduled
<1>8. k \in Nat /\ k <= len /\ k > 0
  BY <1>6, <1>7
<1>9. PICK e : e = NewToken(worker[w].version + 1)
  OBVIOUS
<1>10. e \in EventRow /\ e.status = "pending" /\ e.attempts = 0 /\ e.version = 1
  BY <1>1, <1>2, <1>9, ConstantsAreNumbers DEF NewToken, EventRow
<1>11. PICK c : c = [token[Entry] EXCEPT !.status = "consumed"]
  OBVIOUS
<1>12. c \in EventRow /\ c.status = "consumed" /\ c.attempts = token[Entry].attempts
  BY <1>3, <1>4, <1>11 DEF EventRow
<1>13. NoToken \in EventRow /\ NoToken.status = "absent" /\ NoToken.attempts = 0
  BY ConstantsAreNumbers DEF NoToken, EventRow
<1>14. token' = [t \in Tokens |->
                   IF t = Entry THEN c
                   ELSE IF t <= k /\ plan.activity = "command" THEN e ELSE NoToken]
  BY <1>5, <1>9, <1>11 DEF Expand
<1>15. \A t \in Tokens : token'[t] = IF t = Entry THEN c
                             ELSE IF t <= k /\ plan.activity = "command" THEN e ELSE NoToken
  BY <1>14
<1>16. item' = [n \in Ordinals |->
                   IF n > len THEN "absent" ELSE IF n <= k THEN "scheduled" ELSE "pending"]
  BY <1>5 DEF Expand
<1>17. job' = [n \in Ordinals |->
                   IF plan.activity = "command" \/ n > len THEN "none"
                   ELSE IF n <= k THEN "live" ELSE "parked"]
  BY <1>5 DEF Expand
<1>18. inst' = [inst EXCEPT !.version = 1]
  BY <1>2, <1>3 DEF Expand
<1>19. /\ inst' \in InstanceRow /\ inst'.state = "fanout" /\ inst'.version = 1
       /\ inst'.status = "running" /\ inst'.code = inst.code
  BY <1>2, <1>3, <1>18 DEF InstanceRow
<1>20. UNCHANGED <<plan, outcome, faults>> /\ worker' = [worker EXCEPT ![w] = Idle]
  BY DEF Expand
<1>21. /\ worker' \in [Workers -> Transition]
       /\ \A x \in Workers : Coded(worker'[x])
       /\ \A x \in Workers : TransitionSound(worker[x])'
  <2>1. ASSUME NEW t \in Entry..MaxItems, token[t].status # "absent"
        PROVE  token'[t].status = "consumed"
    <3>1. t = Entry
      BY <1>2, <1>4, <2>1
    <3> QED
      BY <1>4, <1>12, <1>15, <3>1
  <2>2. inst'.version >= inst.version
    BY <1>2, <1>19
  <2> QED
    BY <1>2, <1>19, <1>20, <2>1, <2>2, IdleIsSound, OneWorkerMoves
<1>22. TypeOK'
  <2>1. token' \in [Tokens -> EventRow]
    BY <1>10, <1>12, <1>13, <1>14
  <2>2. item' \in [Ordinals -> {"absent", "pending", "scheduled", "succeeded", "failed"}]
    BY <1>16
  <2>3. job' \in [Ordinals -> {"none", "parked", "live", "done"}]
    BY <1>17
  <2> QED
    BY <1>19, <1>20, <1>21, <2>1, <2>2, <2>3 DEF FanoutInv, TypeOK
<1>23. Counted'
  BY <1>3, <1>4, <1>10, <1>12, <1>13, <1>15, <1>20, ConstantsAreNumbers DEF FanoutInv, Counted
<1>24. FreshSound' /\ LeftSound' /\ CollectedWhole' /\ RouteByOrder'
  BY <1>19 DEF FreshSound, LeftSound, CollectedWhole, RouteByOrder
<1>25. EntrySound'
  BY <1>4, <1>12, <1>15 DEF EntrySound
<1>26. OpenSound'
  <2>1. ASSUME NEW n \in Ordinals PROVE RowSound(n)'
    <3>1. n \in Nat /\ n \in Tokens /\ n # Entry
      BY <1>4
    <3>2. token'[n] = IF n <= k /\ plan.activity = "command" THEN e ELSE NoToken
      BY <1>15, <3>1
    <3>3. item'[n] = IF n > len THEN "absent" ELSE IF n <= k THEN "scheduled" ELSE "pending"
      BY <1>16
    <3>4. job'[n] = IF plan.activity = "command" \/ n > len THEN "none"
                    ELSE IF n <= k THEN "live" ELSE "parked"
      BY <1>17
    <3>5. outcome'[n] = "none" /\ plan' = plan /\ plan.activity \in {"command", "request"}
      BY <1>2, <1>3, <1>20 DEF Plans
    <3>6. n <= k => ~(n > len)
      BY <1>6, <1>8, <3>1
    <3> QED
      BY <1>5, <1>10, <1>13, <1>19, <3>2, <3>3, <3>4, <3>5, <3>6 DEF RowSound
  <2> QED
    BY <1>1, <1>19, <1>20, <2>1 DEF OpenSound
<1>27. SlotsCounted'
  <2>1. ASSUME NEW n \in Ordinals
        PROVE  /\ item'[n] = "scheduled" <=> n \in 1..k
               /\ item'[n] \in {"pending", "scheduled"} <=> n \in 1..len
    <3>1. item'[n] = IF n > len THEN "absent" ELSE IF n <= k THEN "scheduled" ELSE "pending"
      BY <1>16
    <3>2. n \in Nat /\ n >= 1 /\ (n <= k => n <= len)
      BY <1>4, <1>6, <1>8
    <3> QED
      BY <1>6, <1>8, <3>1, <3>2
  <2>2. 1..k \subseteq Ordinals /\ 1..len \subseteq Ordinals
    BY <1>4, <1>6, <1>8, ConstantsAreNumbers
  <2>3. Holders' = 1..k
    BY <2>1, <2>2 DEF Holders
  <2>4. Unfinished(item') = 1..len
    BY <2>1, <2>2 DEF Unfinished
  <2>5. Cardinality(1..k) = k /\ Cardinality(1..len) = len
    BY <1>6, <1>8, FS_Interval
  <2>6. Min({con, len}) = k
    BY <1>6, <1>7, MinOfTwo
  <2> QED
    BY <1>5, <1>20, <2>3, <2>4, <2>5, <2>6 DEF SlotsCounted
<1>28. NoRaceFails'
  BY <1>19 DEF FanoutInv, NoRaceFails
<1> QED
  BY <1>21, <1>22, <1>23, <1>24, <1>25, <1>26, <1>27, <1>28 DEF FanoutInv

-----------------------------------------------------------------------------
(* The completion of an item *)

ItemStatus == {"absent", "pending", "scheduled", "succeeded", "failed"}

\* The parts of a completion under names: the item, the rows with it ended, the
\* items that take its slot, and whether it was the last.
Completion(w, o, n, ended, next, last) ==
    /\ n \in Ordinals
    /\ ended = [item EXCEPT ![n] = IF o = "ok" THEN "succeeded" ELSE "failed"]
    /\ next = Activated(ended, o)
    /\ last <=> Unfinished(ended) = {}
    /\ item' = [m \in Ordinals |-> IF m \in next THEN "scheduled" ELSE ended[m]]
    /\ outcome' = [outcome EXCEPT ![n] = o]
    /\ job' = [m \in Ordinals |->
                  IF m \in next /\ plan.activity = "request" THEN "live" ELSE job[m]]
    /\ token' = [t \in Tokens |->
           CASE t = n -> [token[t] EXCEPT !.status = "consumed"]
             [] t \in next /\ plan.activity = "command" -> NewToken(inst.version)
             [] t = Onward /\ last -> NewToken(inst.version + 1)
             [] OTHER -> token[t]]
    /\ inst' = IF last THEN [inst EXCEPT !.state = Collected([outcome EXCEPT ![n] = o]),
                                         !.version = @ + 1]
               ELSE inst
    /\ worker' = [worker EXCEPT ![w] = Idle]
    /\ UNCHANGED <<plan, faults>>
    /\ Open /\ inst.version = 1 /\ item[n] = "scheduled" /\ token[n].status = "pending"
    /\ o \in Failures \cup {"ok"}
    /\ plan.length \in 1..MaxItems
    /\ \A m \in Ordinals : RowSound(m)

LEMMA CompletionNamed ==
    ASSUME FanoutInv, NEW w \in Workers, NEW o \in CommandOutcomes \cup RequestOutcomes,
           Complete(w, o)
    PROVE  \E n, ended, next : \E last \in BOOLEAN : Completion(w, o, n, ended, next, last)
<1>1. PICK n : n = worker[w].token
  OBVIOUS
<1>2. PICK ended : ended = [item EXCEPT ![n] = IF o = "ok" THEN "succeeded" ELSE "failed"]
  OBVIOUS
<1>3. PICK next : next = Activated(ended, o)
  OBVIOUS
<1>4. PICK last \in BOOLEAN : last = (Unfinished(ended) = {})
  OBVIOUS
<1>5. /\ n \in Ordinals /\ item[n] = "scheduled" /\ token[n].status = "pending"
      /\ inst.status = "running" /\ worker[w].version = inst.version
  BY <1>1 DEF Complete, Current
<1>6. Open /\ inst.version = 1
  BY <1>5, PendingIsOpen
<1>7. plan.length \in 1..MaxItems /\ \A m \in Ordinals : RowSound(m)
  BY <1>6 DEF FanoutInv, OpenSound
<1>8. o \in Failures \cup {"ok"}
  BY DEF CommandOutcomes, RequestOutcomes, Failures
<1>9. /\ item' = [m \in Ordinals |-> IF m \in next THEN "scheduled" ELSE ended[m]]
      /\ outcome' = [outcome EXCEPT ![n] = o]
      /\ job' = [m \in Ordinals |->
                  IF m \in next /\ plan.activity = "request" THEN "live" ELSE job[m]]
      /\ worker' = [worker EXCEPT ![w] = Idle]
      /\ UNCHANGED <<plan, faults>>
  BY <1>1, <1>2, <1>3 DEF Complete
<1>10. token' = [t \in Tokens |->
           CASE t = n -> [token[t] EXCEPT !.status = "consumed"]
             [] t \in next /\ plan.activity = "command" -> NewToken(inst.version)
             [] t = Onward /\ last -> NewToken(inst.version + 1)
             [] OTHER -> token[t]]
  BY <1>1, <1>2, <1>3, <1>4, <1>5 DEF Complete, Remaining
<1>11. inst' = IF last THEN [inst EXCEPT !.state = Collected([outcome EXCEPT ![n] = o]),
                                         !.version = @ + 1]
               ELSE inst
  BY <1>1, <1>2, <1>4 DEF Complete, Remaining
<1>12. Completion(w, o, n, ended, next, last)
  BY <1>2, <1>3, <1>4, <1>5, <1>6, <1>7, <1>8, <1>9, <1>10, <1>11 DEF Completion
<1> QED
  BY <1>12

\* Which items wait, hold a slot and are unfinished after the completion.
LEMMA CompletionSets ==
    ASSUME FanoutInv, NEW w, NEW o, NEW n, NEW ended, NEW next, NEW last \in BOOLEAN,
           Completion(w, o, n, ended, next, last)
    PROVE  /\ \A m \in Ordinals :
                 ended[m] = IF m = n THEN (IF o = "ok" THEN "succeeded" ELSE "failed")
                            ELSE item[m]
           /\ next \subseteq {m \in Ordinals : item[m] = "pending"} /\ n \notin next
           /\ next = {} => \A m \in Ordinals : item[m] # "pending"
           /\ \A a \in next, b \in next : a = b
           /\ Unfinished(item') = Unfinished(item) \ {n}
           /\ Holders' = (Holders \ {n}) \cup next
           /\ last => next = {} /\ \A m \in Ordinals : m # n => item[m] \notin {"pending", "scheduled"}
           /\ \A m \in Ordinals : item'[m] = IF m \in next THEN "scheduled" ELSE ended[m]
           /\ item' \in [Ordinals -> ItemStatus]
<1>1. item \in [Ordinals -> ItemStatus]
  BY DEF FanoutInv, TypeOK, ItemStatus
<1>2. /\ n \in Ordinals /\ item[n] = "scheduled"
      /\ ended = [item EXCEPT ![n] = IF o = "ok" THEN "succeeded" ELSE "failed"]
      /\ next = Activated(ended, o)
      /\ last <=> Unfinished(ended) = {}
      /\ item' = [m \in Ordinals |-> IF m \in next THEN "scheduled" ELSE ended[m]]
  BY DEF Completion
<1>3. \A m \in Ordinals :
          ended[m] = IF m = n THEN (IF o = "ok" THEN "succeeded" ELSE "failed") ELSE item[m]
  BY <1>1, <1>2
<1>4. PICK W : W = {m \in Ordinals : item[m] = "pending"}
  OBVIOUS
<1>5. W = {m \in Ordinals : ended[m] = "pending"} /\ n \notin W /\ W \subseteq Nat
  BY <1>2, <1>3, <1>4 DEF Ordinals
<1>6. next = IF W = {} THEN {} ELSE {Lowest(W)}
  BY <1>2, <1>5 DEF Activated
<1>7. next \subseteq W
  BY <1>5, <1>6, LowestFacts
<1>8. \A m \in Ordinals : item'[m] = IF m \in next THEN "scheduled" ELSE ended[m]
  BY <1>2
<1>9. Unfinished(item') = Unfinished(item) \ {n}
  BY <1>3, <1>4, <1>5, <1>7, <1>8 DEF Unfinished
<1>10. Holders' = (Holders \ {n}) \cup next
  BY <1>3, <1>4, <1>5, <1>7, <1>8 DEF Holders
<1>11. ASSUME last
       PROVE  next = {} /\ \A m \in Ordinals : m # n => item[m] \notin {"pending", "scheduled"}
  <2>1. \A m \in Ordinals : ended[m] \notin {"pending", "scheduled"}
    BY <1>2, <1>11 DEF Unfinished
  <2>2. W = {}
    BY <1>5, <2>1
  <2> QED
    BY <1>3, <1>6, <2>1, <2>2
<1>12. item' \in [Ordinals -> ItemStatus]
  BY <1>1, <1>2, <1>3 DEF ItemStatus
<1> QED
  BY <1>3, <1>4, <1>5, <1>6, <1>7, <1>8, <1>9, <1>10, <1>11, <1>12

LEMMA CompletionEvents ==
    ASSUME FanoutInv, NEW w, NEW o, NEW n, NEW ended, NEW next, NEW last \in BOOLEAN,
           Completion(w, o, n, ended, next, last)
    PROVE  /\ token' \in [Tokens -> EventRow]
           /\ Counted'
           /\ token'[n].status = "consumed"
           /\ \A m \in next : IF plan.activity = "command"
                              THEN token'[m].status = "pending" /\ token'[m].version = 1
                              ELSE token'[m] = token[m]
           /\ \A t \in Entry..MaxItems : t # n /\ t \notin next => token'[t] = token[t]
<1>1. /\ token \in [Tokens -> EventRow] /\ Counted /\ faults \in 0..MaxFaults
  BY DEF FanoutInv, TypeOK
<1>2. /\ n \in Ordinals /\ inst.version = 1 /\ faults' = faults
      /\ token' = [t \in Tokens |->
           CASE t = n -> [token[t] EXCEPT !.status = "consumed"]
             [] t \in next /\ plan.activity = "command" -> NewToken(inst.version)
             [] t = Onward /\ last -> NewToken(inst.version + 1)
             [] OTHER -> token[t]]
  BY DEF Completion
<1>3. next \subseteq Ordinals /\ n \notin next
  BY CompletionSets
<1>4. /\ Ordinals \subseteq Tokens /\ Onward \notin Ordinals
      /\ Entry..MaxItems \subseteq Tokens /\ Onward \notin Entry..MaxItems
  BY ConstantsAreNumbers DEF Ordinals, Tokens, Entry, Onward
<1>5. PICK e, f, c : /\ e = NewToken(inst.version) /\ f = NewToken(inst.version + 1)
                     /\ c = [token[n] EXCEPT !.status = "consumed"]
  OBVIOUS
<1>6. /\ e \in EventRow /\ e.status = "pending" /\ e.attempts = 0 /\ e.version = 1
  BY <1>2, <1>5, ConstantsAreNumbers DEF NewToken, EventRow
<1>7. f \in EventRow /\ f.attempts = 0
  BY <1>2, <1>5, ConstantsAreNumbers DEF NewToken, EventRow
<1>8. c \in EventRow /\ c.status = "consumed" /\ c.attempts = token[n].attempts
  BY <1>1, <1>2, <1>4, <1>5 DEF EventRow
<1>9. ASSUME NEW t \in Tokens
      PROVE  token'[t] = IF t = n THEN c
                         ELSE IF t \in next /\ plan.activity = "command" THEN e
                         ELSE IF t = Onward /\ last THEN f ELSE token[t]
  <2>1. token'[t] = CASE t = n -> [token[t] EXCEPT !.status = "consumed"]
                      [] t \in next /\ plan.activity = "command" -> e
                      [] t = Onward /\ last -> f
                      [] OTHER -> token[t]
    BY <1>2, <1>5
  <2> QED
    BY <1>2, <1>3, <1>4, <1>5, <2>1
<1>10. token' \in [Tokens -> EventRow]
  BY <1>1, <1>2, <1>6, <1>7, <1>8, <1>9
<1>11. Counted'
  <2>1. ASSUME NEW t \in Tokens PROVE token'[t].attempts <= faults
    <3>1. token[t].attempts <= faults /\ 0 <= faults
      BY <1>1, ConstantsAreNumbers DEF Counted
    <3>2. token'[t].attempts \in {0, token[t].attempts}
      BY <1>6, <1>7, <1>8, <1>9
    <3> QED
      BY <3>1, <3>2
  <2> QED
    BY <1>2, <2>1 DEF Counted
<1> QED
  BY <1>2, <1>3, <1>4, <1>6, <1>8, <1>9, <1>10, <1>11

LEMMA CompletionOutcomes ==
    ASSUME FanoutInv, NEW w, NEW o, NEW n, NEW ended, NEW next, NEW last \in BOOLEAN,
           Completion(w, o, n, ended, next, last)
    PROVE  /\ outcome' \in [Ordinals -> Failures \cup {"none", "ok"}]
           /\ job' \in [Ordinals -> {"none", "parked", "live", "done"}]
           /\ \A m \in Ordinals :
                 /\ outcome'[m] = IF m = n THEN o ELSE outcome[m]
                 /\ job'[m] = IF m \in next /\ plan.activity = "request" THEN "live" ELSE job[m]
           /\ outcome' = [outcome EXCEPT ![n] = o]
<1>1. /\ outcome \in [Ordinals -> Failures \cup {"none", "ok"}]
      /\ job \in [Ordinals -> {"none", "parked", "live", "done"}]
  BY DEF FanoutInv, TypeOK
<1>2. /\ n \in Ordinals /\ o \in Failures \cup {"ok"}
      /\ outcome' = [outcome EXCEPT ![n] = o]
      /\ job' = [m \in Ordinals |->
                  IF m \in next /\ plan.activity = "request" THEN "live" ELSE job[m]]
  BY DEF Completion
<1> QED
  BY <1>1, <1>2

LEMMA CompletionRows ==
    ASSUME FanoutInv, NEW w, NEW o, NEW n, NEW ended, NEW next, NEW last \in BOOLEAN,
           Completion(w, o, n, ended, next, last), ~last, NEW m \in Ordinals
    PROVE  RowSound(m)'
<1>1. /\ n \in Ordinals /\ item[n] = "scheduled" /\ token[n].status = "pending"
      /\ inst' = inst /\ plan' = plan /\ inst.version = 1
      /\ RowSound(m) /\ o \in Failures \cup {"ok"}
  BY DEF Completion
<1>2. /\ plan.activity \in {"command", "request"}
  BY DEF FanoutInv, TypeOK, Plans
<1>3. /\ item'[m] = IF m \in next THEN "scheduled" ELSE ended[m]
      /\ ended[m] = IF m = n THEN (IF o = "ok" THEN "succeeded" ELSE "failed") ELSE item[m]
      /\ n \notin next /\ (m \in next => item[m] = "pending")
  BY CompletionSets
<1>4. /\ outcome'[m] = IF m = n THEN o ELSE outcome[m]
      /\ job'[m] = IF m \in next /\ plan.activity = "request" THEN "live" ELSE job[m]
  BY CompletionOutcomes
<1>5. m \in Entry..MaxItems
  BY ConstantsAreNumbers DEF Ordinals, Entry
<1>6. CASE m = n
  <2>1. token'[m].status = "consumed"
    BY <1>6, CompletionEvents
  <2>2. item'[m] = (IF o = "ok" THEN "succeeded" ELSE "failed") /\ job'[m] = job[m]
        /\ outcome'[m] = o
    BY <1>3, <1>4, <1>6
  <2> QED
    BY <1>1, <1>2, <1>6, <2>1, <2>2 DEF RowSound
<1>7. CASE m # n /\ m \in next
  <2>1. IF plan.activity = "command"
        THEN token'[m].status = "pending" /\ token'[m].version = 1
        ELSE token'[m] = token[m]
    BY <1>7, CompletionEvents
  <2>2. item'[m] = "scheduled" /\ item[m] = "pending" /\ outcome'[m] = outcome[m]
        /\ job'[m] = IF plan.activity = "request" THEN "live" ELSE job[m]
    BY <1>3, <1>4, <1>7
  <2> QED
    BY <1>1, <1>2, <2>1, <2>2 DEF RowSound
<1>8. CASE m # n /\ m \notin next
  <2>1. token'[m] = token[m]
    BY <1>5, <1>8, CompletionEvents
  <2>2. item'[m] = item[m] /\ job'[m] = job[m] /\ outcome'[m] = outcome[m]
    BY <1>3, <1>4, <1>8
  <2> QED
    BY <1>1, <2>1, <2>2 DEF RowSound
<1> QED
  BY <1>6, <1>7, <1>8

\* After the last completion an item failed exactly if its outcome is a failure.
LEMMA LastCompletion ==
    ASSUME FanoutInv, NEW w, NEW o, NEW n, NEW ended, NEW next, NEW last \in BOOLEAN,
           Completion(w, o, n, ended, next, last), NEW m \in Ordinals
    PROVE  last => /\ token'[m].status # "pending" /\ job'[m] # "live"
                   /\ item'[m] \in {"succeeded", "failed"} <=> m \in 1..plan.length
                   /\ item'[m] = "failed" <=> outcome'[m] \in Failures
<1>1. /\ n \in Ordinals /\ item[n] = "scheduled" /\ token[n].status = "pending"
      /\ plan.length \in 1..MaxItems
      /\ RowSound(m) /\ RowSound(n) /\ o \in Failures \cup {"ok"}
  BY DEF Completion
<1>2. /\ item'[m] = IF m \in next THEN "scheduled" ELSE ended[m]
      /\ last => next = {}
      /\ ended[m] = IF m = n THEN (IF o = "ok" THEN "succeeded" ELSE "failed") ELSE item[m]
      /\ last => (m # n => item[m] \notin {"pending", "scheduled"})
  BY CompletionSets
<1>3. /\ outcome'[m] = IF m = n THEN o ELSE outcome[m]
      /\ job'[m] = IF m \in next /\ plan.activity = "request" THEN "live" ELSE job[m]
  BY CompletionOutcomes
<1>4. m \in Entry..MaxItems /\ m \in Nat /\ m >= 1
  BY ConstantsAreNumbers DEF Ordinals, Entry
<1>5. /\ m = n => token'[m].status = "consumed"
      /\ m # n /\ m \notin next => token'[m] = token[m]
  BY <1>4, CompletionEvents
<1>6. m \in 1..plan.length <=> ~(m > plan.length)
  BY <1>1, <1>4, ConstantsAreNumbers
<1>7. "ok" \notin Failures /\ "none" \notin Failures
  BY DEF Failures
<1>8. HAVE last
<1>9. item'[m] = ended[m] /\ job'[m] = job[m] /\ m \notin next
  BY <1>2, <1>3, <1>8
<1>10. CASE m = n
  BY <1>1, <1>2, <1>3, <1>5, <1>6, <1>7, <1>9, <1>10 DEF RowSound
<1>11. CASE m # n
  <2>1. item[m] \in ItemStatus
    BY DEF FanoutInv, TypeOK, ItemStatus
  <2>2. item[m] \in {"absent", "succeeded", "failed"}
    BY <1>2, <1>8, <1>11, <2>1 DEF ItemStatus
  <2> QED
    BY <1>1, <1>2, <1>3, <1>5, <1>6, <1>7, <1>9, <1>11, <2>2 DEF RowSound
<1> QED
  BY <1>10, <1>11

LEMMA CompletionInstance ==
    ASSUME FanoutInv, NEW w, NEW o, NEW n, NEW ended, NEW next, NEW last \in BOOLEAN,
           Completion(w, o, n, ended, next, last),
           NEW F, F = {m \in Ordinals : item'[m] = "failed"}
    PROVE  last =>
             /\ inst' \in InstanceRow /\ inst'.version = 2 /\ inst'.status = "running"
             /\ inst'.code = inst.code /\ inst'.state # "fanout"
             /\ inst'.state = IF \E m \in F : outcome'[m] = "ambiguous" THEN "on_ambiguous"
                              ELSE IF F = {} THEN "next" ELSE RouteOf(outcome'[Lowest(F)])
<1>1. PICK results : results = outcome'
  OBVIOUS
<1>2. PICK to : to = Collected(results)
  OBVIOUS
<1>3. results = [outcome EXCEPT ![n] = o]
  BY <1>1 DEF Completion
<1>4. /\ inst.version = 1 /\ inst.status = "running" /\ inst \in InstanceRow
      /\ last => inst' = [inst EXCEPT !.state = to, !.version = @ + 1]
  BY <1>2, <1>3 DEF Completion, Open, FanoutInv, TypeOK
<1>5. last => \A m \in Ordinals : item'[m] = "failed" <=> outcome'[m] \in Failures
  BY LastCompletion
<1>6. HAVE last
<1>7. inst' = [inst EXCEPT !.state = to, !.version = 2]
  BY <1>4, <1>6
<1>8. F = {m \in Ordinals : results[m] \in Failures}
  BY <1>1, <1>5, <1>6
<1>9. to = IF \E m \in F : results[m] = "ambiguous" THEN "on_ambiguous"
           ELSE IF F = {} THEN "next" ELSE RouteOf(results[Lowest(F)])
  BY <1>2, <1>8, CollectedIs
<1>10. to \in States /\ to # "fanout"
  BY <1>9 DEF States, RouteOf
<1>11. 2 \in 0..3
  OBVIOUS
<1>12. /\ inst' \in InstanceRow /\ inst'.version = 2 /\ inst'.status = "running"
       /\ inst'.code = inst.code /\ inst'.state = to
  BY <1>4, <1>7, <1>10, <1>11 DEF InstanceRow
<1> QED
  BY <1>1, <1>9, <1>10, <1>12

LEMMA CompletionSlots ==
    ASSUME FanoutInv, NEW w, NEW o, NEW n, NEW ended, NEW next, NEW last \in BOOLEAN,
           Completion(w, o, n, ended, next, last)
    PROVE  SlotsCounted'
<1>1. PICK U, S, c : U = Unfinished(item) /\ S = Holders /\ c = plan.concurrency
  OBVIOUS
<1>2. Open /\ plan' = plan /\ n \in Ordinals /\ item[n] = "scheduled"
  BY DEF Completion
<1>3. Cardinality(S) = Min({c, Cardinality(U)})
  BY <1>1, <1>2 DEF FanoutInv, SlotsCounted
<1>4. S \subseteq U /\ n \in S /\ U \subseteq 1..MaxItems
  BY <1>1, <1>2 DEF Holders, Unfinished, Ordinals
<1>5. IsFiniteSet(U)
  <2>1. IsFiniteSet(1..MaxItems)
    BY FS_Interval, ConstantsAreNumbers
  <2> QED
    BY <1>4, <2>1, FS_Subset
<1>6. c \in Nat
  BY <1>1, ConstantsAreNumbers DEF FanoutInv, TypeOK, Plans
<1>7. /\ next \subseteq {m \in Ordinals : item[m] = "pending"}
      /\ next = {} => \A m \in Ordinals : item[m] # "pending"
      /\ \A a \in next, b \in next : a = b
      /\ Unfinished(item') = U \ {n} /\ Holders' = (S \ {n}) \cup next
  BY <1>1, CompletionSets
<1>8. next \subseteq U \ S /\ (next = {} => U = S)
  BY <1>1, <1>7 DEF Holders, Unfinished
<1>9. \A a \in next, b \in next : a = b
  BY <1>7
<1>10. S \subseteq U /\ n \in S /\ next \subseteq U \ S /\ (next = {} => U = S)
  BY <1>4, <1>8
<1>11. Cardinality((S \ {n}) \cup next) = Min({c, Cardinality(U \ {n})})
  BY <1>3, <1>5, <1>6, <1>9, <1>10, SlotPassedOn
<1> QED
  BY <1>1, <1>2, <1>7, <1>11 DEF SlotsCounted

LEMMA CompleteKeeps ==
    ASSUME FanoutInv, NEW w \in Workers, NEW o \in CommandOutcomes \cup RequestOutcomes,
           Complete(w, o)
    PROVE  FanoutInv'
<1>1. PICK n, ended, next : \E last \in BOOLEAN : Completion(w, o, n, ended, next, last)
  BY CompletionNamed
<1>2. PICK last \in BOOLEAN : Completion(w, o, n, ended, next, last)
  BY <1>1
<1>3. PICK F : F = {m \in Ordinals : item'[m] = "failed"}
  OBVIOUS
<1>4. /\ n \in Ordinals /\ inst.version = 1 /\ inst.status = "running"
      /\ inst.state = "fanout" /\ inst \in InstanceRow
      /\ ~last => inst' = inst
      /\ worker' = [worker EXCEPT ![w] = Idle] /\ UNCHANGED <<plan, faults>>
      /\ plan.length \in 1..MaxItems /\ token[n].status = "pending"
      /\ \A m \in Ordinals : RowSound(m)
  BY <1>2 DEF Completion, Open, FanoutInv, TypeOK
<1>5. last =>
        /\ inst' \in InstanceRow /\ inst'.version = 2 /\ inst'.status = "running"
        /\ inst'.code = inst.code /\ inst'.state # "fanout"
        /\ inst'.state = IF \E m \in F : outcome'[m] = "ambiguous" THEN "on_ambiguous"
                         ELSE IF F = {} THEN "next" ELSE RouteOf(outcome'[Lowest(F)])
  BY <1>2, <1>3, CompletionInstance
<1>6. last => \A m \in Ordinals :
                 /\ token'[m].status # "pending" /\ job'[m] # "live"
                 /\ item'[m] \in {"succeeded", "failed"} <=> m \in 1..plan.length
  BY <1>2, LastCompletion
<1>7. /\ inst' \in InstanceRow /\ inst'.version \in 1..2 /\ inst'.status = "running"
      /\ inst'.code = inst.code
  BY <1>4, <1>5
<1>8. /\ token' \in [Tokens -> EventRow]
      /\ Counted'
      /\ token'[n].status = "consumed"
      /\ \A m \in next : IF plan.activity = "command"
                         THEN token'[m].status = "pending" /\ token'[m].version = 1
                         ELSE token'[m] = token[m]
      /\ \A t \in Entry..MaxItems : t # n /\ t \notin next => token'[t] = token[t]
  BY <1>2, CompletionEvents
<1>9. next \subseteq {m \in Ordinals : item[m] = "pending"}
  BY <1>2, CompletionSets
<1>10. /\ worker' \in [Workers -> Transition]
       /\ \A x \in Workers : Coded(worker'[x])
       /\ \A x \in Workers : TransitionSound(worker[x])'
  <2>1. ASSUME NEW t \in Entry..MaxItems, token[t].status # "absent"
        PROVE  /\ token'[t].status # "absent"
               /\ token[t].status = "consumed" => token'[t].status = "consumed"
    <3>1. t \notin next
      BY <1>4, <1>9, <2>1 DEF RowSound
    <3> QED
      BY <1>4, <1>8, <2>1, <3>1
  <2>2. inst'.version >= inst.version
    BY <1>4, <1>7
  <2> QED
    BY <1>4, <1>7, <2>1, <2>2, IdleIsSound, OneWorkerMoves
<1>11. TypeOK'
  <2>1. item' \in [Ordinals -> ItemStatus]
    BY <1>2, CompletionSets
  <2>2. /\ outcome' \in [Ordinals -> Failures \cup {"none", "ok"}]
        /\ job' \in [Ordinals -> {"none", "parked", "live", "done"}]
    BY <1>2, CompletionOutcomes
  <2> QED
    BY <1>4, <1>7, <1>8, <1>10, <2>1, <2>2 DEF FanoutInv, TypeOK, ItemStatus
<1>12. FreshSound'
  BY <1>7 DEF FreshSound
<1>13. EntrySound'
  <2>1. Entry # n /\ Entry \notin next /\ Entry \in Entry..MaxItems
    BY <1>4, <1>9, ConstantsAreNumbers DEF Entry, Ordinals
  <2>2. token'[Entry] = token[Entry]
    BY <1>8, <2>1
  <2> QED
    BY <1>4, <2>2 DEF FanoutInv, EntrySound
<1>14. OpenSound'
  <2>1. CASE ~last
    <3>1. \A m \in Ordinals : RowSound(m)'
      BY <1>2, <2>1, CompletionRows
    <3> QED
      BY <1>4, <2>1, <3>1 DEF OpenSound
  <2>2. CASE last
    BY <1>5, <2>2 DEF OpenSound, Open
  <2> QED
    BY <2>1, <2>2
<1>15. SlotsCounted'
  BY <1>2, CompletionSlots
<1>16. LeftSound'
  BY <1>4, <1>5, <1>6, <1>7 DEF LeftSound
<1>17. CollectedWhole'
  <2>1. CASE ~last
    BY <1>4, <2>1 DEF CollectedWhole
  <2>2. CASE last
    <3>1. 1..plan.length \subseteq Ordinals
      BY <1>4, ConstantsAreNumbers DEF Ordinals
    <3>2. {m \in Ordinals : item'[m] \in {"succeeded", "failed"}} = 1..plan.length
      BY <1>6, <2>2, <3>1
    <3> QED
      BY <1>4, <3>2 DEF CollectedWhole
  <2> QED
    BY <2>1, <2>2
<1>18. RouteByOrder'
  <2>1. CASE ~last
    BY <1>4, <2>1 DEF RouteByOrder
  <2>2. CASE last
    BY <1>3, <1>5, <2>2 DEF RouteByOrder
  <2> QED
    BY <2>1, <2>2
<1>19. NoRaceFails'
  BY <1>7 DEF FanoutInv, NoRaceFails
<1> QED
  BY <1>8, <1>10, <1>11, <1>12, <1>13, <1>14, <1>15, <1>16, <1>17, <1>18, <1>19 DEF FanoutInv

-----------------------------------------------------------------------------
(* The invariant holds *)

LEMMA InitHolds ==
    ASSUME Init
    PROVE  FanoutInv
<1>1. /\ Entry \in Tokens /\ Entry \in Entry..MaxItems /\ Ordinals \subseteq Tokens
      /\ Entry \notin Ordinals /\ 0 \in 0..MaxFaults
  BY ConstantsAreNumbers DEF Entry, Onward, Tokens, Ordinals
<1>2. /\ inst = [status |-> "running", state |-> "fanout", version |-> 0, code |-> "none"]
      /\ inst.version = 0 /\ inst.status = "running" /\ inst.state = "fanout"
      /\ inst.code = "none"
  BY DEF Init
<1>3. inst \in InstanceRow
  BY <1>2 DEF InstanceRow, States, Codes
<1>4. /\ NewToken(0) \in EventRow /\ NoToken \in EventRow
      /\ NewToken(0).attempts = 0 /\ NoToken.attempts = 0 /\ NoToken.status = "absent"
  BY <1>1 DEF NewToken, NoToken, EventRow
<1>5. /\ token \in [Tokens -> EventRow]
      /\ \A t \in Tokens : token[t].attempts = 0
      /\ \A n \in Ordinals : token[n].status = "absent"
  BY <1>1, <1>4 DEF Init
<1>6. Idle \in Transition /\ Coded(Idle)
  BY IdleIsSound
<1>7. TypeOK
  BY <1>1, <1>3, <1>5, <1>6 DEF Init, TypeOK
<1>8. Counted
  BY <1>5 DEF Init, Counted
<1>9. \A w \in Workers : Coded(worker[w]) /\ TransitionSound(worker[w])
  BY <1>6 DEF Init, TransitionSound, Idle
<1>10. FreshSound
  BY <1>2, <1>5 DEF Init, FreshSound
<1>11. EntrySound /\ OpenSound /\ SlotsCounted
  BY <1>2 DEF EntrySound, OpenSound, SlotsCounted, Open
<1>12. LeftSound /\ CollectedWhole /\ RouteByOrder /\ NoRaceFails
  BY <1>2 DEF LeftSound, CollectedWhole, RouteByOrder, NoRaceFails
<1> QED
  BY <1>7, <1>8, <1>9, <1>10, <1>11, <1>12 DEF FanoutInv

LEMMA NextKeeps ==
    ASSUME FanoutInv, [Next]_vars
    PROVE  FanoutInv'
<1>1. ASSUME NEW w \in Workers, Work(w) PROVE FanoutInv'
  <2>1. ASSUME NEW t \in Tokens, Read(w, t) PROVE FanoutInv'
    BY <2>1, ReadKeeps
  <2>2. CASE Prepare(w)
    BY <2>2, PrepareKeeps
  <2>3. CASE Abandon(w)
    BY <2>3, AbandonKeeps
  <2>4. CASE Expand(w)
    BY <2>4, ExpandKeeps
  <2>5. CASE ExpandEmpty(w)
    BY <2>5, ExpandEmptyKeeps
  <2>6. CASE ExpandInvalid(w)
    BY <2>6, ExpandInvalidKeeps
  <2>7. ASSUME NEW o \in CommandOutcomes \cup RequestOutcomes, Complete(w, o)
        PROVE  FanoutInv'
    BY <2>7, CompleteKeeps
  <2>8. CASE FailInstance(w)
    BY <2>8, FailInstanceKeeps
  <2> QED
    BY <1>1, <2>1, <2>2, <2>3, <2>4, <2>5, <2>6, <2>7, <2>8 DEF Work
<1>2. CASE Activities
  BY <1>2, RunJobKeeps DEF Activities
<1>3. ASSUME NEW w \in Workers, Defer(w) PROVE FanoutInv'
  BY <1>3, DeferKeeps
<1>4. ASSUME NEW w \in Workers, Refuse(w) PROVE FanoutInv'
  BY <1>4, RefuseKeeps
<1>5. ASSUME NEW w \in Workers, Crash(w) PROVE FanoutInv'
  BY <1>5, CrashKeeps
<1>6. CASE UNCHANGED vars
  <2>1. UNCHANGED <<plan, inst, item, outcome, job, token, worker, faults>>
    BY <1>6 DEF vars
  <2>2. TypeOK' /\ Counted'
    BY <2>1 DEF FanoutInv, TypeOK, Counted
  <2>3. \A w \in Workers : Coded(worker'[w]) /\ TransitionSound(worker[w])'
    BY <2>1 DEF FanoutInv, TransitionSound
  <2>4. FreshSound' /\ EntrySound'
    BY <2>1 DEF FanoutInv, FreshSound, EntrySound
  <2>5. OpenSound'
    BY <2>1 DEF FanoutInv, OpenSound, Open, RowSound
  <2>6. SlotsCounted'
    BY <2>1 DEF FanoutInv, SlotsCounted, Open, Holders, Unfinished
  <2>7. LeftSound' /\ CollectedWhole' /\ RouteByOrder' /\ NoRaceFails'
    BY <2>1 DEF FanoutInv, LeftSound, CollectedWhole, RouteByOrder, NoRaceFails
  <2> QED
    BY <2>2, <2>3, <2>4, <2>5, <2>6, <2>7 DEF FanoutInv
<1> QED
  BY <1>1, <1>2, <1>3, <1>4, <1>5, <1>6 DEF Next, Done

LEMMA Invariant ==
    Spec => []FanoutInv
<1>1. Init => FanoutInv
  BY InitHolds
<1>2. FanoutInv /\ [Next]_vars => FanoutInv'
  BY NextKeeps
<1> QED
  BY <1>1, <1>2, PTL DEF Spec

LEMMA InvSlots ==
    FanoutInv => SlotsFull
<1>1. SUFFICES ASSUME FanoutInv, Open PROVE SlotsFull
  BY DEF SlotsFull
<1>2. \A n \in Ordinals : RowSound(n)
  BY <1>1 DEF FanoutInv, OpenSound
<1>3. Cardinality({n \in Ordinals : item[n] = "scheduled"})
         = Min({plan.concurrency, Cardinality(Unfinished(item))})
  BY <1>1 DEF FanoutInv, SlotsCounted, Holders
<1>4. ASSUME NEW n \in Ordinals
      PROVE  /\ item[n] = "scheduled" => Cardinality(Live(n)) = 1
             /\ item[n] # "scheduled" => Live(n) = {}
             /\ token[n].status = "pending" /\ plan.activity = "command"
                   => token[n].version = inst.version
  <2>1. RowSound(n)
    BY <1>2
  <2>2. ASSUME item[n] = "scheduled" PROVE Cardinality(Live(n)) = 1
    <3>1. token[n].status = "pending" <=> job[n] # "live"
      BY <2>1, <2>2 DEF RowSound
    <3>2. Live(n) = {"event"} \/ Live(n) = {"job"}
      BY <3>1 DEF Live
    <3> QED
      BY <3>2, FS_Singleton
  <2>3. item[n] # "scheduled" => Live(n) = {}
    BY <2>1 DEF RowSound, Live
  <2> QED
    BY <2>1, <2>2, <2>3 DEF RowSound
<1> QED
  BY <1>3, <1>4 DEF SlotsFull, OneTokenPerSlot

\* Completions that race for the next slot neither lose one nor open one too
\* many, whatever the number of workers, items and slots: while the fan-out is
\* open, min(max_concurrency, unfinished) items are scheduled and each of them
\* has exactly one event or claimable job (commit_fanout_expansion,
\* commit_fanout_item_completion, activate_next_fanout_item).
THEOREM SlotsStayFull == Spec => []SlotsFull
BY Invariant, InvSlots, PTL

\* The state is left only when every item of the input has ended, whichever
\* worker counted the last one (commit_fanout_item_completion).
THEOREM CollectedOnlyWhole == Spec => []CollectedWhole
<1>1. FanoutInv => CollectedWhole
  BY DEF FanoutInv
<1> QED
  BY <1>1, Invariant, PTL

\* The destination is a function of the order of the item journal: the walk over
\* the rows (Collected), by induction on the ordinals, finds an ambiguous item
\* or else the failed item of the lowest ordinal, in whatever order items ended.
THEOREM RouteFollowsOrder == Spec => []RouteByOrder
<1>1. FanoutInv => RouteByOrder
  BY DEF FanoutInv
<1> QED
  BY <1>1, Invariant, PTL

\* A worker that finds no scheduled item has lost a race: either its event is
\* consumed or the version has moved, so that fail_instance rolls back and the
\* race never becomes the failure of the instance.
THEOREM RacesNeverFail == Spec => []NoRaceFails
<1>1. FanoutInv => NoRaceFails
  BY DEF FanoutInv
<1> QED
  BY <1>1, Invariant, PTL
=============================================================================
