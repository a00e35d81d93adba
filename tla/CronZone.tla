------------------------------ MODULE CronZone ------------------------------
(***************************************************************************)
(* The next occurrence of a cron trigger with a timezone (next_in_zone in  *)
(* the server's cron.rs), next to the runs decisions 039 and 060 promise.  *)
(*                                                                         *)
(* Time is counted in units of the schedule's grain.  A zone is one        *)
(* transition: the instant it happens at, and the offset of local time     *)
(* before and after it.  A schedule is the set of local times it matches,  *)
(* with one far in the future, since a cron schedule never ends.           *)
(***************************************************************************)
EXTENDS Integers, FiniteSets, FiniteSetsExt

CONSTANTS
    BackOff,        \* hours(2): the widest repeated span there is
    Window,         \* hours(24): either side of a missing local time
    MaxCandidates   \* 4096

ASSUME CronZoneAssumption == {BackOff, Window, MaxCandidates} \subseteq Nat

\* An Option is a set of at most one value.
Least(S) == IF S = {} THEN {} ELSE {Min(S)}

Offset(zone, i) == IF i < zone.at THEN zone.before ELSE zone.after
Local(zone, i) == i + Offset(zone, i)

\* from_local_datetime: none, one or two instants.
FromLocal(zone, c) ==
    {i \in {c - zone.before, c - zone.after} : Local(zone, i) = c}

\* find_next_occurrence
NextMatch(schedule, cursor) == Min({c \in schedule : c > cursor})

\* One round of the bisection, with the instants at which the condition holds.
Halved(span, reached) ==
    LET mid == span.lo + (span.hi - span.lo) \div 2
    IN  IF span.hi - span.lo <= 1 THEN span
        ELSE IF mid \in reached THEN [lo |-> span.lo, hi |-> mid]
        ELSE [lo |-> mid, hi |-> span.hi]

\* first_instant_where
FirstInstantWhere(low, high, reached) ==
    LET bisect[n \in 0..(high - low)] ==
            IF n = 0 THEN [lo |-> low, hi |-> high]
            ELSE Halved(bisect[n - 1], reached)
    IN  IF low \in reached \/ high \notin reached THEN {}
        ELSE {bisect[high - low].hi}

\* gap_end
GapEnd(zone, c) ==
    FirstInstantWhere(c - Window, c + Window, {i \in Int : Local(zone, i) >= c})

\* repeated_span, matches_at_least_twice
NamesTheRepeatedSpanOnce(schedule, zone, first, second) ==
    LET settled == {i \in Int : Offset(zone, i) = Offset(zone, second)}
    IN  \A transition \in FirstInstantWhere(first, second, settled) :
            LET start == Local(zone, transition)
            IN  NextMatch(schedule, NextMatch(schedule, start - 1))
                  >= start + (second - first)

\* Mutation of StartOf: no back-off over a repeated span.
StartOfWithoutBackOff(zone, after) == Local(zone, after)

StartOf(zone, after) == Local(zone, after) - BackOff

\* The instants of a candidate's runs; the first one still ahead is taken.
Resolved(schedule, zone, dst, c) ==
    LET instants == FromLocal(zone, c)
        first == Min(instants)
        second == Max(instants)
    IN  CASE instants = {} ->
               IF dst.skipped = "fire_after_gap" THEN GapEnd(zone, c) ELSE {}
          [] Cardinality(instants) = 1 -> instants
          [] OTHER ->
               IF NamesTheRepeatedSpanOnce(schedule, zone, first, second)
               THEN {IF dst.repeated = "fire_at_first" THEN first ELSE second}
               ELSE instants

\* The earliest instant a candidate can produce, if its gap has an end.
EarliestOf(zone, c) ==
    IF FromLocal(zone, c) = {} THEN GapEnd(zone, c) ELSE {Min(FromLocal(zone, c))}

\* One candidate of next_in_zone: the earliest run is kept, until a candidate
\* can no longer beat it.
Considered(state, schedule, zone, dst, after) ==
    LET c == NextMatch(schedule, state.cursor)
        earliest == EarliestOf(zone, c)
        ahead == {i \in Resolved(schedule, zone, dst, c) : i > after}
        drops == /\ FromLocal(zone, c) = {}
                 /\ dst.skipped = "skip"
                 /\ \E e \in earliest : e > after
    IN  IF state.done THEN state
        ELSE IF earliest = {} THEN [state EXCEPT !.best = {}, !.done = TRUE]
        ELSE IF \E e \in earliest, b \in state.best : e >= b
        THEN [state EXCEPT !.done = TRUE]
        ELSE [cursor |-> c, best |-> Least(ahead \cup state.best),
              skipped |-> state.skipped \cup (IF drops THEN {c} ELSE {}),
              done |-> FALSE]

\* next_in_zone: candidates in the order of the wall clock.  Without a run there
\* is no answer, and nothing is reported.
NextInZone(schedule, zone, dst, after) ==
    LET walk[n \in 0..MaxCandidates] ==
            IF n = 0
            THEN [cursor |-> StartOf(zone, after), best |-> {}, skipped |-> {},
                  done |-> FALSE]
            ELSE Considered(walk[n - 1], schedule, zone, dst, after)
        last == walk[MaxCandidates]
    IN  [at |-> last.best, skipped |-> IF last.best = {} THEN {} ELSE last.skipped]

-----------------------------------------------------------------------------
(* What decisions 039 and 060 promise *)

\* The local times a zone's transition swallows, and those it repeats.
Swallowed(zone) == {zone.at + k : k \in zone.before..(zone.after - 1)}
Repeated(zone) == {zone.at + k : k \in zone.after..(zone.before - 1)}

\* Every run of the schedule: at each instant whose local time it matches; once
\* when the gap ends, or not at all, for the times it swallows; and of one named
\* time that is repeated, only the declared instant.
Runs(schedule, zone, dst) ==
    LET named == schedule \cap Repeated(zone)
        other == IF Cardinality(named) = 1 THEN schedule \ named ELSE schedule
    IN  (UNION {FromLocal(zone, c) : c \in other})
        \cup {zone.at : c \in {s \in schedule \cap Swallowed(zone) :
                                  dst.skipped = "fire_after_gap"}}
        \cup {IF dst.repeated = "fire_at_first" THEN c - zone.before
              ELSE c - zone.after : c \in named \ other}

=============================================================================
