---------------------------- MODULE FilesProofs ----------------------------
(***************************************************************************)
(* Proofs about file attachments, for any number of uploads, owning rows,  *)
(* requests in flight and collectors, any batch and budget, and any number *)
(* of crashes, outages, refusals and redeployments.                        *)
(***************************************************************************)
EXTENDS Files, FiniteSetTheorems, TLAPS

\* A row was minted, is claimed only once verified, and verified with its copy.
RowsSound ==
    \A f \in Files : Exists(f) =>
        /\ put[f] # None
        /\ row[f].state = "claimed" => row[f].verified
        /\ row[f].verified <=> row[f].place = "final"
        /\ row[f].verified => put[f] = "sound"

\* No request outlives its timeouts.
Alive(r) == r.pc # "idle" => r.since <= now /\ now <= r.since + Life

\* A completion call is younger than the expiry and than the claim of its file,
\* so that its row is there; and the calls it has made have had their effect.
Completing == {"head", "copy", "finalize", "unstage"}
CompletionSound(r) ==
    r.pc \in Completing =>
        /\ r.file \in Files
        /\ Exists(r.file)
        /\ r.since < ExpiresAt(r.file)
        /\ row[r.file].state = "claimed" => r.since <= row[r.file].claimedAt
        /\ r.pc # "head" => put[r.file] = "sound"
        /\ r.pc = "finalize" => <<r.file, "final">> \in objects
        /\ r.pc = "unstage" => row[r.file].place = "final"

ClaimSound(r) ==
    r.pc = "claim" => /\ r.file \in Files
                      /\ put[r.file] # None
                      /\ Exists(r.file) => row[r.file].verified

\* A claim sees a verified row, so it began after every completion call of it.
Younger(r, s) ==
    r.pc = "claim" /\ s.pc \in Completing /\ s.file = r.file => s.since <= r.since

RequestsSound ==
    /\ \A q \in Requests : /\ Alive(request[q])
                           /\ CompletionSound(request[q])
                           /\ ClaimSound(request[q])
    /\ \A p, q \in Requests : Younger(request[p], request[q])

\* What a collector has listed or locked is garbage and stays garbage, or is
\* gone and never minted again.
Doomed(f) == put[f] # None /\ (Exists(f) => Garbage(f))
Locks(k) == k.pc \in {"locked", "removed"}
PassSound(k) ==
    /\ \A f \in k.todo : Doomed(f)
    /\ Locks(k) => k.file \in Files /\ Exists(k.file) /\ Garbage(k.file)
    /\ k.pc = "removed" /\ faults = 0 => <<k.file, row[k.file].place>> \notin objects
CollectorsSound ==
    /\ \A c \in Collectors : PassSound(coll[c])
    /\ \A c, d \in Collectors :
          c # d /\ Locks(coll[c]) /\ Locks(coll[d]) => coll[c].file # coll[d].file

\* Bytes are at the key the row names, until the row is garbage.
BytesReachable ==
    \A f \in Files : Exists(f) /\ put[f] # "nothing" =>
        <<f, row[f].place>> \in objects \/ Garbage(f)

\* Without faults the store serves, and a copy its row does not name yet has a
\* completion call about to see to it.
Collectable ==
    faults = 0 =>
        /\ store = [down |-> FALSE, refused |-> {}, declared |-> TRUE]
        /\ \A f \in Files : <<f, "final">> \in objects =>
              \/ Exists(f) /\ row[f].place = "final"
              \/ \E q \in Requests : request[q].pc = "finalize" /\ request[q].file = f

FilesInv ==
    /\ TypeOK
    /\ RowsSound
    /\ RequestsSound
    /\ CollectorsSound
    /\ BytesReachable
    /\ Collectable
    /\ ReferencesSound

\* The session's advisory lock: one mint at a time is between its count and its
\* insert, and its count still holds.
BudgetHeld ==
    /\ \A q \in Requests : request[q].pc = "counted" => BudgetOk(request[q].since)
    /\ \A p, q \in Requests :
          request[p].pc = "counted" /\ request[q].pc = "counted" => p = q

BudgetInv == BudgetHeld /\ BudgetKept

AllInv == FilesInv /\ BudgetInv

-----------------------------------------------------------------------------
LEMMA ConstantsAreNumbers ==
    /\ UploadTtl \in Nat /\ PendingTtl \in Nat /\ OrphanGrace \in Nat
    /\ Life \in Nat /\ MaxTime \in Nat /\ MaxFaults \in Nat
    /\ Minute \in Nat /\ MaxPending \in Nat /\ MaxPerMinute \in Nat
    /\ Life <= PendingTtl /\ Life <= OrphanGrace /\ UploadTtl <= OrphanGrace
BY FilesAssumption

LEMMA UploadFacts ==
    ASSUME TypeOK, NEW f \in Files, Exists(f)
    PROVE  /\ row[f] \in Upload
           /\ row[f].created \in Nat /\ row[f].claimedAt \in Nat
           /\ row[f].state \in {"pending", "claimed"}
           /\ row[f].place \in {"staging", "final"}
           /\ row[f].verified \in BOOLEAN
           /\ ExpiresAt(f) \in Nat
BY ConstantsAreNumbers DEF TypeOK, Exists, Upload, Times, ExpiresAt

LEMMA RequestFacts ==
    ASSUME TypeOK, NEW q \in Requests
    PROVE  /\ request[q] \in Request
           /\ request[q].since \in Nat /\ request[q].since \in Times
           /\ now \in Nat /\ now \in Times
           /\ request[q].file \in Files \cup {None}
BY ConstantsAreNumbers DEF TypeOK, Request, Times

\* What the sweeps look for stays what they look for.
LEMMA GarbageStays ==
    ASSUME TypeOK, NEW f \in Files, Garbage(f), now' \in Nat, now <= now',
           Exists(f)',
           row'[f].state = row[f].state, row'[f].created = row[f].created,
           row'[f].claimedAt = row[f].claimedAt,
           \A o \in Owners : column'[o] = f => column[o] = f
    PROVE  Garbage(f)'
<1>1. Exists(f)
  BY DEF Garbage, Unclaimed, Orphaned, Pending
<1>2. row[f].created \in Nat /\ row[f].claimedAt \in Nat /\ now \in Nat
  BY <1>1, UploadFacts, ConstantsAreNumbers DEF TypeOK, Times
<1>3. CASE Unclaimed(f)
  BY <1>2, <1>3, ConstantsAreNumbers DEF Garbage, Unclaimed, Pending, ExpiresAt
<1>4. CASE Orphaned(f)
  BY <1>2, <1>4, ConstantsAreNumbers DEF Garbage, Orphaned
<1> QED
  BY <1>3, <1>4 DEF Garbage

LEMMA GarbageSame ==
    ASSUME UNCHANGED <<now, row, column>>
    PROVE  \A f : Garbage(f)' <=> Garbage(f)
BY DEF Garbage, Unclaimed, Orphaned, Pending, Exists, ExpiresAt

\* The graces of the collector are longer than a request lives.
LEMMA CompletionNotGarbage ==
    ASSUME TypeOK, NEW r \in Request, Alive(r), CompletionSound(r),
           r.pc \in Completing
    PROVE  ~Garbage(r.file)
<1>1. r.file \in Files /\ Exists(r.file)
  BY DEF CompletionSound
<1>2. r.pc # "idle"
  BY DEF Completing
<1>3. r.since <= now /\ now <= r.since + Life /\ r.since \in Nat /\ now \in Nat
  BY <1>2, ConstantsAreNumbers DEF Alive, TypeOK, Request, Times
<1>4. ~Unclaimed(r.file)
  BY <1>1, <1>3, UploadFacts, ConstantsAreNumbers DEF Unclaimed, CompletionSound
<1>5. ~Orphaned(r.file)
  BY <1>1, <1>3, UploadFacts, ConstantsAreNumbers DEF Orphaned, CompletionSound
<1> QED
  BY <1>4, <1>5 DEF Garbage

LEMMA ClaimableNotGarbage ==
    ASSUME TypeOK, NEW r \in Request, Alive(r), r.pc = "claim", r.file \in Files,
           Claimable(r.file, r.since)
    PROVE  ~Garbage(r.file)
<1>1. Exists(r.file) /\ row[r.file].state = "pending"
  BY DEF Claimable, Pending
<1>2. r.since <= now /\ now <= r.since + Life /\ r.since \in Nat /\ now \in Nat
  BY ConstantsAreNumbers DEF Alive, TypeOK, Request, Times
<1>3. ~Unclaimed(r.file)
  BY <1>1, <1>2, UploadFacts, ConstantsAreNumbers DEF Unclaimed, Claimable
<1> QED
  BY <1>1, <1>3 DEF Garbage, Orphaned

-----------------------------------------------------------------------------
LEMMA FilesInit == Init => FilesInv
<1> SUFFICES ASSUME Init PROVE FilesInv
  OBVIOUS
<1>1. TypeOK
  <2>1. 0 \in Times /\ 0 \in 0..MaxFaults
    BY ConstantsAreNumbers DEF Times
  <2>2. NoRequest \in Request
    BY <2>1 DEF NoRequest, Request
  <2>3. NoPass \in Pass /\ NoPass.pc = "idle"
    BY DEF NoPass, Pass
  <2>4. [down |-> FALSE, refused |-> {}, declared |-> TRUE] \in Store
    BY DEF Store
  <2> QED
    BY <2>1, <2>2, <2>3, <2>4 DEF Init, TypeOK
<1>2. RowsSound /\ BytesReachable /\ Collectable
  BY DEF Init, RowsSound, BytesReachable, Collectable, Exists
<1>3. RequestsSound
  BY DEF Init, RequestsSound, Alive, CompletionSound, ClaimSound, Younger,
     Completing, NoRequest
<1>4. CollectorsSound
  BY DEF Init, CollectorsSound, PassSound, Locks, NoPass
<1>5. ReferencesSound
  BY DEF Init, ReferencesSound, ReferencedHasBytes, OneOwner
<1> QED
  BY <1>1, <1>2, <1>3, <1>4, <1>5 DEF FilesInv

\* A request moves on, begins or ends, and leaves everything else alone.
LEMMA RequestMoves ==
    ASSUME FilesInv, NEW q \in Requests, NEW r \in Request,
           request' = [request EXCEPT ![q] = r],
           Alive(r), CompletionSound(r), ClaimSound(r),
           \A p \in Requests : Younger(r, request[p]) /\ Younger(request[p], r),
           UNCHANGED <<now, row, objects, put, column, coll, store>>,
           faults' \in 0..MaxFaults,
           faults' = 0 =>
              /\ faults = 0
              /\ request[q].pc = "finalize" =>
                    row[request[q].file].place = "final"
    PROVE  FilesInv'
<1> USE DEF FilesInv
<1>1. request'[q] = r /\ \A p \in Requests : p # q => request'[p] = request[p]
  BY DEF TypeOK
<1>2. TypeOK'
  BY DEF TypeOK
<1>3. RowsSound'
  BY DEF RowsSound, Exists
<1>4. RequestsSound'
  <2>1. \A p \in Requests : Alive(request[p])' /\ CompletionSound(request[p])' /\ ClaimSound(request[p])'
    BY <1>1 DEF RequestsSound, Alive, CompletionSound, ClaimSound, Exists, ExpiresAt
  <2>2. \A p, s \in Requests : Younger(request[p], request[s])'
    <3>1. Younger(r, r)
      BY DEF Younger, Completing
    <3> QED
      BY <1>1, <3>1 DEF RequestsSound, Younger
  <2> QED
    BY <2>1, <2>2 DEF RequestsSound
<1>5. CollectorsSound'
  BY GarbageSame DEF CollectorsSound, PassSound, Locks, Doomed, Exists
<1>6. BytesReachable'
  BY GarbageSame DEF BytesReachable, Exists
<1>7. Collectable'
  <2> SUFFICES ASSUME faults' = 0 PROVE Collectable'
    BY DEF Collectable
  <2>1. /\ faults = 0
        /\ request[q].pc = "finalize" => CompletionSound(request[q])
    BY DEF RequestsSound
  <2>2. store' = [down |-> FALSE, refused |-> {}, declared |-> TRUE]
    BY <2>1 DEF Collectable
  <2>4. ASSUME NEW f \in Files, <<f, "final">> \in objects,
               ~(Exists(f) /\ row[f].place = "final")
        PROVE  \E p \in Requests : request'[p].pc = "finalize" /\ request'[p].file = f
    <3>1. PICK p \in Requests : request[p].pc = "finalize" /\ request[p].file = f
      BY <2>1, <2>4 DEF Collectable
    <3>2. p # q
      BY <2>1, <2>4, <3>1 DEF CompletionSound, Completing
    <3> QED
      BY <1>1, <3>1, <3>2
  <2> QED
    BY <2>2, <2>4 DEF Collectable, Exists
<1>8. ReferencesSound'
  BY DEF ReferencesSound, ReferencedHasBytes, OneOwner, Exists
<1> QED
  BY <1>2, <1>3, <1>4, <1>5, <1>6, <1>7, <1>8

LEMMA FinalCovered ==
    ASSUME Collectable, faults = 0, NEW f \in Files, <<f, "final">> \in objects,
           ~(Exists(f) /\ row[f].place = "final")
    PROVE  \E q \in Requests : request[q].pc = "finalize" /\ request[q].file = f
BY DEF Collectable

LEMMA NoRequestType == NoRequest \in Request /\ NoRequest.pc = "idle"
BY ConstantsAreNumbers DEF NoRequest, Request, Times

\* A request ends, or dies, and leaves everything else alone.
LEMMA RequestEnds ==
    ASSUME FilesInv, NEW q \in Requests, Ends(q),
           UNCHANGED <<now, row, objects, put, column, coll, store>>,
           faults' \in 0..MaxFaults,
           faults' = 0 =>
              /\ faults = 0
              /\ request[q].pc = "finalize" =>
                    row[request[q].file].place = "final"
    PROVE  FilesInv'
<1>1. /\ Alive(NoRequest) /\ CompletionSound(NoRequest) /\ ClaimSound(NoRequest)
      /\ \A p \in Requests : Younger(NoRequest, request[p]) /\ Younger(request[p], NoRequest)
  BY NoRequestType DEF Alive, CompletionSound, ClaimSound, Younger, Completing
<1> QED
  BY <1>1, NoRequestType, RequestMoves DEF Ends

LEMMA RequestDiesKeeps ==
    ASSUME FilesInv, NEW q \in Requests, RequestDies(q)
    PROVE  FilesInv'
<1>1. faults' \in 0..MaxFaults /\ faults' # 0
  BY ConstantsAreNumbers DEF RequestDies, Fault, FilesInv, TypeOK
<1> QED
  BY <1>1, RequestEnds DEF RequestDies

\* The first step of a request, for a file that its kind of call may name.
LEMMA BeginKeeps ==
    ASSUME FilesInv, NEW q \in Requests, NEW pc \in {"mint", "head", "claim"},
           NEW f \in Files \cup {None}, Begin(q, pc, f),
           pc = "head" => f \in Files /\ Pending(f) /\ now < ExpiresAt(f)
                          /\ row[f].place = "staging",
           pc = "claim" => f \in Files /\ Claimable(f, now),
           UNCHANGED <<now, row, objects, put, column, coll, store, faults>>
    PROVE  FilesInv'
<1> DEFINE r == [pc |-> pc, file |-> f, since |-> now]
<1>1. request[q].pc = "idle" /\ request' = [request EXCEPT ![q] = r]
  BY DEF Begin
<1>2. now \in Nat /\ now \in Times /\ faults \in 0..MaxFaults
  BY ConstantsAreNumbers DEF FilesInv, TypeOK, Times
<1>3. r \in Request /\ r.pc = pc /\ r.file = f /\ r.since = now
  BY <1>2 DEF Request, Steps
<1> HIDE DEF r
<1>4. Alive(r)
  BY <1>2, <1>3, ConstantsAreNumbers DEF Alive
<1>5. CompletionSound(r)
  BY <1>3 DEF CompletionSound, Completing, Pending
<1>6. ClaimSound(r)
  BY <1>3 DEF ClaimSound, Claimable, Pending, FilesInv, RowsSound
<1>7. ASSUME NEW p \in Requests PROVE Younger(r, request[p])
  <2>1. request[p].pc \in Completing => request[p].since <= now
    BY DEF FilesInv, RequestsSound, Alive, Completing
  <2> QED
    BY <1>3, <2>1 DEF Younger
<1>8. ASSUME NEW p \in Requests PROVE Younger(request[p], r)
  <2> SUFFICES ASSUME request[p].pc = "claim", r.pc \in Completing, r.file = request[p].file
               PROVE  FALSE
    BY DEF Younger
  <2>1. pc = "head" /\ Exists(f) /\ row[f].place = "staging" /\ f \in Files
    BY <1>3 DEF Completing, Pending
  <2>2. row[f].verified
    BY <1>3, <2>1 DEF FilesInv, RequestsSound, ClaimSound
  <2> QED
    BY <2>1, <2>2 DEF FilesInv, RowsSound
<1> QED
  BY <1>1, <1>2, <1>3, <1>4, <1>5, <1>6, <1>7, <1>8, RequestMoves

LEMMA BeginsKeep ==
    ASSUME FilesInv, NEW q \in Requests,
           MintBegins(q) \/ \E f \in Files : CompleteLoads(q, f) \/ ClaimBegins(q, f)
    PROVE  FilesInv'
<1>1. CASE MintBegins(q)
  BY <1>1, BeginKeeps DEF MintBegins
<1>2. ASSUME NEW f \in Files, CompleteLoads(q, f) PROVE FilesInv'
  BY <1>2, BeginKeeps DEF CompleteLoads
<1>3. ASSUME NEW f \in Files, ClaimBegins(q, f) PROVE FilesInv'
  BY <1>3, BeginKeeps DEF ClaimBegins
<1> QED
  BY <1>1, <1>2, <1>3

LEMMA MintCountsKeeps ==
    ASSUME FilesInv, NEW q \in Requests, MintCounts(q)
    PROVE  FilesInv'
<1>1. faults' \in 0..MaxFaults /\ faults' = faults /\ request[q].pc = "mint"
  BY DEF MintCounts, FilesInv, TypeOK
<1>2. CASE Ends(q)
  BY <1>1, <1>2, RequestEnds DEF MintCounts
<1>3. CASE MovesTo(q, "counted")
  <2> DEFINE r == [request[q] EXCEPT !.pc = "counted"]
  <2>1. r \in Request /\ r.pc = "counted" /\ r.since = request[q].since
    BY RequestFacts DEF FilesInv, Request, Steps
  <2>2. request' = [request EXCEPT ![q] = r]
    BY <1>3 DEF MovesTo
  <2> HIDE DEF r
  <2>3. Alive(r)
    BY <1>1, <2>1 DEF FilesInv, RequestsSound, Alive
  <2>4. /\ CompletionSound(r) /\ ClaimSound(r)
        /\ \A p \in Requests : Younger(r, request[p]) /\ Younger(request[p], r)
    BY <2>1 DEF CompletionSound, ClaimSound, Younger, Completing
  <2> QED
    BY <1>1, <2>1, <2>2, <2>3, <2>4, RequestMoves DEF MintCounts
<1> QED
  BY <1>2, <1>3 DEF MintCounts

\* A completion call goes to its next step with the file it has.
LEMMA NextStep ==
    ASSUME FilesInv, NEW q \in Requests, NEW pc \in Completing,
           request[q].pc \in Completing
    PROVE  LET r == [request[q] EXCEPT !.pc = pc] IN
           /\ r \in Request /\ r.pc = pc
           /\ r.file = request[q].file /\ r.since = request[q].since
           /\ Alive(r)
           /\ \A p \in Requests : Younger(r, request[p]) /\ Younger(request[p], r)
<1> DEFINE r == [request[q] EXCEPT !.pc = pc]
<1>1. /\ r \in Request /\ r.pc = pc
      /\ r.file = request[q].file /\ r.since = request[q].since
  BY RequestFacts DEF FilesInv, Request, Steps, Completing
<1> HIDE DEF r
<1>2. Alive(r)
  BY <1>1 DEF FilesInv, RequestsSound, Alive, Completing
<1>3. \A p \in Requests : Younger(r, request[p]) /\ Younger(request[p], r)
  BY <1>1 DEF FilesInv, RequestsSound, Younger, Completing
<1> QED
  BY <1>1, <1>2, <1>3 DEF r

LEMMA CompleteHeadsKeeps ==
    ASSUME FilesInv, NEW q \in Requests, CompleteHeads(q)
    PROVE  FilesInv'
<1>1. faults' \in 0..MaxFaults /\ faults' = faults /\ request[q].pc = "head"
  BY DEF CompleteHeads, FilesInv, TypeOK
<1>2. CASE Ends(q)
  BY <1>1, <1>2, RequestEnds DEF CompleteHeads
<1>3. CASE MovesTo(q, "copy") /\ Acceptable(request[q].file)
  <2> DEFINE r == [request[q] EXCEPT !.pc = "copy"]
  <2>1. /\ r \in Request /\ r.pc = "copy"
        /\ r.file = request[q].file /\ r.since = request[q].since
        /\ Alive(r)
        /\ \A p \in Requests : Younger(r, request[p]) /\ Younger(request[p], r)
    BY <1>1, NextStep DEF Completing
  <2>2. request' = [request EXCEPT ![q] = r]
    BY <1>3 DEF MovesTo
  <2> HIDE DEF r
  <2>3. CompletionSound(r)
    BY <1>1, <1>3, <2>1 DEF FilesInv, RequestsSound, CompletionSound, Completing, Acceptable
  <2>4. ClaimSound(r)
    BY <2>1 DEF ClaimSound
  <2> QED
    BY <1>1, <2>1, <2>2, <2>3, <2>4, RequestMoves DEF CompleteHeads
<1> QED
  BY <1>2, <1>3 DEF CompleteHeads

\* The copy is made: the object is new, or the same again.
LEMMA CompleteCopiesKeeps ==
    ASSUME FilesInv, NEW q \in Requests, CompleteCopies(q)
    PROVE  FilesInv'
<1> DEFINE f == request[q].file
           r == [request[q] EXCEPT !.pc = "finalize"]
<1>1. faults' \in 0..MaxFaults /\ faults' = faults /\ request[q].pc = "copy"
  BY DEF CompleteCopies, FilesInv, TypeOK
<1>2. CASE Ends(q) /\ UNCHANGED objects
  BY <1>1, <1>2, RequestEnds DEF CompleteCopies
<1>3. CASE Proceeds(q) /\ objects' = objects \cup {<<f, "final">>}
  <2> USE DEF FilesInv
  <2>1. /\ r \in Request /\ r.pc = "finalize"
        /\ r.file = f /\ r.since = request[q].since
        /\ Alive(r)
        /\ \A p \in Requests : Younger(r, request[p]) /\ Younger(request[p], r)
    BY <1>1, NextStep DEF Completing
  <2>2. request' = [request EXCEPT ![q] = r]
    BY <1>1, <1>3 DEF Proceeds, After, MovesTo
  <2>3. UNCHANGED <<now, row, put, column, coll, store, faults>>
    BY DEF CompleteCopies
  <2>4. /\ f \in Files /\ Exists(f) /\ put[f] = "sound"
        /\ ~Garbage(f) /\ CompletionSound(request[q])
    BY <1>1, RequestFacts, CompletionNotGarbage DEF RequestsSound, CompletionSound, Completing
  <2> HIDE DEF r, f
  <2>5. request'[q] = r /\ \A p \in Requests : p # q => request'[p] = request[p]
    BY <2>2 DEF TypeOK
  <2>6. \A g, x : <<g, x>> \in objects' <=> (<<g, x>> \in objects \/ (g = f /\ x = "final"))
    BY <1>3
  <2>7. TypeOK'
    BY <1>3, <2>1, <2>2, <2>3, <2>4 DEF TypeOK
  <2>8. RowsSound'
    BY <2>3 DEF RowsSound, Exists
  <2>9. RequestsSound'
    <3>1. \A p \in Requests : p # q =>
             Alive(request[p])' /\ CompletionSound(request[p])' /\ ClaimSound(request[p])'
      BY <2>3, <2>5, <2>6 DEF RequestsSound, Alive, CompletionSound, ClaimSound, Exists, ExpiresAt
    <3>2. Alive(request[q])' /\ ClaimSound(request[q])'
      BY <2>1, <2>3, <2>5 DEF Alive, ClaimSound
    <3>3. CompletionSound(request[q])'
      BY <1>1, <2>1, <2>3, <2>4, <2>5, <2>6 DEF CompletionSound, Completing, Exists, ExpiresAt, f
    <3>4. \A p, s \in Requests : Younger(request[p], request[s])'
      BY <2>1, <2>5 DEF RequestsSound, Younger
    <3> QED
      BY <3>1, <3>2, <3>3, <3>4 DEF RequestsSound
  <2>10. CollectorsSound'
    <3>1. \A c \in Collectors : Locks(coll[c]) => coll[c].file # f
      BY <2>4 DEF CollectorsSound, PassSound
    <3> QED
      BY <2>3, <2>6, <3>1, GarbageSame DEF CollectorsSound, PassSound, Locks, Doomed, Exists
  <2>11. BytesReachable'
    BY <2>3, <2>6, GarbageSame DEF BytesReachable, Exists
  <2>12. Collectable'
    <3> SUFFICES ASSUME faults = 0 PROVE Collectable'
      BY <2>3 DEF Collectable
    <3>2. ASSUME NEW g \in Files, <<g, "final">> \in objects',
                 ~(Exists(g) /\ row[g].place = "final")
          PROVE  \E p \in Requests : request'[p].pc = "finalize" /\ request'[p].file = g
      <4>1. CASE g = f
        BY <2>1, <2>5, <4>1
      <4>2. CASE g # f
        <5>1. <<g, "final">> \in objects
          BY <2>6, <3>2, <4>2
        <5>2. PICK p \in Requests : request[p].pc = "finalize" /\ request[p].file = g
          BY <3>2, <5>1, FinalCovered
        <5> QED
          BY <1>1, <2>5, <5>2
      <4> QED
        BY <4>1, <4>2
    <3> QED
      BY <2>3, <3>2 DEF Collectable, Exists
  <2>13. ReferencesSound'
    BY <2>3, <2>6 DEF ReferencesSound, ReferencedHasBytes, OneOwner, Exists
  <2> QED
    BY <2>7, <2>8, <2>9, <2>10, <2>11, <2>12, <2>13
<1> QED
  BY <1>2, <1>3 DEF CompleteCopies

\* The row is pointed at the copy, once the object is there.
LEMMA CompleteFinalizesKeeps ==
    ASSUME FilesInv, NEW q \in Requests, CompleteFinalizes(q)
    PROVE  FilesInv'
<1> DEFINE f == request[q].file
           r == [request[q] EXCEPT !.pc = "unstage"]
           u == [row[f] EXCEPT !.verified = TRUE, !.place = "final"]
<1> USE DEF FilesInv
<1>1. faults' \in 0..MaxFaults /\ faults' = faults /\ request[q].pc = "finalize"
  BY DEF CompleteFinalizes, TypeOK
<1>2. /\ f \in Files /\ Exists(f) /\ put[f] = "sound" /\ <<f, "final">> \in objects
      /\ ~Garbage(f) /\ CompletionSound(request[q])
  BY <1>1, RequestFacts, CompletionNotGarbage DEF RequestsSound, CompletionSound, Completing
<1>3. CASE ~Pending(f)
  <2>1. row[f].state = "claimed"
    BY <1>2, <1>3, UploadFacts DEF Pending
  <2>2. row[f].place = "final"
    BY <1>2, <2>1 DEF RowsSound
  <2> QED
    BY <1>1, <1>3, <2>2, RequestEnds DEF CompleteFinalizes
<1>4. CASE Pending(f)
  <2>1. /\ r \in Request /\ r.pc = "unstage"
        /\ r.file = f /\ r.since = request[q].since
        /\ Alive(r)
        /\ \A p \in Requests : Younger(r, request[p]) /\ Younger(request[p], r)
    BY <1>1, NextStep DEF Completing
  <2>2. request' = [request EXCEPT ![q] = r]
    BY <1>1, <1>4 DEF CompleteFinalizes, Proceeds, After, MovesTo
  <2>3. row' = [row EXCEPT ![f] = u]
    BY <1>4 DEF CompleteFinalizes
  <2>4. UNCHANGED <<now, objects, put, column, coll, store, faults>>
    BY DEF CompleteFinalizes
  <2>5. /\ u \in Upload /\ u # None /\ u.verified /\ u.place = "final"
        /\ u.state = row[f].state /\ u.created = row[f].created
        /\ u.claimedAt = row[f].claimedAt
    BY <1>2, UploadFacts, NoneAssumption DEF Upload
  <2>6. ~RowLocked(f)
    BY DEF CompleteFinalizes
  <2> HIDE DEF r, f, u
  <2>7. request'[q] = r /\ \A p \in Requests : p # q => request'[p] = request[p]
    BY <2>2 DEF TypeOK
  <2>8. row'[f] = u /\ \A g \in Files : g # f => row'[g] = row[g]
    BY <1>2, <2>3 DEF TypeOK
  <2>9. /\ \A g \in Files : Exists(g)' <=> Exists(g)
        /\ \A g \in Files : Exists(g) => /\ row'[g].state = row[g].state
                                         /\ row'[g].created = row[g].created
                                         /\ row'[g].claimedAt = row[g].claimedAt
    BY <1>2, <2>5, <2>8 DEF Exists
  <2>10. \A g \in Files : Garbage(g) => Garbage(g)'
    <3> SUFFICES ASSUME NEW g \in Files, Garbage(g) PROVE Garbage(g)'
      OBVIOUS
    <3>1. Exists(g) /\ now \in Nat
      BY ConstantsAreNumbers DEF Garbage, Unclaimed, Orphaned, Pending, TypeOK, Times
    <3> QED
      BY <2>4, <2>9, <3>1, GarbageStays
  <2>11. TypeOK'
    BY <2>1, <2>2, <2>3, <2>4, <2>5, <2>8 DEF TypeOK
  <2>12. RowsSound'
    BY <1>2, <2>4, <2>5, <2>8, <2>9 DEF RowsSound
  <2>13. RequestsSound'
    <3>1. \A g \in Files : ExpiresAt(g)' = ExpiresAt(g) \/ ~Exists(g)
      BY <2>9 DEF ExpiresAt
    <3>2. \A g \in Files : (row[g].place = "final" => row'[g].place = "final")
                           /\ (row[g].verified => row'[g].verified)
      BY <2>5, <2>8
    <3>3. \A p \in Requests : p # q =>
             Alive(request[p])' /\ CompletionSound(request[p])' /\ ClaimSound(request[p])'
      BY <2>4, <2>7, <2>9, <3>1, <3>2 DEF RequestsSound, Alive, CompletionSound, ClaimSound
    <3>4. Alive(request[q])' /\ ClaimSound(request[q])'
      BY <2>1, <2>4, <2>7 DEF Alive, ClaimSound
    <3>5. CompletionSound(request[q])'
      BY <1>1, <1>2, <2>1, <2>4, <2>5, <2>7, <2>8, <2>9, <3>1 DEF CompletionSound, Completing, f
    <3>6. \A p, s \in Requests : Younger(request[p], request[s])'
      BY <2>1, <2>7 DEF RequestsSound, Younger
    <3> QED
      BY <3>3, <3>4, <3>5, <3>6 DEF RequestsSound
  <2>14. CollectorsSound'
    <3>1. \A c \in Collectors : Locks(coll[c]) => coll[c].file # f
      BY <2>6 DEF Locks, RowLocked
    <3>2. \A c \in Collectors : coll[c].todo \subseteq Files
      BY DEF TypeOK, Pass
    <3> QED
      BY <2>4, <2>8, <2>9, <2>10, <3>1, <3>2 DEF CollectorsSound, PassSound, Locks, Doomed
  <2>15. BytesReachable'
    BY <1>2, <2>4, <2>5, <2>8, <2>9, <2>10 DEF BytesReachable
  <2>16. Collectable'
    <3> SUFFICES ASSUME faults = 0 PROVE Collectable'
      BY <2>4 DEF Collectable
    <3>2. ASSUME NEW g \in Files, <<g, "final">> \in objects,
                 ~(Exists(g)' /\ row'[g].place = "final")
          PROVE  \E p \in Requests : request'[p].pc = "finalize" /\ request'[p].file = g
      <4>1. g # f
        BY <1>2, <2>5, <2>8, <2>9, <3>2
      <4>2. ~(Exists(g) /\ row[g].place = "final")
        BY <2>8, <2>9, <3>2, <4>1
      <4>3. PICK p \in Requests : request[p].pc = "finalize" /\ request[p].file = g
        BY <3>2, <4>2, FinalCovered
      <4>4. p # q
        BY <4>1, <4>3 DEF f
      <4> QED
        BY <2>7, <4>3, <4>4
    <3> QED
      BY <2>4, <3>2 DEF Collectable
  <2>17. ReferencesSound'
    <3>1. column \in [Owners -> Files \cup {None}]
      BY DEF TypeOK
    <3> QED
      BY <1>2, <1>4, <2>4, <2>5, <2>8, <2>9, <3>1
         DEF ReferencesSound, ReferencedHasBytes, OneOwner, Pending
  <2> QED
    BY <2>11, <2>12, <2>13, <2>14, <2>15, <2>16, <2>17
<1> QED
  BY <1>3, <1>4

\* The staging object goes after the row names the copy.
LEMMA CompleteUnstagesKeeps ==
    ASSUME FilesInv, NEW q \in Requests, CompleteUnstages(q)
    PROVE  FilesInv'
<1> DEFINE f == request[q].file
<1> USE DEF FilesInv
<1>1. /\ faults' \in 0..MaxFaults /\ faults' = faults /\ request[q].pc = "unstage"
      /\ Ends(q)
      /\ UNCHANGED <<now, row, put, column, coll, store, faults>>
  BY DEF CompleteUnstages, TypeOK, Proceeds, After
<1>2. f \in Files /\ Exists(f) /\ row[f].place = "final"
  BY <1>1 DEF RequestsSound, CompletionSound, Completing
<1>3. CASE ~Serves(f)
  BY <1>1, <1>3, RequestEnds DEF CompleteUnstages
<1>4. CASE Serves(f)
  <2>1. objects' = objects \ {<<f, "staging">>}
    BY <1>4 DEF CompleteUnstages
  <2> HIDE DEF f
  <2>2. \A g, x : <<g, x>> \in objects' <=> (<<g, x>> \in objects /\ ~(g = f /\ x = "staging"))
    BY <2>1
  <2>3. request'[q] = NoRequest /\ \A p \in Requests : p # q => request'[p] = request[p]
    BY <1>1 DEF TypeOK, Ends
  <2>4. TypeOK'
    BY <1>1, <2>1, NoRequestType DEF TypeOK, Ends
  <2>5. RowsSound'
    BY <1>1 DEF RowsSound, Exists
  <2>6. RequestsSound'
    <3>1. \A p \in Requests : p # q =>
             Alive(request[p])' /\ CompletionSound(request[p])' /\ ClaimSound(request[p])'
      BY <1>1, <2>2, <2>3 DEF RequestsSound, Alive, CompletionSound, ClaimSound, Exists, ExpiresAt
    <3>2. Alive(request[q])' /\ ClaimSound(request[q])' /\ CompletionSound(request[q])'
      BY <2>3, NoRequestType DEF Alive, ClaimSound, CompletionSound, Completing
    <3>3. \A p, s \in Requests : Younger(request[p], request[s])'
      BY <2>3, NoRequestType DEF RequestsSound, Younger, Completing
    <3> QED
      BY <3>1, <3>2, <3>3 DEF RequestsSound
  <2>7. CollectorsSound'
    BY <1>1, <2>2, GarbageSame DEF CollectorsSound, PassSound, Locks, Doomed, Exists
  <2>8. BytesReachable'
    BY <1>1, <1>2, <2>2, GarbageSame DEF BytesReachable, Exists
  <2>9. Collectable'
    <3> SUFFICES ASSUME faults = 0 PROVE Collectable'
      BY <1>1 DEF Collectable
    <3>2. ASSUME NEW g \in Files, <<g, "final">> \in objects',
                 ~(Exists(g) /\ row[g].place = "final")
          PROVE  \E p \in Requests : request'[p].pc = "finalize" /\ request'[p].file = g
      <4>1. <<g, "final">> \in objects
        BY <2>2, <3>2
      <4>2. PICK p \in Requests : request[p].pc = "finalize" /\ request[p].file = g
        BY <3>2, <4>1, FinalCovered
      <4> QED
        BY <1>1, <2>3, <4>2
    <3> QED
      BY <1>1, <1>4, <3>2 DEF Collectable, Exists
  <2>10. ReferencesSound'
    BY <1>1, <1>2, <2>2 DEF ReferencesSound, ReferencedHasBytes, OneOwner, Exists
  <2> QED
    BY <2>4, <2>5, <2>6, <2>7, <2>8, <2>9, <2>10
<1> QED
  BY <1>3, <1>4

\* The insert of a new row under an identity nobody has seen.
LEMMA MintInsertsKeeps ==
    ASSUME FilesInv, NEW q \in Requests, MintInserts(q)
    PROVE  FilesInv'
<1> USE DEF FilesInv
<1>1. /\ faults' \in 0..MaxFaults /\ faults' = faults /\ request[q].pc = "counted"
      /\ Ends(q)
      /\ UNCHANGED <<now, objects, column, coll, store, faults>>
  BY DEF MintInserts, TypeOK
<1>2. CASE ~\E g \in Files : Fresh(g)
  <2>1. UNCHANGED <<row, put>>
    BY <1>2 DEF MintInserts
  <2> QED
    BY <1>1, <2>1, RequestEnds
<1>3. CASE \E g \in Files : Fresh(g)
  <2> DEFINE f == CHOOSE g \in Files : Fresh(g)
             u == [state |-> "pending", place |-> "staging", verified |-> FALSE,
                   created |-> request[q].since, claimedAt |-> 0]
  <2>1. f \in Files /\ Fresh(f)
    BY <1>3
  <2>2. row' = [row EXCEPT ![f] = u] /\ put' = [put EXCEPT ![f] = "nothing"]
    BY <1>3 DEF MintInserts
  <2>3. u \in Upload /\ u # None /\ u.state = "pending" /\ u.place = "staging" /\ u.verified = FALSE
    <3>1. request[q].since \in Times /\ 0 \in Times
      BY RequestFacts, ConstantsAreNumbers DEF Times
    <3>2. u \in Upload
      BY <3>1 DEF Upload
    <3> QED
      BY <3>2, NoneAssumption
  <2> HIDE DEF f, u
  <2>4. row[f] = None /\ put[f] = None
    BY <2>1 DEF Fresh, RowsSound, Exists
  <2>5. /\ row'[f] = u /\ put'[f] = "nothing"
        /\ \A g \in Files : g # f => row'[g] = row[g] /\ put'[g] = put[g]
        /\ \A g \in Files : g # f => (Exists(g)' <=> Exists(g))
        /\ "nothing" # None
    BY <2>1, <2>2, NoneAssumption DEF TypeOK, Exists
  <2>6. request'[q] = NoRequest /\ \A p \in Requests : p # q => request'[p] = request[p]
    BY <1>1 DEF TypeOK, Ends
  <2>7. \A g \in Files : g # f /\ Garbage(g) => Garbage(g)'
    BY <1>1, <2>5 DEF Garbage, Unclaimed, Orphaned, Pending, ExpiresAt
  <2>8. TypeOK'
    BY <1>1, <2>2, <2>3, <2>1, NoRequestType DEF TypeOK, Ends
  <2>9. RowsSound'
    BY <2>3, <2>5 DEF RowsSound
  <2>10. RequestsSound'
    <3>1. \A p \in Requests : p # q =>
             Alive(request[p])' /\ CompletionSound(request[p])' /\ ClaimSound(request[p])'
      <4>1. \A p \in Requests : request[p].pc \in Completing \cup {"claim"} =>
               request[p].file \in Files /\ request[p].file # f
        BY <2>4 DEF RequestsSound, CompletionSound, ClaimSound, RowsSound
      <4> QED
        BY <1>1, <2>5, <2>6, <4>1 DEF RequestsSound, Alive, CompletionSound, ClaimSound, ExpiresAt
    <3>2. Alive(request[q])' /\ ClaimSound(request[q])' /\ CompletionSound(request[q])'
      BY <2>6, NoRequestType DEF Alive, ClaimSound, CompletionSound, Completing
    <3>3. \A p, s \in Requests : Younger(request[p], request[s])'
      BY <2>6, NoRequestType DEF RequestsSound, Younger, Completing
    <3> QED
      BY <3>1, <3>2, <3>3 DEF RequestsSound
  <2>11. CollectorsSound'
    <3>1. \A c \in Collectors : coll[c].todo \subseteq Files
      BY DEF TypeOK, Pass
    <3>2. \A c \in Collectors : /\ \A g \in coll[c].todo : g # f
                                /\ Locks(coll[c]) => coll[c].file # f
      BY <2>4 DEF CollectorsSound, PassSound, Doomed, Exists
    <3> QED
      BY <1>1, <2>5, <2>7, <3>1, <3>2 DEF CollectorsSound, PassSound, Locks, Doomed
  <2>12. BytesReachable'
    BY <1>1, <2>5, <2>7 DEF BytesReachable
  <2>13. Collectable'
    <3> SUFFICES ASSUME faults = 0 PROVE Collectable'
      BY <1>1 DEF Collectable
    <3>2. ASSUME NEW g \in Files, <<g, "final">> \in objects,
                 ~(Exists(g)' /\ row'[g].place = "final")
          PROVE  \E p \in Requests : request'[p].pc = "finalize" /\ request'[p].file = g
      <4>1. ~(Exists(g) /\ row[g].place = "final")
        BY <2>4, <2>5, <3>2 DEF Exists
      <4>2. PICK p \in Requests : request[p].pc = "finalize" /\ request[p].file = g
        BY <3>2, <4>1, FinalCovered
      <4> QED
        BY <1>1, <2>6, <4>2
    <3> QED
      BY <1>1, <3>2 DEF Collectable
  <2>14. ReferencesSound'
    <3>1. \A o \in Owners : column[o] # None => column[o] \in Files /\ column[o] # f
      BY <2>4 DEF TypeOK, ReferencesSound, ReferencedHasBytes, Exists
    <3> QED
      BY <1>1, <2>5, <3>1 DEF ReferencesSound, ReferencedHasBytes, OneOwner
  <2> QED
    BY <2>8, <2>9, <2>10, <2>11, <2>12, <2>13, <2>14
<1> QED
  BY <1>2, <1>3

\* A claim commits: the bytes are there, the collector cannot want the file.
LEMMA ClaimCommitsKeeps ==
    ASSUME FilesInv, NEW q \in Requests, NEW o \in Owners, ClaimCommits(q, o)
    PROVE  FilesInv'
<1> DEFINE f == request[q].file
           u == [row[f] EXCEPT !.state = "claimed", !.claimedAt = request[q].since]
<1> USE DEF FilesInv
<1>1. /\ faults' \in 0..MaxFaults /\ faults' = faults /\ request[q].pc = "claim"
      /\ Ends(q) /\ ~RowLocked(f)
      /\ UNCHANGED <<now, objects, put, coll, store, faults>>
  BY DEF ClaimCommits, TypeOK
<1>2. f \in Files /\ Alive(request[q])
  BY <1>1 DEF RequestsSound, ClaimSound
<1>3. CASE ~Rechecked(q)
  <2>1. UNCHANGED <<row, column>>
    BY <1>3 DEF ClaimCommits
  <2> QED
    BY <1>1, <2>1, RequestEnds
<1>4. CASE Rechecked(q)
  <2>1. row' = [row EXCEPT ![f] = u] /\ column' = [column EXCEPT ![o] = f]
    BY <1>4 DEF ClaimCommits
  <2>2. Exists(f) /\ row[f].state = "pending" /\ row[f].verified
    BY <1>4 DEF Rechecked, Claimable, Pending
  <2>3. ~Garbage(f)
    BY <1>1, <1>2, <1>4, RequestFacts, ClaimableNotGarbage DEF Rechecked
  <2>4. /\ row[f].place = "final" /\ put[f] = "sound" /\ <<f, "final">> \in objects
    BY <1>2, <2>2, <2>3 DEF RowsSound, BytesReachable
  <2>5. /\ u \in Upload /\ u # None /\ u.verified /\ u.place = "final"
        /\ u.state = "claimed" /\ u.created = row[f].created
        /\ u.claimedAt = request[q].since
    BY <1>2, <2>2, <2>4, UploadFacts, RequestFacts, NoneAssumption DEF Upload
  <2>6. \A p \in Requests : request[p].pc \in Completing /\ request[p].file = f =>
           request[p].since <= request[q].since
    BY <1>1 DEF RequestsSound, Younger
  <2> HIDE DEF f, u
  <2>7. request'[q] = NoRequest /\ \A p \in Requests : p # q => request'[p] = request[p]
    BY <1>1 DEF TypeOK, Ends
  <2>8. row'[f] = u /\ \A g \in Files : g # f => row'[g] = row[g]
    BY <1>2, <2>1 DEF TypeOK
  <2>9. \A g \in Files : Exists(g)' <=> Exists(g)
    BY <2>2, <2>5, <2>8 DEF Exists
  <2>10. column'[o] = f /\ \A x \in Owners : x # o => column'[x] = column[x]
    BY <2>1 DEF TypeOK
  <2>11. \A g \in Files : g # f /\ Garbage(g) => Garbage(g)'
    <3> SUFFICES ASSUME NEW g \in Files, g # f, Garbage(g) PROVE Garbage(g)'
      OBVIOUS
    <3>1. Exists(g) /\ now \in Nat
      BY ConstantsAreNumbers DEF Garbage, Unclaimed, Orphaned, Pending, TypeOK, Times
    <3>2. \A x \in Owners : column'[x] = g => column[x] = g
      BY <2>10
    <3> QED
      BY <1>1, <2>8, <2>9, <3>1, <3>2, GarbageStays
  <2>12. TypeOK'
    BY <1>1, <1>2, <2>1, <2>5, NoRequestType DEF TypeOK, Ends
  <2>13. RowsSound'
    BY <1>1, <2>4, <2>5, <2>8, <2>9 DEF RowsSound
  <2>14. RequestsSound'
    <3>1. \A g \in Files : ExpiresAt(g)' = ExpiresAt(g)
      BY <2>5, <2>8 DEF ExpiresAt
    <3>2. \A g \in Files : (row[g].place = "final" => row'[g].place = "final")
                           /\ (row[g].verified => row'[g].verified)
      BY <2>5, <2>8
    <3>3. \A p \in Requests : p # q =>
             Alive(request[p])' /\ CompletionSound(request[p])' /\ ClaimSound(request[p])'
      BY <1>1, <2>5, <2>6, <2>7, <2>8, <2>9, <3>1, <3>2
         DEF RequestsSound, Alive, CompletionSound, ClaimSound
    <3>4. Alive(request[q])' /\ ClaimSound(request[q])' /\ CompletionSound(request[q])'
      BY <2>7, NoRequestType DEF Alive, ClaimSound, CompletionSound, Completing
    <3>5. \A p, s \in Requests : Younger(request[p], request[s])'
      BY <2>7, NoRequestType DEF RequestsSound, Younger, Completing
    <3> QED
      BY <3>3, <3>4, <3>5 DEF RequestsSound
  <2>15. CollectorsSound'
    <3>1. \A c \in Collectors : coll[c].todo \subseteq Files
      BY DEF TypeOK, Pass
    <3>2. \A c \in Collectors : /\ \A g \in coll[c].todo : g # f
                                /\ Locks(coll[c]) => coll[c].file # f
      BY <2>2, <2>3 DEF CollectorsSound, PassSound, Doomed
    <3> QED
      BY <1>1, <2>8, <2>9, <2>11, <3>1, <3>2 DEF CollectorsSound, PassSound, Locks, Doomed
  <2>16. BytesReachable'
    BY <1>1, <2>4, <2>5, <2>8, <2>9, <2>11 DEF BytesReachable
  <2>17. Collectable'
    <3> SUFFICES ASSUME faults = 0 PROVE Collectable'
      BY <1>1 DEF Collectable
    <3>0. \A g \in Files : row'[g].place = row[g].place
      BY <2>4, <2>5, <2>8
    <3>2. ASSUME NEW g \in Files, <<g, "final">> \in objects,
                 ~(Exists(g)' /\ row'[g].place = "final")
          PROVE  \E p \in Requests : request'[p].pc = "finalize" /\ request'[p].file = g
      <4>1. ~(Exists(g) /\ row[g].place = "final")
        BY <2>9, <3>0, <3>2
      <4>2. PICK p \in Requests : request[p].pc = "finalize" /\ request[p].file = g
        BY <3>2, <4>1, FinalCovered
      <4> QED
        BY <1>1, <2>7, <4>2
    <3> QED
      BY <1>1, <3>2 DEF Collectable
  <2>18. ReferencesSound'
    <3>1. \A x \in Owners : column[x] # None =>
             /\ column[x] \in Files /\ column[x] # f
      BY <2>2 DEF TypeOK, ReferencesSound, ReferencedHasBytes
    <3>2. ReferencedHasBytes'
      BY <1>1, <1>2, <2>2, <2>4, <2>5, <2>8, <2>9, <2>10, <3>1
         DEF ReferencesSound, ReferencedHasBytes
    <3>3. OneOwner'
      BY <1>2, <2>10, <3>1, NoneAssumption DEF ReferencesSound, OneOwner
    <3> QED
      BY <3>2, <3>3 DEF ReferencesSound
  <2> QED
    BY <2>12, <2>13, <2>14, <2>15, <2>16, <2>17, <2>18
<1> QED
  BY <1>3, <1>4

\* Bytes may come to the staging key of an upload in any state while its URL
\* lives; by then no grace of the collector is over.
LEMMA ClientPutsKeeps ==
    ASSUME FilesInv, NEW f \in Files, ClientPuts(f)
    PROVE  FilesInv'
<1> USE DEF FilesInv
<1>1. /\ Exists(f) /\ now < ExpiresAt(f)
      /\ objects' = objects \cup {<<f, "staging">>}
      /\ UNCHANGED <<now, row, column, request, coll, store, faults>>
  BY DEF ClientPuts
<1>2. PICK size \in {"nothing", "sound", "oversize", None} :
         /\ put' = [put EXCEPT ![f] = size]
         /\ put[f] = "nothing" => size \in {"sound", "oversize"}
         /\ put[f] # "nothing" => size = put[f]
  BY DEF ClientPuts, TypeOK
<1>3. put[f] # None /\ size \in {"sound", "oversize"} /\ "nothing" # "sound"
  BY <1>1, <1>2 DEF RowsSound, TypeOK
<1>4. Pending(f) => ~Garbage(f)
  <2>1. ExpiresAt(f) \in Nat /\ now \in Nat
    BY <1>1, UploadFacts, ConstantsAreNumbers DEF TypeOK, Times
  <2> QED
    BY <1>1, <2>1, ConstantsAreNumbers DEF Garbage, Unclaimed, Orphaned, Pending
<1>5. \A g, x : <<g, x>> \in objects' <=> (<<g, x>> \in objects \/ (g = f /\ x = "staging"))
  BY <1>1
<1>6. /\ put'[f] = size /\ size # None
      /\ \A g \in Files : g # f => put'[g] = put[g]
      /\ \A g \in Files : put[g] = "sound" => put'[g] = "sound"
      /\ \A g \in Files : put[g] # None => put'[g] # None
  BY <1>2, <1>3, NoneAssumption DEF TypeOK
<1>7. TypeOK'
  BY <1>1, <1>2, <1>3 DEF TypeOK
<1>8. RowsSound'
  BY <1>1, <1>6 DEF RowsSound, Exists
<1>9. RequestsSound'
  BY <1>1, <1>5, <1>6 DEF RequestsSound, Alive, CompletionSound, ClaimSound, Younger,
     Exists, ExpiresAt
<1>10. CollectorsSound'
  <2>1. \A c \in Collectors : /\ coll[c].todo \subseteq Files
                              /\ Locks(coll[c]) /\ coll[c].file = f => row[f].place = "final"
    BY <1>1, <1>4, UploadFacts DEF TypeOK, Pass, CollectorsSound, PassSound, Pending, RowsSound
  <2> QED
    BY <1>1, <1>5, <1>6, <2>1, GarbageSame DEF CollectorsSound, PassSound, Locks, Doomed, Exists
<1>11. BytesReachable'
  <2>1. put[f] = "nothing" => row[f].place = "staging"
    BY <1>1, UploadFacts DEF RowsSound
  <2> QED
    BY <1>1, <1>2, <1>5, <1>6, <2>1, GarbageSame DEF BytesReachable, Exists
<1>12. Collectable'
  BY <1>1, <1>5 DEF Collectable, Exists
<1>13. ReferencesSound'
  <2>1. \A x \in Owners : column[x] # None => column[x] \in Files
    BY DEF TypeOK
  <2> QED
    BY <1>1, <1>5, <1>6, <2>1 DEF ReferencesSound, ReferencedHasBytes, OneOwner, Exists
<1> QED
  BY <1>7, <1>8, <1>9, <1>10, <1>11, <1>12, <1>13

\* Time passes, an owner clears its column, the store fails or recovers.
LEMMA SurroundingsKeep ==
    ASSUME FilesInv, UNCHANGED <<row, objects, put, request, coll>>,
           now' \in Times, now <= now', \A q \in Requests : Alive(request[q])',
           column' \in [Owners -> Files \cup {None}],
           \A o \in Owners : column'[o] \in {column[o], None},
           store' \in Store, faults' \in 0..MaxFaults,
           faults' = 0 => faults = 0 /\ store' = store
    PROVE  FilesInv'
<1> USE DEF FilesInv
<1>1. now' \in Nat
  BY ConstantsAreNumbers DEF Times
<1>2. \A f \in Files : Garbage(f) => Garbage(f)'
  <2> SUFFICES ASSUME NEW f \in Files, Garbage(f) PROVE Garbage(f)'
    OBVIOUS
  <2>1. Exists(f)
    BY DEF Garbage, Unclaimed, Orphaned, Pending
  <2>2. \A o \in Owners : column'[o] = f => column[o] = f
    BY NoneAssumption
  <2> QED
    BY <1>1, <2>1, <2>2, GarbageStays DEF Exists
<1>3. TypeOK'
  BY DEF TypeOK
<1>4. RowsSound'
  BY DEF RowsSound, Exists
<1>5. RequestsSound'
  BY DEF RequestsSound, CompletionSound, ClaimSound, Younger, Exists, ExpiresAt
<1>6. CollectorsSound'
  <2>1. \A c \in Collectors : coll[c].todo \subseteq Files
    BY DEF TypeOK, Pass
  <2> QED
    BY <1>2, <2>1 DEF CollectorsSound, PassSound, Locks, Doomed, Exists
<1>7. BytesReachable'
  BY <1>2 DEF BytesReachable, Exists
<1>8. Collectable'
  BY DEF Collectable, Exists
<1>9. ReferencesSound'
  BY DEF ReferencesSound, ReferencedHasBytes, OneOwner, Exists
<1> QED
  BY <1>3, <1>4, <1>5, <1>6, <1>7, <1>8, <1>9

LEMMA ClockKeeps ==
    ASSUME FilesInv, Tick
    PROVE  FilesInv'
<1>1. now' \in Times /\ now <= now' /\ now \in Nat /\ now' = now + 1
  BY ConstantsAreNumbers DEF Tick, FilesInv, TypeOK, Times
<1>2. \A q \in Requests : Alive(request[q])'
  <2> SUFFICES ASSUME NEW q \in Requests, request[q].pc # "idle"
               PROVE  request[q].since <= now' /\ now' <= request[q].since + Life
    BY DEF Alive, Tick
  <2>1. request[q].since <= now /\ now < request[q].since + Life
    BY DEF Tick, FilesInv, RequestsSound, Alive
  <2>2. request[q].since \in Nat
    BY RequestFacts DEF FilesInv
  <2> QED
    BY <1>1, <2>1, <2>2, ConstantsAreNumbers
<1> QED
  BY <1>1, <1>2, SurroundingsKeep DEF Tick, FilesInv, TypeOK

LEMMA OwnerKeeps ==
    ASSUME FilesInv, NEW o \in Owners, OwnerClears(o)
    PROVE  FilesInv'
<1>1. now \in Nat /\ now \in Times /\ faults \in 0..MaxFaults
  BY ConstantsAreNumbers DEF FilesInv, TypeOK, Times
<1>2. \A q \in Requests : Alive(request[q])'
  BY DEF OwnerClears, FilesInv, RequestsSound, Alive
<1>3. /\ column' \in [Owners -> Files \cup {None}]
      /\ \A x \in Owners : column'[x] \in {column[x], None}
  BY DEF OwnerClears, FilesInv, TypeOK
<1>4. store' \in Store
  BY DEF OwnerClears, FilesInv, TypeOK
<1> QED
  BY <1>1, <1>2, <1>3, <1>4, SurroundingsKeep DEF OwnerClears

\* The store fails, recovers, refuses, relents or is dropped by a deployment.
StoreStep ==
    \/ StoreFails \/ StoreRecovers \/ Undeclares
    \/ \E f \in Files : StoreRefuses(f) \/ StoreRelents(f)

LEMMA StoreKeeps ==
    ASSUME FilesInv, StoreStep
    PROVE  FilesInv'
<1> USE DEF FilesInv
<1>1. UNCHANGED <<now, row, objects, put, column, request, coll>>
  BY DEF StoreStep, StoreFails, StoreRecovers, Undeclares, StoreRefuses, StoreRelents
<1>2. now \in Nat /\ now \in Times /\ faults \in 0..MaxFaults
  BY ConstantsAreNumbers DEF TypeOK, Times
<1>3. \A q \in Requests : Alive(request[q])'
  BY <1>1 DEF RequestsSound, Alive
<1>4. column' \in [Owners -> Files \cup {None}]
  BY <1>1 DEF TypeOK
<1>5. store' \in Store
  <2>1. /\ store \in Store /\ store.refused \subseteq Files
    BY DEF TypeOK, Store
  <2>2. \A b \in BOOLEAN : /\ [store EXCEPT !.down = b] \in Store
                          /\ [store EXCEPT !.declared = b] \in Store
    BY <2>1 DEF Store
  <2>3. \A f \in Files : /\ [store EXCEPT !.refused = @ \cup {f}] \in Store
                         /\ [store EXCEPT !.refused = @ \ {f}] \in Store
    BY <2>1 DEF Store
  <2> QED
    BY <2>2, <2>3 DEF StoreStep, StoreFails, StoreRecovers, Undeclares, StoreRefuses,
       StoreRelents
<1>6. faults' \in 0..MaxFaults /\ faults' # 0
  <2>1. CASE StoreFails \/ Undeclares \/ \E f \in Files : StoreRefuses(f)
    BY <1>2, <2>1, ConstantsAreNumbers DEF StoreFails, Undeclares, StoreRefuses, Fault
  <2>2. CASE StoreRecovers \/ \E f \in Files : StoreRelents(f)
    BY <1>2, <2>2 DEF StoreRecovers, StoreRelents, Collectable
  <2> QED
    BY <2>1, <2>2 DEF StoreStep
<1> QED
  BY <1>1, <1>2, <1>3, <1>4, <1>5, <1>6, SurroundingsKeep

-----------------------------------------------------------------------------
\* A collector lists, locks, skips or lets go, and leaves everything else alone.
LEMMA CollectorMoves ==
    ASSUME FilesInv, NEW c \in Collectors, NEW k \in Pass,
           coll' = [coll EXCEPT ![c] = k],
           PassSound(k),
           Locks(k) => \A d \in Collectors :
                          d # c /\ Locks(coll[d]) => coll[d].file # k.file,
           UNCHANGED <<now, row, objects, put, column, request, store>>,
           faults' \in 0..MaxFaults, faults' = 0 => faults = 0
    PROVE  FilesInv'
<1> USE DEF FilesInv
<1>1. coll'[c] = k /\ \A d \in Collectors : d # c => coll'[d] = coll[d]
  BY DEF TypeOK
<1>2. TypeOK'
  BY DEF TypeOK
<1>3. RowsSound' /\ RequestsSound'
  BY DEF RowsSound, RequestsSound, Alive, CompletionSound, ClaimSound, Younger, Exists, ExpiresAt
<1>4. CollectorsSound'
  <2>1. \A d \in Collectors : PassSound(coll[d])'
    BY <1>1, GarbageSame DEF CollectorsSound, PassSound, Locks, Doomed, Exists
  <2>2. \A d, e \in Collectors :
           d # e /\ Locks(coll[d])' /\ Locks(coll[e])' => coll'[d].file # coll'[e].file
    BY <1>1 DEF CollectorsSound, Locks
  <2> QED
    BY <2>1, <2>2 DEF CollectorsSound, Locks
<1>5. BytesReachable'
  BY GarbageSame DEF BytesReachable, Exists
<1>6. Collectable'
  BY DEF Collectable, Exists
<1>7. ReferencesSound'
  BY DEF ReferencesSound, ReferencedHasBytes, OneOwner, Exists
<1> QED
  BY <1>2, <1>3, <1>4, <1>5, <1>6, <1>7

LEMMA ListsKeep ==
    ASSUME FilesInv, NEW c \in Collectors, NEW sweep \in {"pending", "claimed"},
           Lists(c, sweep),
           UNCHANGED <<now, row, objects, put, column, request, store, faults>>
    PROVE  FilesInv'
<1>1. PICK some \in SUBSET Candidates(sweep) :
         coll' = [coll EXCEPT ![c] =
             [pc |-> "each", sweep |-> sweep, todo |-> some, file |-> None,
              full |-> Cardinality(some) >= Batch, progressed |-> FALSE]]
  BY DEF Lists
<1> DEFINE full == Cardinality(some) >= Batch
           k == [pc |-> "each", sweep |-> sweep, todo |-> some, file |-> None,
                 full |-> full, progressed |-> FALSE]
<1>2. some \subseteq Files /\ \A f \in some : Garbage(f) /\ Exists(f)
  BY DEF Candidates, Garbage, Unclaimed, Orphaned, Pending
<1>3. full \in BOOLEAN
  OBVIOUS
<1>4. coll' = [coll EXCEPT ![c] = k]
  BY <1>1
<1> HIDE DEF full
<1>5. k \in Pass /\ k.pc = "each" /\ k.todo = some
  BY <1>2, <1>3 DEF Pass
<1> HIDE DEF k
<1>6. PassSound(k) /\ ~Locks(k)
  BY <1>2, <1>5 DEF PassSound, Locks, Doomed, FilesInv, RowsSound
<1> QED
  BY <1>4, <1>5, <1>6, CollectorMoves DEF FilesInv, TypeOK

LEMMA PassFacts ==
    ASSUME FilesInv, NEW c \in Collectors
    PROVE  /\ coll[c] \in Pass /\ coll[c].todo \subseteq Files
           /\ coll[c].sweep \in {"pending", "claimed"}
           /\ PassSound(coll[c])
           /\ NoPass \in Pass /\ PassSound(NoPass) /\ ~Locks(NoPass)
BY DEF FilesInv, TypeOK, Pass, CollectorsSound, NoPass, PassSound, Locks

LEMMA PassesKeep ==
    ASSUME FilesInv, NEW c \in Collectors,
           PassBegins(c) \/ BatchEnds(c) \/ CollectorDies(c)
    PROVE  FilesInv'
<1>1. CASE PassBegins(c)
  BY <1>1, ListsKeep DEF PassBegins
<1>2. CASE BatchEnds(c)
  <2>1. CASE \E sweep \in {"pending", "claimed"} : Lists(c, sweep)
    BY <1>2, <2>1, ListsKeep DEF BatchEnds
  <2>2. CASE coll' = [coll EXCEPT ![c] = NoPass]
    BY <1>2, <2>2, PassFacts, CollectorMoves DEF BatchEnds, FilesInv, TypeOK
  <2> QED
    BY <1>2, <2>1, <2>2, PassFacts DEF BatchEnds
<1>3. CASE CollectorDies(c)
  <2>1. faults' \in 0..MaxFaults /\ faults' # 0
    BY <1>3, ConstantsAreNumbers DEF CollectorDies, Fault, FilesInv, TypeOK
  <2> QED
    BY <1>3, <2>1, PassFacts, CollectorMoves DEF CollectorDies
<1> QED
  BY <1>1, <1>2, <1>3

LEMMA ReclaimLocksKeeps ==
    ASSUME FilesInv, NEW c \in Collectors, NEW f \in Files, ReclaimLocks(c, f)
    PROVE  FilesInv'
<1> DEFINE k == [coll[c] EXCEPT !.pc = "locked", !.file = f, !.todo = @ \ {f}]
<1>1. f \in coll[c].todo /\ Exists(f) /\ ~RowLocked(f)
  BY DEF ReclaimLocks
<1>2. coll' = [coll EXCEPT ![c] = k]
  BY DEF ReclaimLocks
<1>3. /\ k \in Pass /\ k.pc = "locked" /\ k.file = f
      /\ k.todo = coll[c].todo \ {f}
  BY PassFacts DEF Pass
<1> HIDE DEF k
<1>4. PassSound(k)
  BY <1>1, <1>3, PassFacts DEF PassSound, Locks, Doomed
<1>5. \A d \in Collectors : Locks(coll[d]) => coll[d].file # k.file
  BY <1>1, <1>3 DEF RowLocked, Locks
<1> QED
  BY <1>2, <1>3, <1>4, <1>5, CollectorMoves DEF ReclaimLocks, FilesInv, TypeOK

LEMMA ReclaimSkipsKeeps ==
    ASSUME FilesInv, NEW c \in Collectors, NEW f \in Files, ReclaimSkips(c, f)
    PROVE  FilesInv'
<1> DEFINE k == [coll[c] EXCEPT !.todo = @ \ {f}]
<1>1. coll' = [coll EXCEPT ![c] = k] /\ coll[c].pc = "each"
  BY DEF ReclaimSkips
<1>2. k \in Pass /\ k.pc = coll[c].pc /\ k.todo = coll[c].todo \ {f}
  BY PassFacts DEF Pass
<1> HIDE DEF k
<1>3. PassSound(k) /\ ~Locks(k)
  BY <1>1, <1>2, PassFacts DEF PassSound, Locks, Doomed
<1> QED
  BY <1>1, <1>2, <1>3, CollectorMoves DEF ReclaimSkips, FilesInv, TypeOK

\* Nothing that is still wanted is garbage.
LEMMA GarbageUnwanted ==
    ASSUME FilesInv, NEW f \in Files, Garbage(f)
    PROVE  /\ \A q \in Requests : request[q].pc \in Completing => request[q].file # f
           /\ \A o \in Owners : column[o] # f
<1>1. \A q \in Requests : request[q].pc \in Completing => request[q].file # f
  BY RequestFacts, CompletionNotGarbage DEF FilesInv, RequestsSound
<1>2. \A o \in Owners : column[o] # f
  BY NoneAssumption DEF FilesInv, ReferencesSound, ReferencedHasBytes, Garbage, Unclaimed,
     Orphaned, Pending
<1> QED
  BY <1>1, <1>2

LEMMA ReclaimDeletesObjectKeeps ==
    ASSUME FilesInv, NEW c \in Collectors, ReclaimDeletesObject(c)
    PROVE  FilesInv'
<1> DEFINE f == coll[c].file
           k == [coll[c] EXCEPT !.pc = "removed"]
           j == [coll[c] EXCEPT !.pc = "each", !.file = None]
<1> USE DEF FilesInv
<1>1. /\ coll[c].pc = "locked"
      /\ UNCHANGED <<now, row, put, column, request, store, faults>>
      /\ faults' \in 0..MaxFaults
  BY DEF ReclaimDeletesObject, TypeOK
<1>2. f \in Files /\ Exists(f) /\ Garbage(f) /\ \A g \in coll[c].todo : Doomed(g)
  BY <1>1, PassFacts DEF PassSound, Locks
<1>3. CASE store.declared /\ ~Serves(f)
  <2>1. coll' = [coll EXCEPT ![c] = j] /\ UNCHANGED objects
    BY <1>3 DEF ReclaimDeletesObject
  <2>2. j \in Pass /\ j.pc = "each" /\ j.todo = coll[c].todo
    BY PassFacts DEF Pass
  <2> HIDE DEF j
  <2>3. PassSound(j) /\ ~Locks(j)
    BY <1>2, <2>2 DEF PassSound, Locks
  <2> QED
    BY <1>1, <2>1, <2>2, <2>3, CollectorMoves
<1>4. CASE ~store.declared
  <2>1. coll' = [coll EXCEPT ![c] = k] /\ UNCHANGED objects
    BY <1>4 DEF ReclaimDeletesObject
  <2>2. k \in Pass /\ k.pc = "removed" /\ k.file = f /\ k.todo = coll[c].todo
    BY PassFacts DEF Pass
  <2>3. \A d \in Collectors : d # c /\ Locks(coll[d]) => coll[d].file # f
    BY <1>1 DEF CollectorsSound, Locks
  <2>4. faults # 0
    BY <1>4 DEF Collectable
  <2> HIDE DEF k
  <2>5. PassSound(k)
    BY <1>2, <2>2, <2>4 DEF PassSound, Locks
  <2>6. \A d \in Collectors : d # c /\ Locks(coll[d]) => coll[d].file # k.file
    BY <2>2, <2>3
  <2> HIDE DEF f
  <2> QED
    BY <1>1, <2>1, <2>2, <2>5, <2>6, CollectorMoves
<1>5. CASE store.declared /\ Serves(f)
  <2>1. coll' = [coll EXCEPT ![c] = k] /\ objects' = objects \ {<<f, row[f].place>>}
    BY <1>5 DEF ReclaimDeletesObject
  <2>2. k \in Pass /\ k.pc = "removed" /\ k.file = f /\ k.todo = coll[c].todo
    BY PassFacts DEF Pass
  <2>3. \A d \in Collectors : d # c /\ Locks(coll[d]) => coll[d].file # f
    BY <1>1 DEF CollectorsSound, Locks
  <2> HIDE DEF k, f
  <2>4. coll'[c] = k /\ \A d \in Collectors : d # c => coll'[d] = coll[d]
    BY <2>1 DEF TypeOK
  <2>5. /\ objects' \subseteq objects
        /\ <<f, row[f].place>> \notin objects'
        /\ \A g, x : g # f /\ <<g, x>> \in objects => <<g, x>> \in objects'
    BY <2>1
  <2>6. TypeOK'
    BY <1>1, <2>1, <2>2, <2>5 DEF TypeOK
  <2>7. RowsSound'
    BY <1>1 DEF RowsSound, Exists
  <2>8. RequestsSound'
    <3>1. \A q \in Requests : CompletionSound(request[q])'
      <4> SUFFICES ASSUME NEW q \in Requests, request[q].pc \in Completing
                   PROVE  CompletionSound(request[q])'
        BY <1>1 DEF CompletionSound
      <4>1. request[q].file # f
        BY <1>2, GarbageUnwanted
      <4> QED
        BY <1>1, <2>5, <4>1 DEF RequestsSound, CompletionSound, Exists, ExpiresAt
    <3> QED
      BY <1>1, <3>1 DEF RequestsSound, Alive, ClaimSound, Younger, Exists
  <2>9. CollectorsSound'
    <3>2. \A d \in Collectors : d # c => PassSound(coll[d])'
      BY <1>1, <2>4, <2>5, GarbageSame DEF CollectorsSound, PassSound, Locks, Doomed, Exists
    <3>3. PassSound(coll[c])'
      BY <1>1, <1>2, <2>2, <2>4, <2>5, GarbageSame DEF PassSound, Locks, Doomed, Exists
    <3>4. \A d, e \in Collectors :
             d # e /\ Locks(coll[d])' /\ Locks(coll[e])' => coll'[d].file # coll'[e].file
      BY <2>2, <2>3, <2>4 DEF CollectorsSound, Locks
    <3> QED
      BY <3>2, <3>3, <3>4 DEF CollectorsSound, Locks
  <2>10. BytesReachable'
    BY <1>1, <1>2, <2>5, GarbageSame DEF BytesReachable, Exists
  <2>11. Collectable'
    BY <1>1, <2>5 DEF Collectable, Exists
  <2>12. ReferencesSound'
    BY <1>1, <1>2, <2>5, GarbageUnwanted
       DEF ReferencesSound, ReferencedHasBytes, OneOwner, Exists
  <2> QED
    BY <2>6, <2>7, <2>8, <2>9, <2>10, <2>11, <2>12
<1> QED
  BY <1>3, <1>4, <1>5

LEMMA ReclaimDeletesRowKeeps ==
    ASSUME FilesInv, NEW c \in Collectors, ReclaimDeletesRow(c)
    PROVE  FilesInv'
<1> DEFINE k == [coll[c] EXCEPT !.pc = "each", !.file = None, !.progressed = TRUE]
<1> USE DEF FilesInv
<1>0. PICK f \in Files : f = coll[c].file
  BY PassFacts DEF ReclaimDeletesRow, PassSound, Locks
<1>1. /\ coll[c].pc = "removed"
      /\ row' = [row EXCEPT ![f] = None]
      /\ coll' = [coll EXCEPT ![c] = k]
      /\ UNCHANGED <<now, objects, put, column, request, store, faults>>
  BY <1>0 DEF ReclaimDeletesRow
<1>2. /\ f \in Files /\ Exists(f) /\ Garbage(f)
      /\ faults = 0 => <<f, row[f].place>> \notin objects
      /\ \A g \in coll[c].todo : Doomed(g)
      /\ coll[c].todo \subseteq Files
  BY <1>0, <1>1, PassFacts DEF PassSound, Locks
<1>3. k \in Pass /\ k.pc = "each" /\ k.todo = coll[c].todo
  BY PassFacts DEF Pass
<1>4. \A d \in Collectors : d # c /\ Locks(coll[d]) => coll[d].file # f
  BY <1>0, <1>1 DEF CollectorsSound, Locks
<1> HIDE DEF k
<1>5. coll'[c] = k /\ \A d \in Collectors : d # c => coll'[d] = coll[d]
  BY <1>1 DEF TypeOK
<1>6. row'[f] = None /\ \A g \in Files : g # f => row'[g] = row[g]
  BY <1>1, <1>2 DEF TypeOK
<1>7. ~Exists(f)' /\ \A g \in Files : g # f => (Exists(g)' <=> Exists(g))
  BY <1>6 DEF Exists
<1>8. \A g \in Files : g # f => (Garbage(g) => Garbage(g)')
  BY <1>1, <1>6 DEF Garbage, Unclaimed, Orphaned, Pending, Exists, ExpiresAt
<1>9. TypeOK'
  BY <1>1, <1>3 DEF TypeOK
<1>10. RowsSound'
  BY <1>1, <1>6, <1>7 DEF RowsSound
<1>11. RequestsSound'
  <2>1. \A q \in Requests : CompletionSound(request[q])'
    <3> SUFFICES ASSUME NEW q \in Requests, request[q].pc \in Completing
                 PROVE  CompletionSound(request[q])'
      BY <1>1 DEF CompletionSound
    <3>1. request[q].file # f
      BY <1>2, GarbageUnwanted
    <3> QED
      BY <1>1, <1>6, <1>7, <3>1 DEF RequestsSound, CompletionSound, ExpiresAt
  <2>2. \A q \in Requests : ClaimSound(request[q])'
    BY <1>1, <1>6, <1>7 DEF RequestsSound, ClaimSound
  <2> QED
    BY <1>1, <2>1, <2>2 DEF RequestsSound, Alive, Younger
<1>12. CollectorsSound'
  <2>1. \A d \in Collectors : coll[d].todo \subseteq Files
    BY PassFacts
  <2>2. put[f] # None
    BY <1>2 DEF RowsSound
  <2>3. \A d \in Collectors : d # c => PassSound(coll[d])'
    <3> SUFFICES ASSUME NEW d \in Collectors, d # c PROVE PassSound(coll[d])'
      OBVIOUS
    <3>1. coll'[d] = coll[d] /\ PassSound(coll[d])
      BY <1>5 DEF CollectorsSound
    <3>2. \A g \in coll[d].todo : Doomed(g)'
      BY <1>1, <1>7, <1>8, <2>1, <2>2, <3>1 DEF PassSound, Doomed
    <3>3. Locks(coll[d]) => /\ coll[d].file \in Files /\ coll[d].file # f
                            /\ Exists(coll[d].file)' /\ Garbage(coll[d].file)'
      BY <1>4, <1>5, <1>7, <1>8, <3>1 DEF PassSound
    <3>4. coll[d].pc = "removed" /\ faults = 0 => <<coll[d].file, row'[coll[d].file].place>> \notin objects
      BY <1>6, <3>1, <3>3 DEF PassSound, Locks
    <3> QED
      BY <1>1, <3>1, <3>2, <3>3, <3>4 DEF PassSound, Locks
  <2>4. PassSound(coll[c])'
    BY <1>1, <1>2, <1>3, <1>5, <1>7, <1>8, <2>2 DEF PassSound, Locks, Doomed
  <2>5. \A d, e \in Collectors :
           d # e /\ Locks(coll[d])' /\ Locks(coll[e])' => coll'[d].file # coll'[e].file
    BY <1>3, <1>5 DEF CollectorsSound, Locks
  <2> QED
    BY <2>3, <2>4, <2>5 DEF CollectorsSound, Locks
<1>13. BytesReachable'
  BY <1>1, <1>6, <1>7, <1>8 DEF BytesReachable
<1>14. Collectable'
  <2> SUFFICES ASSUME faults = 0 PROVE Collectable'
    BY <1>1 DEF Collectable
  <2>1. \A q \in Requests : request[q].pc \in {"finalize", "unstage"} => request[q].file # f
    BY <1>2, GarbageUnwanted DEF Completing
  <2>2. <<f, "final">> \notin objects
    BY <1>2, <2>1, FinalCovered
  <2>3. store = [down |-> FALSE, refused |-> {}, declared |-> TRUE]
    BY DEF Collectable
  <2>5. ASSUME NEW g \in Files, <<g, "final">> \in objects,
               ~(Exists(g)' /\ row'[g].place = "final")
        PROVE  \E p \in Requests : request[p].pc = "finalize" /\ request[p].file = g
    BY <1>6, <1>7, <2>2, <2>5, FinalCovered
  <2> QED
    BY <1>1, <2>3, <2>5 DEF Collectable
<1>15. ReferencesSound'
  <2>1. \A o \in Owners : column[o] # f /\ (column[o] # None => column[o] \in Files)
    BY <1>2, GarbageUnwanted DEF TypeOK
  <2> QED
    BY <1>1, <1>6, <1>7, <2>1 DEF ReferencesSound, ReferencedHasBytes, OneOwner
<1> QED
  BY <1>9, <1>10, <1>11, <1>12, <1>13, <1>14, <1>15

-----------------------------------------------------------------------------
LEMMA FilesStep == FilesInv /\ [Next]_vars => FilesInv'
<1> SUFFICES ASSUME FilesInv, [Next]_vars PROVE FilesInv'
  OBVIOUS
<1>1. ASSUME NEW q \in Requests,
             \/ MintBegins(q) \/ RequestStep(q) \/ RequestDies(q)
             \/ \E f \in Files : CompleteLoads(q, f) \/ ClaimBegins(q, f)
      PROVE  FilesInv'
  BY <1>1, BeginsKeep, MintCountsKeeps, MintInsertsKeeps, CompleteHeadsKeeps,
     CompleteCopiesKeeps, CompleteFinalizesKeeps, CompleteUnstagesKeeps,
     ClaimCommitsKeeps, RequestDiesKeeps DEF RequestStep
<1>2. ASSUME NEW c \in Collectors, CollectorStep(c) \/ CollectorDies(c)
      PROVE  FilesInv'
  BY <1>2, PassesKeep, ReclaimLocksKeeps, ReclaimSkipsKeeps, ReclaimDeletesObjectKeeps,
     ReclaimDeletesRowKeeps DEF CollectorStep
<1>3. CASE \E f \in Files : ClientPuts(f)
  BY <1>3, ClientPutsKeeps
<1>4. CASE (\E o \in Owners : OwnerClears(o)) \/ StoreStep
  BY <1>4, OwnerKeeps, StoreKeeps
<1>5. CASE Tick
  BY <1>5, ClockKeeps
<1>6. CASE UNCHANGED vars
  <2>1. \A q \in Requests : Alive(request[q])'
    BY <1>6 DEF vars, FilesInv, RequestsSound, Alive
  <2>2. now \in Nat
    BY ConstantsAreNumbers DEF FilesInv, TypeOK, Times
  <2> QED
    BY <1>6, <2>1, <2>2, SurroundingsKeep DEF vars, FilesInv, TypeOK
<1> QED
  BY <1>1, <1>2, <1>3, <1>4, <1>5, <1>6 DEF Next, StoreStep

LEMMA FilesInvAlways == Spec => []FilesInv
BY FilesInit, FilesStep, PTL DEF Spec

\* Whatever the collectors have listed and lock by id alone, and whatever is
\* claimed at once, a file an owning row refers to has its bytes and one owner:
\* the graces of the sweeps are longer than a claim's transaction lives.
THEOREM ReferencesAreSound == Spec => []ReferencesSound
<1>1. FilesInv => ReferencesSound
  BY DEF FilesInv
<1> QED
  BY <1>1, FilesInvAlways, PTL

\* complete_inner may be repeated: through crashes, outages and calls at once,
\* the bytes a client stored are at the key its row names until the row is
\* garbage.
THEOREM BytesStayReachable == Spec => []StoredBytesStayReachable
<1>1. FilesInv => StoredBytesStayReachable
  BY DEF FilesInv, BytesReachable, StoredBytesStayReachable
<1> QED
  BY <1>1, FilesInvAlways, PTL

\* Who may take the name of a staging object away: the row's repointing, which
\* leaves the object to the completion call that did it; the end of such a call;
\* and the collector, after the object.
LEMMA StagingKeepsName ==
    ASSUME FilesInv, [Next]_vars, faults' = 0, NEW f \in Files,
           <<f, "staging">> \in objects, <<f, "staging">> \in objects',
           Named(<<f, "staging">>)
    PROVE  Named(<<f, "staging">>)'
<1> DEFINE ByRow == Exists(f) /\ row[f].place = "staging"
           ByCall == \E q \in Requests : request[q].file = f /\ request[q].pc = "unstage"
<1>1. Named(<<f, "staging">>) <=> ByRow \/ ByCall
  BY DEF Named
<1>2. Named(<<f, "staging">>)' <=> ByRow' \/ ByCall'
  BY DEF Named, Exists
<1>3. CASE UNCHANGED <<row, request>>
  BY <1>1, <1>2, <1>3 DEF Exists
<1>4. ASSUME NEW q \in Requests, NEW r, request' = [request EXCEPT ![q] = r],
             request[q].pc # "unstage", UNCHANGED row
      PROVE  ByRow' \/ ByCall'
  BY <1>1, <1>4 DEF FilesInv, TypeOK, Exists
<1>5. ASSUME NEW q \in Requests,
             \/ MintBegins(q) \/ MintCounts(q) \/ CompleteHeads(q) \/ CompleteCopies(q)
             \/ \E g \in Files : CompleteLoads(q, g) \/ ClaimBegins(q, g)
      PROVE  ByRow' \/ ByCall'
  BY <1>4, <1>5 DEF MintBegins, MintCounts, CompleteHeads, CompleteCopies, CompleteLoads,
     ClaimBegins, Begin, MovesTo, Ends, Proceeds
<1>6. ASSUME NEW q \in Requests, RequestDies(q) PROVE FALSE
  BY <1>6, ConstantsAreNumbers DEF RequestDies, Fault, FilesInv, TypeOK
<1>7. ASSUME NEW q \in Requests, MintInserts(q) PROVE ByRow' \/ ByCall'
  <2>1. CASE UNCHANGED row
    BY <1>4, <1>7, <2>1 DEF MintInserts, Ends
  <2>2. CASE ~UNCHANGED row
    <3>1. PICK g \in Files : Fresh(g) /\ \E u : row' = [row EXCEPT ![g] = u]
      BY <1>7, <2>2 DEF MintInserts
    <3>2. CASE ByRow
      <4>1. g # f
        BY <3>1, <3>2 DEF Fresh, FilesInv, RowsSound
      <4> QED
        BY <3>1, <3>2, <4>1 DEF Exists, FilesInv, TypeOK
    <3>3. CASE ByCall
      BY <1>7, <3>3 DEF MintInserts, Ends, FilesInv, TypeOK
    <3> QED
      BY <1>1, <3>2, <3>3
  <2> QED
    BY <2>1, <2>2
<1>8. ASSUME NEW q \in Requests, CompleteFinalizes(q) PROVE ByRow' \/ ByCall'
  <2>1. CASE UNCHANGED row
    BY <1>4, <1>8, <2>1 DEF CompleteFinalizes, Ends, Proceeds, MovesTo
  <2>2. CASE ~UNCHANGED row
    <3>1. PICK g \in Files : g = request[q].file
      BY <1>8 DEF CompleteFinalizes, FilesInv, RequestsSound, CompletionSound, Completing
    <3>2. /\ request[q].pc = "finalize"
          /\ request' = [request EXCEPT ![q].pc = "unstage"]
          /\ \E u : row' = [row EXCEPT ![g] = u]
      BY <1>8, <2>2, <3>1 DEF CompleteFinalizes, Proceeds, After, MovesTo
    <3>3. /\ request'[q].pc = "unstage" /\ request'[q].file = g
          /\ \A p \in Requests : p # q => request'[p] = request[p]
      BY <3>1, <3>2 DEF FilesInv, TypeOK, Request
    <3>4. g # f => row'[f] = row[f]
      BY <3>2 DEF FilesInv, TypeOK
    <3> QED
      BY <1>1, <3>2, <3>3, <3>4 DEF Exists
  <2> QED
    BY <2>1, <2>2
<1>9. ASSUME NEW q \in Requests, CompleteUnstages(q) PROVE ByRow' \/ ByCall'
  <2>1. store = [down |-> FALSE, refused |-> {}, declared |-> TRUE]
    BY <1>9 DEF CompleteUnstages, FilesInv, Collectable
  <2>2. request[q].pc = "unstage" /\ objects' = objects \ {<<request[q].file, "staging">>}
    BY <1>9, <2>1 DEF CompleteUnstages, Serves
  <2>3. request[q].file # f
    BY <2>2
  <2>4. UNCHANGED row /\ \A p \in Requests : p # q => request'[p] = request[p]
    BY <1>9 DEF CompleteUnstages, Proceeds, MovesTo, Ends, FilesInv, TypeOK
  <2> QED
    BY <1>1, <2>3, <2>4 DEF Exists
<1>10. ASSUME NEW q \in Requests, NEW o \in Owners, ClaimCommits(q, o)
       PROVE  ByRow' \/ ByCall'
  <2>1. CASE UNCHANGED row
    BY <1>4, <1>10, <2>1 DEF ClaimCommits, Ends
  <2>2. CASE ~UNCHANGED row
    <3>1. PICK g \in Files : g = request[q].file
      BY <1>10 DEF ClaimCommits, FilesInv, RequestsSound, ClaimSound
    <3>2. /\ request[q].pc = "claim" /\ Ends(q)
          /\ Exists(g) /\ row[g].verified
          /\ \E u : row' = [row EXCEPT ![g] = u]
      BY <1>10, <2>2, <3>1 DEF ClaimCommits, Rechecked, Claimable, Pending
    <3>3. CASE ByRow
      <4>1. g # f
        BY <3>2, <3>3 DEF FilesInv, RowsSound
      <4> QED
        BY <3>2, <3>3, <4>1 DEF Exists, FilesInv, TypeOK
    <3>4. CASE ByCall
      BY <3>2, <3>4 DEF Ends, FilesInv, TypeOK
    <3> QED
      BY <1>1, <3>3, <3>4
  <2> QED
    BY <2>1, <2>2
<1>11. ASSUME NEW c \in Collectors, ReclaimDeletesRow(c) PROVE ByRow' \/ ByCall'
  <2>1. PICK g \in Files : g = coll[c].file
    BY <1>11, PassFacts DEF ReclaimDeletesRow, PassSound, Locks
  <2>2. /\ row' = [row EXCEPT ![g] = None] /\ UNCHANGED <<request, objects>>
        /\ <<g, row[g].place>> \notin objects
    BY <1>11, <2>1, PassFacts DEF ReclaimDeletesRow, PassSound
  <2>3. CASE ByRow
    <3>1. g # f
      BY <2>2, <2>3
    <3> QED
      BY <2>2, <2>3, <3>1 DEF Exists, FilesInv, TypeOK
  <2> QED
    BY <1>1, <2>2, <2>3
<1>12. ASSUME NEW c \in Collectors,
              \/ PassBegins(c) \/ BatchEnds(c) \/ CollectorDies(c) \/ ReclaimDeletesObject(c)
              \/ \E g \in Files : ReclaimLocks(c, g) \/ ReclaimSkips(c, g)
       PROVE  UNCHANGED <<row, request>>
  BY <1>12 DEF PassBegins, BatchEnds, CollectorDies, ReclaimDeletesObject, ReclaimLocks,
     ReclaimSkips
<1>13. CASE \/ \E g \in Files : ClientPuts(g)
            \/ \E o \in Owners : OwnerClears(o)
            \/ Tick \/ StoreStep \/ UNCHANGED vars
  BY <1>3, <1>13 DEF ClientPuts, OwnerClears, Tick, StoreStep, StoreFails, StoreRecovers,
     StoreRefuses, StoreRelents, Undeclares, vars
<1> HIDE DEF ByRow, ByCall
<1> QED
  BY <1>2, <1>3, <1>5, <1>6, <1>7, <1>8, <1>9, <1>10, <1>11, <1>12, <1>13
     DEF Next, RequestStep, CollectorStep, StoreStep

\* Only a client stores an object at a staging key.
LEMMA StagingComesFromClient ==
    ASSUME FilesInv, [Next]_vars, NEW f \in Files,
           <<f, "staging">> \notin objects, <<f, "staging">> \in objects'
    PROVE  Exists(f) /\ UNCHANGED row
<1>1. CASE \E g \in Files : ClientPuts(g)
  BY <1>1 DEF ClientPuts
<1>2. ASSUME NEW q \in Requests, CompleteCopies(q) \/ CompleteUnstages(q) PROVE FALSE
  BY <1>2 DEF CompleteCopies, CompleteUnstages
<1>3. ASSUME NEW c \in Collectors, ReclaimDeletesObject(c) PROVE FALSE
  BY <1>3 DEF ReclaimDeletesObject
<1>4. ASSUME NEW q \in Requests,
             \/ MintBegins(q) \/ MintCounts(q) \/ MintInserts(q) \/ CompleteHeads(q)
             \/ CompleteFinalizes(q) \/ RequestDies(q)
             \/ \E g \in Files : CompleteLoads(q, g) \/ ClaimBegins(q, g)
             \/ \E o \in Owners : ClaimCommits(q, o)
      PROVE  FALSE
  BY <1>4 DEF MintBegins, MintCounts, MintInserts, CompleteHeads, CompleteFinalizes,
     RequestDies, CompleteLoads, ClaimBegins, ClaimCommits
<1>5. ASSUME NEW c \in Collectors,
             \/ PassBegins(c) \/ BatchEnds(c) \/ CollectorDies(c) \/ ReclaimDeletesRow(c)
             \/ \E g \in Files : ReclaimLocks(c, g) \/ ReclaimSkips(c, g)
      PROVE  FALSE
  BY <1>5 DEF PassBegins, BatchEnds, CollectorDies, ReclaimDeletesRow, ReclaimLocks,
     ReclaimSkips
<1>6. CASE (\E o \in Owners : OwnerClears(o)) \/ Tick \/ StoreStep \/ UNCHANGED vars
  BY <1>6 DEF OwnerClears, Tick, StoreStep, StoreFails, StoreRecovers, StoreRefuses,
     StoreRelents, Undeclares, vars
<1> QED
  BY <1>1, <1>2, <1>3, <1>4, <1>5, <1>6 DEF Next, RequestStep, CollectorStep, StoreStep

\* Without crashes, refusals and redeployments no race of completion calls,
\* claims, sweeps and late PUTs leaves a copy the collector cannot find through a
\* row, or takes the name of a staging object; what stays without a name is what
\* a client stores at the staging key of an upload that has moved on.
THEOREM ObjectsAreCollectable == Spec => EveryObjectCollectable
<1>1. FilesInv /\ FilesInv' /\ [Next]_vars =>
         [faults' = 0 =>
            \A ob \in objects' :
               \/ Named(ob)'
               \/ ob \in objects /\ ~Named(ob)
               \/ ob \notin objects /\ ob[2] = "staging" /\ row[ob[1]].place = "final"]_vars
  <2> SUFFICES ASSUME FilesInv, FilesInv', [Next]_vars, faults' = 0, NEW ob \in objects'
               PROVE  \/ Named(ob)'
                      \/ ob \in objects /\ ~Named(ob)
                      \/ ob \notin objects /\ ob[2] = "staging" /\ row[ob[1]].place = "final"
    OBVIOUS
  <2>1. PICK f \in Files, x \in {"staging", "final"} : ob = <<f, x>>
    BY DEF FilesInv, TypeOK
  <2>2. CASE x = "final"
    <3>1. \/ Exists(f)' /\ row'[f].place = "final"
          \/ \E q \in Requests : request'[q].pc = "finalize" /\ request'[q].file = f
      BY <2>1, <2>2 DEF FilesInv, Collectable
    <3> QED
      BY <2>1, <2>2, <3>1 DEF Named, Exists
  <2>3. CASE x = "staging" /\ ob \in objects
    BY <2>1, <2>3, StagingKeepsName
  <2>4. CASE x = "staging" /\ ob \notin objects
    <3>1. Exists(f) /\ UNCHANGED row
      BY <2>1, <2>4, StagingComesFromClient
    <3>2. row[f].place \in {"staging", "final"}
      BY <3>1, UploadFacts DEF FilesInv
    <3>3. row[f].place = "staging" => Named(<<f, "staging">>)'
      BY <3>1 DEF Named, Exists
    <3> QED
      BY <2>1, <2>4, <3>2, <3>3
  <2> QED
    BY <2>1, <2>2, <2>3, <2>4
<1> QED
  BY <1>1, FilesInvAlways, PTL DEF Spec, EveryObjectCollectable

-----------------------------------------------------------------------------
(* The budget of uploads. *)

Unexpired(t) == {f \in Files : Pending(f) /\ ExpiresAt(f) > t}
Recent(t) == {f \in Files : Exists(f) /\ row[f].created > t - Minute}
Window(t) == {f \in Files : Exists(f) /\ row[f].created \in (t - Minute + 1)..t}

LEMMA SubsetIsSmaller ==
    ASSUME NEW S \in SUBSET Files, NEW T \in SUBSET S
    PROVE  /\ Cardinality(T) \in Nat /\ Cardinality(S) \in Nat
           /\ Cardinality(T) <= Cardinality(S)
<1>1. IsFiniteSet(S)
  BY FilesAssumption, FS_Subset
<1>2. IsFiniteSet(T) /\ Cardinality(T) <= Cardinality(S)
  BY <1>1, FS_Subset
<1> QED
  BY <1>1, <1>2, FS_CardinalityType

LEMMA OneMore ==
    ASSUME NEW S \in SUBSET Files, NEW f \in Files, NEW T \in SUBSET (S \cup {f}),
           NEW n \in Nat, Cardinality(S) < n
    PROVE  Cardinality(T) <= n
<1>1. IsFiniteSet(S)
  BY FilesAssumption, FS_Subset
<1>2. Cardinality(S) \in Nat /\ Cardinality(S \cup {f}) <= Cardinality(S) + 1
  <2>1. Cardinality(S) \in Nat
    BY <1>1, FS_CardinalityType
  <2>2. Cardinality(S \cup {f}) = IF f \in S THEN Cardinality(S) ELSE Cardinality(S) + 1
    BY <1>1, FS_AddElement
  <2> QED
    BY <2>1, <2>2
<1>3. S \cup {f} \in SUBSET Files
  OBVIOUS
<1>4. Cardinality(T) <= Cardinality(S \cup {f}) /\ Cardinality(T) \in Nat
      /\ Cardinality(S \cup {f}) \in Nat
  BY <1>3, SubsetIsSmaller
<1> QED
  BY <1>2, <1>4

\* Rows are claimed and deleted, and time passes: the counts only fall.
LEMMA CountsFall ==
    ASSUME FilesInv, BudgetInv, now' \in Nat, now <= now',
           \A f \in Files : Exists(f)' => /\ Exists(f)
                                          /\ row'[f].created = row[f].created
                                          /\ Pending(f)' => Pending(f),
           \A q \in Requests : request'[q].pc = "counted" =>
              BudgetOk(request'[q].since),
           \A p, q \in Requests :
              request'[p].pc = "counted" /\ request'[q].pc = "counted" => p = q,
           \A q \in Requests : request'[q].pc = "counted" => request'[q].since \in Nat
    PROVE  BudgetInv'
<1>1. \A f \in Files : Exists(f)' => row[f].created \in Nat /\ ExpiresAt(f)' = ExpiresAt(f)
                                     /\ ExpiresAt(f) \in Nat
  BY UploadFacts DEF FilesInv, ExpiresAt
<1>2. now \in Nat
  BY ConstantsAreNumbers DEF FilesInv, TypeOK, Times
<1>3. \A t \in Nat : Unexpired(t)' \subseteq Unexpired(t) /\ Recent(t)' \subseteq Recent(t)
                     /\ Window(t)' \subseteq Window(t)
  BY <1>1 DEF Unexpired, Recent, Window, Pending
<1>4. ASSUME NEW t \in Nat, BudgetOk(t) PROVE BudgetOk(t)'
  <2>1. Unexpired(t) \in SUBSET Files /\ Recent(t) \in SUBSET Files
        /\ Unexpired(t)' \in SUBSET Unexpired(t) /\ Recent(t)' \in SUBSET Recent(t)
    BY <1>3 DEF Unexpired, Recent
  <2>2. Cardinality(Unexpired(t)) < MaxPending /\ Cardinality(Recent(t)) < MaxPerMinute
    BY <1>4 DEF BudgetOk, Unexpired, Recent
  <2>3. Cardinality(Unexpired(t)') < MaxPending /\ Cardinality(Recent(t)') < MaxPerMinute
    BY <2>1, <2>2, SubsetIsSmaller, ConstantsAreNumbers
  <2> QED
    BY <2>3 DEF BudgetOk, Unexpired, Recent
<1>5. BudgetHeld'
  BY <1>4 DEF BudgetHeld
<1>6. Cardinality(Unexpired(now)') <= MaxPending
  <2>1. Unexpired(now) \in SUBSET Files /\ Unexpired(now)' \in SUBSET Unexpired(now)
    BY <1>1, <1>2 DEF Unexpired, Pending
  <2>2. Cardinality(Unexpired(now)) <= MaxPending
    BY DEF BudgetInv, BudgetKept, Unexpired
  <2> QED
    BY <2>1, <2>2, SubsetIsSmaller, ConstantsAreNumbers
<1>7. \A t \in Times : Cardinality(Window(t)') <= MaxPerMinute
  <2> SUFFICES ASSUME NEW t \in Times PROVE Cardinality(Window(t)') <= MaxPerMinute
    OBVIOUS
  <2>1. t \in Nat
    BY ConstantsAreNumbers DEF Times
  <2>2. Window(t) \in SUBSET Files /\ Window(t)' \in SUBSET Window(t)
    BY <1>3, <2>1 DEF Window
  <2>3. Cardinality(Window(t)) <= MaxPerMinute
    BY DEF BudgetInv, BudgetKept, Window
  <2> QED
    BY <2>2, <2>3, SubsetIsSmaller, ConstantsAreNumbers
<1>8. BudgetKept'
  BY <1>6, <1>7 DEF BudgetKept, Unexpired, Window
<1> QED
  BY <1>5, <1>8 DEF BudgetInv

LEMMA BudgetInit == Init => BudgetInv
<1> SUFFICES ASSUME Init PROVE BudgetInv
  OBVIOUS
<1>1. BudgetHeld
  BY DEF Init, BudgetHeld, NoRequest
<1>2. Unexpired(now) = {} /\ \A t \in Times : Window(t) = {}
  BY DEF Init, Unexpired, Window, Pending, Exists
<1>3. 0 <= MaxPending /\ 0 <= MaxPerMinute /\ Cardinality({}) = 0
  BY FS_EmptySet, ConstantsAreNumbers
<1>4. Cardinality(Unexpired(now)) = 0 /\ \A t \in Times : Cardinality(Window(t)) = 0
  BY <1>2, <1>3
<1>5. BudgetKept
  BY <1>3, <1>4 DEF BudgetKept, Unexpired, Window
<1> QED
  BY <1>1, <1>5 DEF BudgetInv

\* Steps that take no place in the budget.
LEMMA CountsFallIn ==
    ASSUME FilesInv, BudgetInv, now' \in Nat, now <= now',
           \A q \in Requests : request'[q].pc = "counted" => request'[q] = request[q],
           \A f \in Files : Exists(f)' => /\ Exists(f)
                                          /\ row'[f].created = row[f].created
                                          /\ Pending(f)' => Pending(f)
    PROVE  BudgetInv'
<1>1. \A q \in Requests : request[q].since \in Nat
  BY RequestFacts DEF FilesInv
<1> QED
  BY <1>1, CountsFall DEF BudgetInv, BudgetHeld

\* The count and the advisory lock.
LEMMA MintCountsBudget ==
    ASSUME FilesInv, BudgetInv, NEW q \in Requests, MintCounts(q)
    PROVE  BudgetInv'
<1>1. /\ BudgetLockFree
      /\ UNCHANGED <<now, row>>
      /\ now \in Nat
  BY ConstantsAreNumbers DEF MintCounts, FilesInv, TypeOK, Times
<1>2. \A f \in Files : Exists(f)' => Exists(f) /\ row'[f].created = row[f].created
                                     /\ (Pending(f)' => Pending(f))
  BY <1>1 DEF Exists, Pending
<1>3. \A p \in Requests : p # q => request'[p] = request[p]
  BY DEF MintCounts, MovesTo, Ends, FilesInv, TypeOK
<1>4. \A p \in Requests : request'[p].pc = "counted" => p = q
  BY <1>1, <1>3 DEF BudgetLockFree
<1>5. request'[q].pc = "counted" => /\ BudgetOk(request[q].since)
                                    /\ request'[q].since = request[q].since
  <2>1. CASE BudgetOk(request[q].since)
    BY <2>1 DEF MintCounts, MovesTo, FilesInv, TypeOK, Request
  <2>2. CASE ~BudgetOk(request[q].since)
    BY <2>2, NoRequestType DEF MintCounts, Ends, FilesInv, TypeOK
  <2> QED
    BY <2>1, <2>2
<1>6. request[q].since \in Nat
  BY RequestFacts DEF FilesInv
<1> QED
  BY <1>1, <1>2, <1>4, <1>5, <1>6, CountsFall

\* The insert: the row goes on top of what was counted under the lock, with the
\* old now() the count was made for.
LEMMA MintInsertsBudget ==
    ASSUME FilesInv, BudgetInv, NEW q \in Requests, MintInserts(q)
    PROVE  BudgetInv'
<1>1. /\ request[q].pc = "counted" /\ Ends(q) /\ now' = now
      /\ now \in Nat /\ request[q].since \in Nat /\ request[q].since <= now
  BY RequestFacts DEF MintInserts, FilesInv, RequestsSound, Alive
<1>2. \A p \in Requests : request'[p].pc # "counted"
  BY <1>1, NoRequestType DEF Ends, FilesInv, TypeOK, BudgetInv, BudgetHeld
<1>3. CASE UNCHANGED row
  BY <1>1, <1>2, <1>3, CountsFallIn DEF Exists, Pending
<1>4. CASE ~UNCHANGED row
  <2>1. PICK f \in Files :
           /\ Fresh(f)
           /\ row' = [row EXCEPT ![f] =
                 [state |-> "pending", place |-> "staging", verified |-> FALSE,
                  created |-> request[q].since, claimedAt |-> 0]]
    BY <1>4 DEF MintInserts
  <2>2. /\ row'[f].created = request[q].since
        /\ \A g \in Files : g # f => row'[g] = row[g]
    BY <2>1 DEF FilesInv, TypeOK
  <2>3. PICK s \in Nat : s = request[q].since
    BY <1>1
  <2>4. \A g \in Files : Exists(g) => row[g].created \in Nat /\ ExpiresAt(g) \in Nat
    BY UploadFacts DEF FilesInv
  <2>5. /\ Unexpired(s) \in SUBSET Files /\ Cardinality(Unexpired(s)) < MaxPending
        /\ Recent(s) \in SUBSET Files /\ Cardinality(Recent(s)) < MaxPerMinute
    BY <1>1, <2>3 DEF BudgetInv, BudgetHeld, BudgetOk, Unexpired, Recent
  <2>6. Cardinality(Unexpired(now)') <= MaxPending
    <3>1. Unexpired(now)' \in SUBSET (Unexpired(s) \cup {f})
      BY <1>1, <2>2, <2>3, <2>4 DEF Unexpired, Pending, Exists, ExpiresAt
    <3> QED
      BY <2>5, <3>1, OneMore, ConstantsAreNumbers
  <2>7. ASSUME NEW t \in Times PROVE Cardinality(Window(t)') <= MaxPerMinute
    <3>1. t \in Nat /\ Minute \in Nat
      BY ConstantsAreNumbers DEF Times
    <3>2. CASE t - Minute < s /\ s <= t
      <4>1. Window(t)' \in SUBSET (Recent(s) \cup {f})
        BY <2>2, <2>3, <2>4, <3>1, <3>2 DEF Window, Recent, Exists
      <4> QED
        BY <2>5, <4>1, OneMore, ConstantsAreNumbers
    <3>3. CASE ~(t - Minute < s /\ s <= t)
      <4>1. Window(t)' \in SUBSET Window(t) /\ Window(t) \in SUBSET Files
        BY <2>2, <2>3, <2>4, <3>1, <3>3 DEF Window, Exists
      <4>2. Cardinality(Window(t)) <= MaxPerMinute
        BY DEF BudgetInv, BudgetKept, Window
      <4> QED
        BY <4>1, <4>2, SubsetIsSmaller, ConstantsAreNumbers
    <3> QED
      BY <3>2, <3>3
  <2>8. BudgetKept'
    BY <2>6, <2>7 DEF BudgetKept, Unexpired, Window
  <2> QED
    BY <1>2, <2>8 DEF BudgetInv, BudgetHeld
<1> QED
  BY <1>3, <1>4

LEMMA BudgetStep == FilesInv /\ BudgetInv /\ [Next]_vars => BudgetInv'
<1> SUFFICES ASSUME FilesInv, BudgetInv, [Next]_vars PROVE BudgetInv'
  OBVIOUS
<1>1. now \in Nat
  BY ConstantsAreNumbers DEF FilesInv, TypeOK, Times
<1>2. CASE UNCHANGED <<now, row, request>>
  BY <1>1, <1>2, CountsFallIn DEF Exists, Pending
<1>3. ASSUME NEW q \in Requests, NEW r, r.pc # "counted",
             request' = [request EXCEPT ![q] = r], UNCHANGED <<now, row>>
      PROVE  BudgetInv'
  <2>1. \A p \in Requests : request'[p].pc = "counted" => request'[p] = request[p]
    BY <1>3 DEF FilesInv, TypeOK
  <2> QED
    BY <1>1, <1>3, <2>1, CountsFallIn DEF Exists, Pending
<1>4. ASSUME NEW q \in Requests, Ends(q), UNCHANGED <<now, row>> PROVE BudgetInv'
  BY <1>3, <1>4, NoRequestType DEF Ends
<1>5. ASSUME NEW q \in Requests, NEW pc, pc # "counted", MovesTo(q, pc), UNCHANGED <<now, row>>
      PROVE  BudgetInv'
  <2>1. [request[q] EXCEPT !.pc = pc].pc = pc
    BY DEF FilesInv, TypeOK, Request
  <2> QED
    BY <1>3, <1>5, <2>1 DEF MovesTo
<1>6. ASSUME NEW q \in Requests, NEW pc, NEW f, pc # "counted", Begin(q, pc, f), UNCHANGED <<now, row>>
      PROVE  BudgetInv'
  BY <1>3, <1>6 DEF Begin
<1>7. ASSUME NEW q \in Requests,
             \/ MintBegins(q) \/ RequestDies(q)
             \/ \E f \in Files : CompleteLoads(q, f) \/ ClaimBegins(q, f)
      PROVE  BudgetInv'
  BY <1>4, <1>6, <1>7 DEF MintBegins, RequestDies, CompleteLoads, ClaimBegins
<1>8. ASSUME NEW q \in Requests, CompleteHeads(q) \/ CompleteCopies(q) \/ CompleteUnstages(q)
      PROVE  BudgetInv'
  BY <1>4, <1>5, <1>8 DEF CompleteHeads, CompleteCopies, CompleteUnstages, Proceeds, After
<1>9. ASSUME NEW q \in Requests, CompleteFinalizes(q) PROVE BudgetInv'
  <2>1. CASE UNCHANGED row
    BY <1>4, <1>5, <1>9, <2>1 DEF CompleteFinalizes, Proceeds, After
  <2>2. CASE ~UNCHANGED row
    <3>1. /\ Pending(request[q].file) /\ request[q].pc = "finalize" /\ request[q].file \in Files
          /\ row' = [row EXCEPT ![request[q].file] =
                       [row[request[q].file] EXCEPT !.verified = TRUE, !.place = "final"]]
          /\ MovesTo(q, "unstage") /\ now' = now
      BY <1>9, <2>2 DEF CompleteFinalizes, Proceeds, After, FilesInv, RequestsSound,
         CompletionSound, Completing
    <3>2. row[request[q].file] \in Upload
      BY <3>1, UploadFacts DEF FilesInv, Pending
    <3>3. \A f \in Files : Exists(f)' => /\ Exists(f)
                                         /\ row'[f].created = row[f].created
                                         /\ Pending(f)' => Pending(f)
      BY <3>1, <3>2 DEF Exists, Pending, FilesInv, TypeOK, Upload
    <3>4. \A p \in Requests : request'[p].pc = "counted" => request'[p] = request[p]
      BY <3>1 DEF MovesTo, FilesInv, TypeOK, Request
    <3> QED
      BY <1>1, <3>1, <3>3, <3>4, CountsFallIn
  <2> QED
    BY <2>1, <2>2
<1>10. ASSUME NEW q \in Requests, NEW o \in Owners, ClaimCommits(q, o) PROVE BudgetInv'
  <2>1. CASE UNCHANGED row
    BY <1>4, <1>10, <2>1 DEF ClaimCommits
  <2>2. CASE ~UNCHANGED row
    <3>1. /\ Pending(request[q].file) /\ request[q].pc = "claim" /\ request[q].file \in Files
          /\ row' = [row EXCEPT ![request[q].file] =
                       [row[request[q].file] EXCEPT !.state = "claimed",
                                                    !.claimedAt = request[q].since]]
          /\ Ends(q) /\ now' = now
      BY <1>10, <2>2 DEF ClaimCommits, Rechecked, Claimable, FilesInv, RequestsSound, ClaimSound
    <3>2. row[request[q].file] \in Upload
      BY <3>1, UploadFacts DEF FilesInv, Pending
    <3>3. \A f \in Files : Exists(f)' => /\ Exists(f)
                                         /\ row'[f].created = row[f].created
                                         /\ Pending(f)' => Pending(f)
      BY <3>1, <3>2 DEF Exists, Pending, FilesInv, TypeOK, Upload
    <3>4. \A p \in Requests : request'[p].pc = "counted" => request'[p] = request[p]
      BY <3>1, NoRequestType DEF Ends, FilesInv, TypeOK
    <3> QED
      BY <1>1, <3>1, <3>3, <3>4, CountsFallIn
  <2> QED
    BY <2>1, <2>2
<1>11. ASSUME NEW c \in Collectors, CollectorStep(c) \/ CollectorDies(c)
       PROVE  BudgetInv'
  <2>1. CASE ReclaimDeletesRow(c)
    BY <1>1, <2>1, CountsFallIn DEF ReclaimDeletesRow, Exists, Pending, FilesInv, TypeOK
  <2> QED
    BY <1>2, <1>11, <2>1 DEF CollectorStep, CollectorDies, PassBegins, BatchEnds, ReclaimLocks,
       ReclaimSkips, ReclaimDeletesObject
<1>12. CASE Tick
  BY <1>1, <1>12, CountsFallIn DEF Tick, Exists, Pending
<1>13. CASE \/ \E f \in Files : ClientPuts(f)
            \/ \E o \in Owners : OwnerClears(o)
            \/ StoreStep \/ UNCHANGED vars
  BY <1>2, <1>13 DEF ClientPuts, OwnerClears, StoreStep, StoreFails, StoreRecovers,
     StoreRefuses, StoreRelents, Undeclares, vars
<1> QED
  BY <1>7, <1>8, <1>9, <1>10, <1>11, <1>12, <1>13, MintCountsBudget, MintInsertsBudget
     DEF Next, RequestStep, StoreStep

\* file_upload_budget_ok under its advisory lock keeps the session within
\* max_pending and max_per_minute for any number of mints at once, although a
\* caller that waited counts and inserts with the now() it began with.
THEOREM BudgetIsKept == Spec => []BudgetKept
<1>1. BudgetInv => BudgetKept
  BY DEF BudgetInv
<1> QED
  BY <1>1, BudgetInit, BudgetStep, FilesInvAlways, PTL DEF Spec
=============================================================================
