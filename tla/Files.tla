-------------------------------- MODULE Files --------------------------------
(***************************************************************************)
(* File attachments: minting an upload URL under the session's budget, the *)
(* completion call, the claim in the statement that writes the owning      *)
(* column, and the collector, over two stores that commit on their own:    *)
(* the rows of donat.file_uploads and the objects of the S3 backend.       *)
(*                                                                         *)
(*   crates/server/src/files.rs             completion and collector       *)
(*   crates/sqlgen/src/lib.rs               mint and claim statements      *)
(*   migrations/V20260801093000, V20260807120000   catalog and budget      *)
(*                                                                         *)
(* One session, one attachment column, one backend, which a deployment may *)
(* drop from the metadata.  now() is the start of a transaction, so a      *)
(* request remembers when it began; Life bounds how long it runs           *)
(* (statement_timeout and the HTTP timeouts) and is short beside the       *)
(* collector's days.  Of the bytes only their size counts.                 *)
(***************************************************************************)
EXTENDS Integers, FiniteSets

CONSTANTS Files,         \* identities uploads are minted under
          Owners,        \* rows of the table that owns the column
          Requests,      \* HTTP requests in flight: mint, completion, claim
          Collectors,    \* replicas that run the collector
          None,
          UploadTtl,     \* life of an upload URL
          PendingTtl,    \* gc.pending_ttl_days
          OrphanGrace,   \* gc.orphan_grace_days
          Minute,        \* window of the minting rate
          MaxPending, MaxPerMinute,
          Batch,         \* COLLECT_BATCH
          Life,          \* bound on the run of one request
          MaxTime,       \* bound on the clock
          MintUntil,     \* uploads minted later outlive the bounded clock
          MaxFaults      \* bound on crashes, outages, refusals, redeployments

ASSUME FilesAssumption ==
    /\ {UploadTtl, Minute, Batch, Life} \subseteq Nat \ {0}
    /\ {PendingTtl, OrphanGrace, MaxPending, MaxPerMinute,
        MaxTime, MintUntil, MaxFaults} \subseteq Nat
    /\ IsFiniteSet(Files)
    /\ Life <= PendingTtl /\ Life <= OrphanGrace
    /\ UploadTtl <= OrphanGrace    \* a day at most against a day at least

VARIABLES now,
          row,       \* donat.file_uploads by id
          objects,   \* <<id, place>> of the objects that exist
          put,       \* what the client stored for an id once it is minted, for the record
          column,    \* the attachment column of the owning rows
          request,   \* the requests in flight
          coll,      \* the collectors
          store,     \* the object store, as the replicas see it
          faults

vars == <<now, row, objects, put, column, request, coll, store, faults>>

Times == 0..MaxTime
Upload == [state : {"pending", "claimed"}, place : {"staging", "final"},
           verified : BOOLEAN, created : Times, claimedAt : Times]

\* The steps of a request between which other replicas act.
Steps == {"mint", "counted", "head", "copy", "finalize", "unstage", "claim"}

Request == [pc : Steps \cup {"idle"}, file : Files \cup {None}, since : Times]
Pass == [pc : {"idle", "each", "locked", "removed"}, sweep : {"pending", "claimed"},
         todo : SUBSET Files, file : Files \cup {None}, full : BOOLEAN,
         progressed : BOOLEAN]

\* Whether the store is silent, the files whose objects it refuses to touch,
\* and whether the metadata still declares the backend.
Store == [down : BOOLEAN, refused : SUBSET Files, declared : BOOLEAN]

\* None is none of the values it stands for the absence of.
ASSUME NoneAssumption ==
    None \notin Files \cup {"nothing", "sound", "oversize"} \cup Upload

NoRequest == [pc |-> "idle", file |-> None, since |-> 0]
NoPass == [pc |-> "idle", sweep |-> "pending", todo |-> {}, file |-> None,
           full |-> FALSE, progressed |-> FALSE]

TypeOK ==
    /\ now \in Times
    /\ row \in [Files -> Upload \cup {None}]
    /\ objects \subseteq Files \X {"staging", "final"}
    /\ put \in [Files -> {None, "nothing", "sound", "oversize"}]
    /\ column \in [Owners -> Files \cup {None}]
    /\ request \in [Requests -> Request]
    /\ coll \in [Collectors -> Pass]
    /\ store \in Store
    /\ faults \in 0..MaxFaults

Init ==
    /\ now = 0
    /\ row = [f \in Files |-> None]
    /\ objects = {}
    /\ put = [f \in Files |-> None]
    /\ column = [o \in Owners |-> None]
    /\ request = [q \in Requests |-> NoRequest]
    /\ coll = [c \in Collectors |-> NoPass]
    /\ store = [down |-> FALSE, refused |-> {}, declared |-> TRUE]
    /\ faults = 0

\* An identity is minted once: it was never handed out before.
Fresh(f) == put[f] = None
Exists(f) == row[f] # None
Pending(f) == Exists(f) /\ row[f].state = "pending"
ExpiresAt(f) == row[f].created + UploadTtl

\* The row lock a collector holds from FOR UPDATE to its commit.
RowLocked(f) == \E c \in Collectors :
                   coll[c].pc \in {"locked", "removed"} /\ coll[c].file = f
Ends(q) == request' = [request EXCEPT ![q] = NoRequest]
\* The store does what is asked of the objects of f.
Serves(f) == ~store.down /\ f \notin store.refused
MovesTo(q, pc) == request' = [request EXCEPT ![q].pc = pc]

-----------------------------------------------------------------------------
(* Minting.                                                                *)

Begin(q, pc, f) ==
    /\ request[q].pc = "idle"
    /\ request' = [request EXCEPT ![q] = [pc |-> pc, file |-> f, since |-> now]]

MintBegins(q) ==
    /\ store.declared /\ now <= MintUntil /\ \E f \in Files : Fresh(f)
    /\ Begin(q, "mint", None)
    /\ UNCHANGED <<now, row, objects, put, column, coll, store, faults>>

\* donat.file_upload_budget_ok: both counts in a snapshot taken after the lock,
\* against the now() the transaction began with.
BudgetOk(since) ==
    /\ Cardinality({f \in Files : Pending(f) /\ ExpiresAt(f) > since}) < MaxPending
    /\ Cardinality({f \in Files : Exists(f) /\ row[f].created > since - Minute}) < MaxPerMinute

\* Mutation of BudgetLockFree: no advisory lock.
BudgetLockNone == TRUE

\* pg_advisory_xact_lock of the session, held until the insert commits.
BudgetLockFree == \A p \in Requests : request[p].pc # "counted"

MintCounts(q) ==
    /\ request[q].pc = "mint"
    /\ BudgetLockFree
    /\ IF BudgetOk(request[q].since) THEN MovesTo(q, "counted") ELSE Ends(q)
    /\ UNCHANGED <<now, row, objects, put, column, coll, store, faults>>

\* Which fresh identity the row gets makes no difference; Files bounds them.
MintInserts(q) ==
    /\ request[q].pc = "counted"
    /\ IF \E g \in Files : Fresh(g)
       THEN LET f == CHOOSE g \in Files : Fresh(g) IN
            /\ row' = [row EXCEPT ![f] =
                 [state |-> "pending", place |-> "staging", verified |-> FALSE,
                  created |-> request[q].since, claimedAt |-> 0]]
            /\ put' = [put EXCEPT ![f] = "nothing"]
       ELSE UNCHANGED <<row, put>>
    /\ Ends(q)
    /\ UNCHANGED <<now, objects, column, coll, store, faults>>

\* The client stores bytes at the staging address, as often as it likes while
\* the URL lives and whatever has become of the upload: nothing revokes the URL,
\* and the row outlives it.  The size is the signed Content-Length every time.
ClientPuts(f) ==
    /\ Exists(f) /\ now < ExpiresAt(f) /\ Serves(f)
    /\ \E size \in IF put[f] = "nothing" THEN {"sound", "oversize"} ELSE {put[f]} :
          put' = [put EXCEPT ![f] = size]
    /\ objects' = objects \cup {<<f, "staging">>}
    /\ UNCHANGED <<now, row, column, request, coll, store, faults>>

-----------------------------------------------------------------------------
(* complete_inner: one call, or a client that repeats it.                  *)

\* load_upload and the early returns; a row that names its final key is done.
CompleteLoads(q, f) ==
    /\ Pending(f) /\ now < ExpiresAt(f)
    /\ store.declared
    /\ row[f].place = "staging"
    /\ Begin(q, "head", f)
    /\ UNCHANGED <<now, row, objects, put, column, coll, store, faults>>

\* Mutation of After: the staging object goes before the row is repointed.
AfterCopyUnstage(pc) == CASE pc = "copy" -> "unstage" [] pc = "unstage" -> "finalize"
                          [] OTHER -> "idle"

\* The order of the calls after HEAD: copy, point the row at the copy, and
\* only then drop the staging object.
After(pc) == CASE pc = "copy" -> "finalize" [] pc = "finalize" -> "unstage"
               [] OTHER -> "idle"
Proceeds(q) == IF After(request[q].pc) = "idle" THEN Ends(q)
                                                ELSE MovesTo(q, After(request[q].pc))

\* HEAD: the object is there and within the declared size.
Acceptable(f) == <<f, "staging">> \in objects /\ put[f] = "sound"

CompleteHeads(q) ==
    /\ request[q].pc = "head"
    /\ IF Serves(request[q].file) /\ Acceptable(request[q].file) THEN MovesTo(q, "copy") ELSE Ends(q)
    /\ UNCHANGED <<now, row, objects, put, column, coll, store, faults>>

CompleteCopies(q) ==
    LET f == request[q].file IN
    /\ request[q].pc = "copy"
    /\ IF Serves(f) /\ <<f, "staging">> \in objects
       THEN objects' = objects \cup {<<f, "final">>} /\ Proceeds(q)
       ELSE Ends(q) /\ UNCHANGED objects
    /\ UNCHANGED <<now, row, put, column, coll, store, faults>>

\* finalize_upload: waits for the row; no row still pending is an error.
CompleteFinalizes(q) ==
    LET f == request[q].file IN
    /\ request[q].pc = "finalize"
    /\ ~RowLocked(f)
    /\ IF Pending(f)
       THEN /\ row' = [row EXCEPT ![f].verified = TRUE, ![f].place = "final"]
            /\ Proceeds(q)
       ELSE Ends(q) /\ UNCHANGED row
    /\ UNCHANGED <<now, objects, put, column, coll, store, faults>>

\* The staging object goes on a best-effort basis.
CompleteUnstages(q) ==
    /\ request[q].pc = "unstage"
    /\ objects' = IF Serves(request[q].file) THEN objects \ {<<request[q].file, "staging">>}
                                             ELSE objects
    /\ Proceeds(q)
    /\ UNCHANGED <<now, row, put, column, coll, store, faults>>

-----------------------------------------------------------------------------
(* The claim, one statement with the write of the owning row.              *)

\* Mutation of Claimable: the expiry is not looked at.
ClaimableLate(f, since) == Pending(f) /\ row[f].verified

\* The claim's conditions, against the now() of its transaction.
Claimable(f, since) == Pending(f) /\ row[f].verified /\ ExpiresAt(f) > since

ClaimBegins(q, f) ==
    /\ Claimable(f, now)
    /\ Begin(q, "claim", f)
    /\ UNCHANGED <<now, row, objects, put, column, coll, store, faults>>

\* After waiting for the row the UPDATE evaluates its conditions on the version
\* it finds; without a row the statement raises and writes nothing.
Rechecked(q) == Claimable(request[q].file, request[q].since)

ClaimCommits(q, o) ==
    LET f == request[q].file IN
    /\ request[q].pc = "claim"
    /\ ~RowLocked(f)
    /\ IF Rechecked(q)
       THEN /\ row' = [row EXCEPT ![f].state = "claimed", ![f].claimedAt = request[q].since]
            /\ column' = [column EXCEPT ![o] = f]
       ELSE UNCHANGED <<row, column>>
    /\ Ends(q)
    /\ UNCHANGED <<now, objects, put, coll, store, faults>>

\* The application clears the column or deletes its row.
OwnerClears(o) ==
    /\ column[o] # None
    /\ column' = [column EXCEPT ![o] = None]
    /\ UNCHANGED <<now, row, objects, put, request, coll, store, faults>>

-----------------------------------------------------------------------------
(* The collector.                                                          *)

\* Mutation of Unclaimed: no grace past the expiry.
UnclaimedAtExpiry(f) == Pending(f) /\ ExpiresAt(f) <= now

\* First sweep: nobody claimed it, and the grace past its expiry is over.
Unclaimed(f) == Pending(f) /\ ExpiresAt(f) < now - PendingTtl
\* Second sweep: claimed long enough ago and no owning row refers to it.
Orphaned(f) == Exists(f) /\ row[f].state = "claimed" /\ row[f].claimedAt < now - OrphanGrace
               /\ \A o \in Owners : column[o] # f
Garbage(f) == Unclaimed(f) \/ Orphaned(f)

\* Mutation of Candidates: the second sweep is missing.
CandidatesPending(sweep) == {f \in Files : sweep = "pending" /\ Unclaimed(f)}

Candidates(sweep) == {f \in Files : IF sweep = "pending" THEN Unclaimed(f) ELSE Orphaned(f)}
\* ORDER BY expires_at, or claimed_at.
Rank(sweep, f) == IF sweep = "pending" THEN ExpiresAt(f) ELSE row[f].claimedAt

\* One batch of a sweep is only listed: nothing is locked yet.
Lists(c, sweep) ==
    LET all == Candidates(sweep) IN
    \E some \in SUBSET all :
       /\ Cardinality(some) = (IF Cardinality(all) < Batch THEN Cardinality(all) ELSE Batch)
       /\ \A f \in some, g \in all \ some : Rank(sweep, f) <= Rank(sweep, g)
       /\ coll' = [coll EXCEPT ![c] =
             [pc |-> "each", sweep |-> sweep, todo |-> some, file |-> None,
              full |-> Cardinality(some) >= Batch, progressed |-> FALSE]]

PassBegins(c) ==
    /\ coll[c].pc = "idle"
    /\ Lists(c, "pending")
    /\ UNCHANGED <<now, row, objects, put, column, request, store, faults>>

\* reclaim: FOR UPDATE SKIP LOCKED by id alone.
ReclaimLocks(c, f) ==
    /\ coll[c].pc = "each" /\ f \in coll[c].todo
    /\ Exists(f) /\ ~RowLocked(f)
    /\ coll' = [coll EXCEPT ![c].pc = "locked", ![c].file = f, ![c].todo = @ \ {f}]
    /\ UNCHANGED <<now, row, objects, put, column, request, store, faults>>

\* Another replica or a running claim holds the row, or it is gone.
ReclaimSkips(c, f) ==
    /\ coll[c].pc = "each" /\ f \in coll[c].todo
    /\ \/ ~Exists(f)
       \/ RowLocked(f)
       \/ \E q \in Requests : request[q].pc = "claim" /\ request[q].file = f
    /\ coll' = [coll EXCEPT ![c].todo = @ \ {f}]
    /\ UNCHANGED <<now, row, objects, put, column, request, store, faults>>

\* The object goes first; a store that does not answer, or refuses this object,
\* rolls the claim back.  The object of a backend that is no longer declared is
\* out of reach and is left behind.
ReclaimDeletesObject(c) ==
    LET f == coll[c].file IN
    /\ coll[c].pc = "locked"
    /\ \/ /\ store.declared /\ ~Serves(f)
          /\ coll' = [coll EXCEPT ![c].pc = "each", ![c].file = None]
          /\ UNCHANGED objects
       \/ /\ store.declared => Serves(f)
          /\ coll' = [coll EXCEPT ![c].pc = "removed"]
          /\ objects' = IF store.declared THEN objects \ {<<f, row[f].place>>} ELSE objects
    /\ UNCHANGED <<now, row, put, column, request, store, faults>>

ReclaimDeletesRow(c) ==
    /\ coll[c].pc = "removed"
    /\ row' = [row EXCEPT ![coll[c].file] = None]
    /\ coll' = [coll EXCEPT ![c].pc = "each", ![c].file = None, ![c].progressed = TRUE]
    /\ UNCHANGED <<now, objects, put, column, request, store, faults>>

\* drain_continues: a short batch is the end; a full one that freed nothing is
\* left to the next pass.
DrainContinues(full, progressed) == full /\ progressed

BatchEnds(c) ==
    /\ coll[c].pc = "each" /\ coll[c].todo = {}
    /\ \/ /\ DrainContinues(coll[c].full, coll[c].progressed)
          /\ Lists(c, coll[c].sweep)
       \/ /\ ~DrainContinues(coll[c].full, coll[c].progressed)
          /\ coll[c].sweep = "pending"
          /\ Lists(c, "claimed")
       \/ /\ ~DrainContinues(coll[c].full, coll[c].progressed)
          /\ coll[c].sweep = "claimed"
          /\ coll' = [coll EXCEPT ![c] = NoPass]
    /\ UNCHANGED <<now, row, objects, put, column, request, store, faults>>

-----------------------------------------------------------------------------
(* Time and faults.                                                        *)

\* No request outlives its timeouts.
Tick ==
    /\ now < MaxTime
    /\ \A q \in Requests : request[q].pc # "idle" => now < request[q].since + Life
    /\ now' = now + 1
    /\ UNCHANGED <<row, objects, put, column, request, coll, store, faults>>

Fault == faults < MaxFaults /\ faults' = faults + 1

\* The process dies, or the caller's timeout drops the request: what had
\* committed stays, an open transaction is rolled back.
RequestDies(q) ==
    /\ request[q].pc # "idle" /\ Fault /\ Ends(q)
    /\ UNCHANGED <<now, row, objects, put, column, coll, store>>

CollectorDies(c) ==
    /\ coll[c].pc # "idle" /\ Fault
    /\ coll' = [coll EXCEPT ![c] = NoPass]
    /\ UNCHANGED <<now, row, objects, put, column, request, store>>

StoreFails ==
    /\ ~store.down /\ Fault /\ store' = [store EXCEPT !.down = TRUE]
    /\ UNCHANGED <<now, row, objects, put, column, request, coll>>

StoreRecovers ==
    /\ store.down /\ store' = [store EXCEPT !.down = FALSE]
    /\ UNCHANGED <<now, row, objects, put, column, request, coll, faults>>

StoreRefuses(f) ==
    /\ f \notin store.refused /\ Fault
    /\ store' = [store EXCEPT !.refused = @ \cup {f}]
    /\ UNCHANGED <<now, row, objects, put, column, request, coll>>

StoreRelents(f) ==
    /\ f \in store.refused /\ store' = [store EXCEPT !.refused = @ \ {f}]
    /\ UNCHANGED <<now, row, objects, put, column, request, coll, faults>>

\* A deployment no longer declares the backend the uploads went to.
Undeclares ==
    /\ store.declared /\ Fault /\ store' = [store EXCEPT !.declared = FALSE]
    /\ UNCHANGED <<now, row, objects, put, column, request, coll>>

RequestStep(q) ==
    \/ MintCounts(q) \/ MintInserts(q)
    \/ CompleteHeads(q) \/ CompleteCopies(q) \/ CompleteFinalizes(q) \/ CompleteUnstages(q)
    \/ \E o \in Owners : ClaimCommits(q, o)

CollectorStep(c) ==
    \/ PassBegins(c) \/ BatchEnds(c)
    \/ \E f \in Files : ReclaimLocks(c, f) \/ ReclaimSkips(c, f)
    \/ ReclaimDeletesObject(c) \/ ReclaimDeletesRow(c)

Next ==
    \/ \E q \in Requests :
         \/ MintBegins(q) \/ RequestStep(q) \/ RequestDies(q)
         \/ \E f \in Files : CompleteLoads(q, f) \/ ClaimBegins(q, f)
    \/ \E f \in Files : ClientPuts(f)
    \/ \E o \in Owners : OwnerClears(o)
    \/ \E c \in Collectors : CollectorStep(c) \/ CollectorDies(c)
    \/ \E f \in Files : StoreRefuses(f) \/ StoreRelents(f)
    \/ Tick \/ StoreFails \/ StoreRecovers \/ Undeclares

Spec == Init /\ [][Next]_vars

\* A replica's collector runs for ever; nothing obliges the store to come back,
\* a request to end, a client to act or the clock to move.
Fairness == \A c \in Collectors : WF_vars(CollectorStep(c))
FairSpec == Spec /\ Fairness

-----------------------------------------------------------------------------
(* Properties.                                                             *)

\* A file an owning row refers to is claimed, was verified, and its bytes are in
\* the store under the key its row names.
ReferencedHasBytes ==
    \A o \in Owners : column[o] # None =>
       LET f == column[o] IN
       /\ Exists(f) /\ row[f].state = "claimed" /\ row[f].verified
       /\ put[f] = "sound" /\ <<f, row[f].place>> \in objects

\* No two owning rows have the same upload.
OneOwner ==
    \A o, p \in Owners : o # p /\ column[o] = column[p] => column[o] = None

\* References are sound: whatever the collectors have listed and are about to
\* reclaim (files.rs locks a row by id alone and looks at neither its state nor
\* the column again), the bytes of a referenced file are there; and of two
\* writes that submit one upload at once, each having seen it pending, only one
\* gets it (the claim moves pending to claimed once).
ReferencesSound == ReferencedHasBytes /\ OneOwner

\* complete_inner copies, repoints the row and drops the staging object in an
\* order that survives a crash anywhere and a repeated call: bytes the client
\* stored are always at the key the live row names, so the call can be repeated.
StoredBytesStayReachable ==
    \A f \in Files : Exists(f) /\ put[f] # "nothing" /\ ~RowLocked(f) =>
       \/ <<f, row[f].place>> \in objects
       \/ Garbage(f)

\* file_upload_budget_ok under concurrency: unexpired unclaimed uploads stay
\* within max_pending and the uploads of every minute within max_per_minute,
\* although a caller that waited for the lock counts with an old now().
BudgetKept ==
    /\ Cardinality({f \in Files : Pending(f) /\ ExpiresAt(f) > now}) <= MaxPending
    /\ \A t \in Times :
         Cardinality({f \in Files : Exists(f) /\ row[f].created \in (t - Minute + 1)..t})
           <= MaxPerMinute

\* A row names the object, or a completion call that is about to see to it.
Named(ob) ==
    \/ Exists(ob[1]) /\ row[ob[1]].place = ob[2]
    \/ \E q \in Requests :
          /\ request[q].file = ob[1]
          /\ request[q].pc = IF ob[2] = "final" THEN "finalize" ELSE "unstage"

\* The collector finds objects through rows: as long as no process died, the
\* store did what it was asked and its backend is declared, no race of
\* completions, claims and sweeps leaves an object nothing names, nor takes the
\* name of one.  The exception is the one complete_inner accepts: what a late PUT
\* stores at the staging key of a row that has moved on.
EveryObjectCollectable ==
    [][faults' = 0 =>
         \A ob \in objects' :
            \/ Named(ob)'
            \/ ob \in objects /\ ~Named(ob)
            \/ ob \notin objects /\ ob[2] = "staging" /\ row[ob[1]].place = "final"]_vars

\* No row stays what the sweeps look for, unless the store stops answering or
\* refuses its object, or as many others as fill a batch.
GarbageGoes ==
    \A f \in Files :
        []<>(~Garbage(f) \/ ~Serves(f) \/ Cardinality(store.refused) >= Batch)

\* One pass ends, also while the store never answers again.
PassEnds == \A c \in Collectors : []<>(coll[c].pc = "idle")

\* The collector gets on: what the sweeps look for is reclaimed in the end,
\* whatever dies in between (collect retries what it left) and also where a single
\* object is refused, and no outage keeps
\* it inside one pass (drain_continues leaves a full batch that freed nothing to
\* the next one).
CollectorProgress == GarbageGoes /\ PassEnds
=============================================================================
