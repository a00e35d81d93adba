---------------------------- MODULE Credentials ----------------------------
(***************************************************************************)
(* The OAuth2 credential of one connector instance                         *)
(* (crates/server/src/credentials/): refresh at use under the row lock,    *)
(* the one forced refresh and one replay of an attempt the provider        *)
(* rejects, and the operator's authorize and revoke commands.              *)
(*                                                                         *)
(* A grant is a number: the access token it carries, and the refresh token *)
(* too where the provider sends one.  A rotating provider sends a new      *)
(* refresh token with every grant and invalidates the one presented at     *)
(* that instant.  Attempts run on any number of replicas; sealing is       *)
(* outside the model.                                                      *)
(***************************************************************************)
EXTENDS Naturals

CONSTANTS
    Attempts,           \* executions of with_access_token
    None,               \* no attempt
    MaxAuthorizations,  \* bound on donat connector authorize after the first
    MaxFaults           \* bound on crashes, lost messages and withdrawn grants

ASSUME CredentialsAssumption ==
    /\ None \notin Attempts
    /\ MaxAuthorizations \in Nat
    /\ MaxFaults \in Nat

VARIABLES
    rotating,   \* the provider rotates refresh tokens: fixed
    row,        \* the row of connector_credential
    holder,     \* the attempt whose transaction holds the row, or None
    attempt,    \* where each attempt is
    issued,     \* grants issued by the provider so far
    valid,      \* refresh tokens the provider accepts
    withdrawn,  \* refresh tokens withdrawn by the owner or the operator
    operator,   \* the revoke command
    renewals,   \* authorizations after the first
    faults      \* faults so far

vars == <<rotating, row, holder, attempt, issued, valid, withdrawn, operator,
          renewals, faults>>
provider == <<issued, valid, withdrawn>>

-----------------------------------------------------------------------------
NewAttempt == [pc |-> "start", force |-> FALSE, token |-> 0, presented |-> 0]

\* The instance starts authorized: a deployment without a credential is refused
\* (validate_stored_credentials).
Init ==
    /\ rotating \in BOOLEAN
    /\ row = [stored |-> TRUE, access |-> 1, fresh |-> TRUE, refresh |-> 1,
              unusable |-> "no"]
    /\ holder = None
    /\ attempt = [a \in Attempts |-> NewAttempt]
    /\ issued = 1
    /\ valid = {1}
    /\ withdrawn = {}
    /\ operator = [pc |-> "idle", refresh |-> 0]
    /\ renewals = 0
    /\ faults = 0

\* Mutation of CheckUsable: the mark is not looked at.
CheckStored == row.stored

\* NO_CREDENTIAL, check_usable
CheckUsable == row.stored /\ row.unusable = "no"

\* access_expires_at > now + refresh_skew
Fresh == row.fresh

End(a, how) == attempt' = [attempt EXCEPT ![a] = [NewAttempt EXCEPT !.pc = how]]
Fail(a) == End(a, "failed")
Take(a, g) == attempt' = [attempt EXCEPT ![a].pc = "calling", ![a].token = g]

-----------------------------------------------------------------------------
(* access_token, refresh_locked *)

\* The fast path takes no lock.
Read(a) ==
    /\ attempt[a].pc = "start"
    /\ \/ ~CheckUsable /\ Fail(a)
       \/ CheckUsable /\ Fresh /\ Take(a, row.access)
       \/ /\ CheckUsable /\ ~Fresh
          /\ attempt' = [attempt EXCEPT ![a].pc = "locking"]
    /\ UNCHANGED <<rotating, row, holder, provider, operator, renewals,
                   faults>>

\* Mutation of LockFree: SELECT without FOR UPDATE.
LockAny == TRUE

LockFree == holder = None

\* store::lock, and the freshness check again under the lock.
Lock(a) ==
    /\ attempt[a].pc = "locking"
    /\ LockFree
    /\ \/ ~CheckUsable /\ Fail(a) /\ UNCHANGED holder
       \/ /\ CheckUsable /\ Fresh /\ ~attempt[a].force
          /\ Take(a, row.access)
          /\ UNCHANGED holder
       \/ /\ CheckUsable /\ (~Fresh \/ attempt[a].force)
          /\ attempt' = [attempt EXCEPT ![a].pc = "exchanging",
                                        ![a].presented = row.refresh]
          /\ holder' = a
    /\ UNCHANGED <<rotating, row, provider, operator, renewals, faults>>

\* What a successful exchange does at the provider.
Issue(presented) ==
    /\ issued' = issued + 1
    /\ valid' = IF rotating THEN (valid \ {presented}) \cup {issued + 1}
                ELSE valid
    /\ UNCHANGED withdrawn

\* The provider's answer: a grant, a grant that no longer covers the declared
\* scopes, or invalid_grant.  A row without a refresh token, or a token of a
\* foreign origin, is refused before the provider is asked; neither occurs here.
Exchange(a, covers) ==
    /\ attempt[a].pc = "exchanging"
    /\ \/ /\ attempt[a].presented \in valid
          /\ Issue(attempt[a].presented)
          /\ attempt' = [attempt EXCEPT
                            ![a].pc = IF covers THEN "granted" ELSE "narrowed",
                            ![a].token = issued + 1]
       \/ /\ attempt[a].presented \notin valid
          /\ attempt' = [attempt EXCEPT ![a].pc = "refused"]
          /\ UNCHANGED provider
    /\ UNCHANGED <<rotating, row, holder, operator, renewals, faults>>

\* Mutation of Rotated: the refresh token of the grant is not stored.
RotatedAccessOnly(g) == [row EXCEPT !.access = g, !.fresh = TRUE]

\* store::rotate: COALESCE keeps the stored refresh token of a provider that
\* sends none.
Rotated(g) == [row EXCEPT !.access = g, !.fresh = TRUE,
                          !.refresh = IF rotating THEN g ELSE @]

\* The commit; only then is the token opened and handed out.
Commit(a) ==
    /\ attempt[a].pc = "granted"
    /\ row' = Rotated(attempt[a].token)
    /\ holder' = None
    /\ Take(a, attempt[a].token)
    /\ UNCHANGED <<rotating, provider, operator, renewals, faults>>

\* store::mark_unusable, committed.
MarkUnusable(a) ==
    /\ attempt[a].pc \in {"refused", "narrowed"}
    /\ row' = [row EXCEPT !.unusable =
                  IF attempt[a].pc = "refused" THEN "invalid_grant"
                  ELSE "scope_shortfall"]
    /\ holder' = None
    /\ Fail(a)
    /\ UNCHANGED <<rotating, provider, operator, renewals, faults>>

-----------------------------------------------------------------------------
(* with_access_token *)

\* Mutation of Unauthorized: the attempt starts over with the stored token.
UnauthorizedAgain(a) == attempt' = [attempt EXCEPT ![a].pc = "start"]

\* The first 401 forces one refresh and one replay; the second is the answer.
Unauthorized(a) ==
    IF attempt[a].force THEN Fail(a)
    ELSE attempt' = [attempt EXCEPT ![a].pc = "locking", ![a].force = TRUE]

\* The provider does the work or answers 401: the token has expired, or was
\* withdrawn before its time.
Call(a, good) ==
    /\ attempt[a].pc = "calling"
    /\ IF good THEN End(a, "done") ELSE Unauthorized(a)
    /\ UNCHANGED <<rotating, row, holder, provider, operator, renewals, faults>>

-----------------------------------------------------------------------------
(* Time, the provider and the operator *)

\* The access token of the row comes within refresh_skew of its expiry.
Age ==
    /\ row.fresh
    /\ row' = [row EXCEPT !.fresh = FALSE]
    /\ UNCHANGED <<rotating, holder, attempt, provider, operator, renewals,
                   faults>>

\* authorize::complete: the code is exchanged before, the row is written under
\* its lock, and any mark is cleared.
Authorize ==
    /\ renewals < MaxAuthorizations
    /\ operator.pc \in {"idle", "done"}
    /\ LockFree
    /\ renewals' = renewals + 1
    /\ issued' = issued + 1
    /\ valid' = valid \cup {issued + 1}
    /\ row' = [stored |-> TRUE, access |-> issued + 1, fresh |-> TRUE,
               refresh |-> issued + 1, unusable |-> "no"]
    /\ UNCHANGED <<rotating, holder, attempt, withdrawn, operator,
                   faults>>

\* donat connector revoke: read the row, revoke at the provider, delete also
\* when the provider did not answer.
RevokeRead ==
    /\ operator.pc = "idle"
    /\ row.stored
    /\ operator' = [pc |-> "read", refresh |-> row.refresh]
    /\ UNCHANGED <<rotating, row, holder, attempt, provider, renewals,
                   faults>>

RevokeAtProvider ==
    /\ operator.pc = "read"
    /\ operator' = [operator EXCEPT !.pc = "revoked"]
    /\ \/ /\ valid' = valid \ {operator.refresh}
          /\ withdrawn' = withdrawn \cup {operator.refresh}
       \/ UNCHANGED <<valid, withdrawn>>
    /\ UNCHANGED <<rotating, row, holder, attempt, issued,
                   renewals, faults>>

Delete ==
    /\ operator.pc = "revoked"
    /\ LockFree
    /\ operator' = [operator EXCEPT !.pc = "done"]
    /\ row' = [row EXCEPT !.stored = FALSE]
    /\ UNCHANGED <<rotating, holder, attempt, provider, renewals, faults>>

-----------------------------------------------------------------------------
(* Faults *)

Fault == faults < MaxFaults /\ faults' = faults + 1

\* The process of an attempt dies, or its connection is lost: PostgreSQL rolls
\* back and the row keeps the tokens it had.
Crash(a) ==
    /\ attempt[a].pc \notin {"done", "failed"}
    /\ Fault
    /\ Fail(a)
    /\ holder' = IF holder = a THEN None ELSE holder
    /\ UNCHANGED <<rotating, row, provider, operator, renewals>>

\* The exchange times out: the request or the answer is lost.
Timeout(a, arrived) ==
    /\ attempt[a].pc = "exchanging"
    /\ Fault
    /\ Fail(a)
    /\ holder' = None
    /\ IF arrived /\ attempt[a].presented \in valid
       THEN Issue(attempt[a].presented) ELSE UNCHANGED provider
    /\ UNCHANGED <<rotating, row, operator, renewals>>

\* The account's owner withdraws the grant at the provider.
Withdraw(f) ==
    /\ f \in valid
    /\ Fault
    /\ valid' = valid \ {f}
    /\ withdrawn' = withdrawn \cup {f}
    /\ UNCHANGED <<rotating, row, holder, attempt, issued,
                   operator, renewals>>

-----------------------------------------------------------------------------
Step(a) ==
    \/ Read(a)
    \/ Lock(a)
    \/ \E covers \in BOOLEAN : Exchange(a, covers)
    \/ Commit(a)
    \/ MarkUnusable(a)
    \/ \E good \in BOOLEAN : Call(a, good)

Next ==
    \/ \E a \in Attempts : Step(a)
    \/ \E a \in Attempts : Crash(a)
    \/ \E a \in Attempts, arrived \in BOOLEAN : Timeout(a, arrived)
    \/ Age
    \/ \E f \in valid : Withdraw(f)
    \/ Authorize
    \/ RevokeRead
    \/ RevokeAtProvider
    \/ Delete

Spec == Init /\ [][Next]_vars

\* Attempts run inside their budget, a locked row included: the exchange is
\* bounded, so whoever holds the row lets it go.
FairSpec == Spec /\ \A a \in Attempts : WF_vars(Step(a))

-----------------------------------------------------------------------------
Grants == 0..issued
Ended == {"done", "failed"}
Holding == {"exchanging", "granted", "narrowed", "refused"}

AttemptType ==
    [pc : {"start", "locking", "calling"} \cup Holding \cup Ended,
     force : BOOLEAN, token : Grants, presented : Grants]

RowType ==
    [stored : BOOLEAN, access : Grants, fresh : BOOLEAN, refresh : Grants,
     unusable : {"no", "invalid_grant", "scope_shortfall"}]

OperatorType ==
    [pc : {"idle", "read", "revoked", "done"}, refresh : Grants]

\* The row, the lock and the attempts have their shape, and the row is held
\* exactly while one attempt is between its lock and its commit.
TypeOK ==
    /\ rotating \in BOOLEAN
    /\ issued \in Nat \ {0}
    /\ row \in RowType
    /\ holder \in Attempts \cup {None}
    /\ attempt \in [Attempts -> AttemptType]
    /\ \A a \in Attempts : holder = a <=> attempt[a].pc \in Holding
    /\ valid \subseteq Grants
    /\ withdrawn \subseteq Grants
    /\ operator \in OperatorType
    /\ renewals \in 0..MaxAuthorizations
    /\ faults \in 0..MaxFaults

\* A refresh token is presented only with reason, although the attempt decided to
\* refresh before it had the lock: "it finds a fresh token and performs no second
\* exchange" unless it was told to; and "mark it, keep it, and never come back",
\* for the attempts that were waiting for the lock of a marked row too.
ExchangeIsNeeded ==
    \A a \in Attempts : attempt[a].pc = "exchanging" =>
        /\ row.unusable = "no"
        /\ ~attempt[a].force => ~Fresh

\* Nobody marks a credential that is good: the row says invalid_grant only when
\* the refresh token it holds is one the provider refuses, also when it was
\* replaced by another attempt or by the operator around the refused exchange.
MarkIsTrue ==
    row.stored /\ row.unusable = "invalid_grant" => row.refresh \notin valid

\* A usable row nobody holds carries a refresh token the provider accepts,
\* unless it was withdrawn or a fault came between the exchange and the commit:
\* no interleaving of refreshes, of the operator's commands and of marks stores
\* an older token over a newer one.
OnlyFaultsBurn ==
    row.stored /\ row.unusable = "no" /\ holder = None
       /\ faults = 0
    => row.refresh \in valid \cup withdrawn

\* "A crash between the exchange and the commit ... never leaves a stored token
\* nobody can use": a usable row nobody holds can be refreshed.
StoredTokenWorks ==
    row.stored /\ row.unusable = "no" /\ holder = None
    => row.refresh \in valid \cup withdrawn

\* Every attempt comes to an end: nobody waits for the row for ever, and the
\* provider's rejections are not answered with refreshes without end.
EveryAttemptEnds == \A a \in Attempts : <>(attempt[a].pc \in Ended)

=============================================================================
