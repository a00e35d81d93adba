------------------------- MODULE CredentialsProofs -------------------------
(***************************************************************************)
(* Proofs about the refresh of a stored credential, for any number of      *)
(* attempts, authorizations and faults, and for providers that rotate      *)
(* refresh tokens and for those that do not.                               *)
(***************************************************************************)
EXTENDS Credentials, TLAPS

\* Nothing moves under an attempt that holds the row: it presents, or has
\* presented, the token that is stored, and the row is not marked.
RowHeld ==
    \A a \in Attempts : attempt[a].pc \in Holding =>
        /\ row.unusable = "no"
        /\ attempt[a].presented = row.refresh

\* What was refused stays refused.
RefusalHolds ==
    \A a \in Attempts :
        attempt[a].pc = "refused" => attempt[a].presented \notin valid

\* A refresh token the provider accepts, or one that was withdrawn.
Good(g) == g \in valid \cup withdrawn

\* Without a fault a usable row has a good token, except between an exchange
\* that replaced it and the commit, when the attempt has one.
TokenSomewhere ==
    faults = 0 /\ row.stored /\ row.unusable = "no" =>
        /\ \A a \in Attempts :
              attempt[a].pc = "granted" /\ rotating => Good(attempt[a].token)
        /\ \/ Good(row.refresh)
           \/ rotating /\ \E a \in Attempts :
                             attempt[a].pc \in {"granted", "narrowed"}

CredentialsInv ==
    /\ TypeOK
    /\ RowHeld
    /\ ExchangeIsNeeded
    /\ RefusalHolds
    /\ MarkIsTrue
    /\ TokenSomewhere

-----------------------------------------------------------------------------
LEMMA CredentialsInit == Init => CredentialsInv
<1> SUFFICES ASSUME Init PROVE CredentialsInv
  OBVIOUS
<1>1. TypeOK
  BY CredentialsAssumption DEF Init, TypeOK, Grants, Ended, Holding, NewAttempt,
     RowType, AttemptType, OperatorType
<1>2. RowHeld /\ ExchangeIsNeeded /\ RefusalHolds
  BY DEF Init, RowHeld, ExchangeIsNeeded, RefusalHolds, NewAttempt, Holding
<1>3. MarkIsTrue /\ TokenSomewhere
  BY DEF Init, MarkIsTrue, TokenSomewhere, Good, NewAttempt
<1> QED
  BY <1>1, <1>2, <1>3 DEF CredentialsInv

\* Steps of an attempt that leave the row, the lock and the provider alone keep
\* everything, if they neither take nor lose the row.
LEMMA AttemptMoves ==
    ASSUME CredentialsInv, NEW a \in Attempts, NEW r \in AttemptType,
           attempt[a].pc \notin Holding, r.pc \notin Holding,
           attempt' = [attempt EXCEPT ![a] = r],
           UNCHANGED <<rotating, row, holder, provider, operator, renewals>>,
           faults' \in {faults} \cup 1..MaxFaults
    PROVE  CredentialsInv'
<1> USE DEF CredentialsInv, provider
<1>1. TypeOK'
  BY DEF TypeOK, Grants, AttemptType, RowType, OperatorType
<1>2. \A b \in Attempts : attempt'[b].pc \in Holding => attempt'[b] = attempt[b]
  BY DEF TypeOK
<1>3. RowHeld' /\ ExchangeIsNeeded' /\ RefusalHolds' /\ MarkIsTrue'
  BY <1>2 DEF RowHeld, ExchangeIsNeeded, RefusalHolds, MarkIsTrue, Holding, Fresh
<1>4. \A b \in Attempts : attempt[b].pc \in Holding => attempt'[b] = attempt[b]
  BY DEF TypeOK
<1>5. TokenSomewhere'
  BY <1>2, <1>4 DEF TypeOK, TokenSomewhere, Good, Holding
<1> QED
  BY <1>1, <1>3, <1>5

LEMMA ReadKeeps ==
    ASSUME CredentialsInv, NEW a \in Attempts, Read(a)
    PROVE  CredentialsInv'
<1>1. /\ attempt[a] \in AttemptType
      /\ row.access \in Grants
      /\ 0 \in Grants
  BY DEF CredentialsInv, TypeOK, RowType, Grants
<1>2. CASE ~CheckUsable
  <2> DEFINE r == [NewAttempt EXCEPT !.pc = "failed"]
  <2>1. r \in AttemptType /\ r.pc \notin Holding
    BY <1>1 DEF NewAttempt, AttemptType, Ended, Holding
  <2>2. attempt' = [attempt EXCEPT ![a] = r]
    BY <1>2 DEF Read, Fail, End
  <2> QED
    BY <2>1, <2>2, AttemptMoves DEF Read, Holding
<1>3. CASE CheckUsable /\ Fresh
  <2> DEFINE r == [attempt[a] EXCEPT !.pc = "calling", !.token = row.access]
  <2>1. r \in AttemptType /\ r.pc \notin Holding
    BY <1>1 DEF AttemptType, Holding
  <2>2. attempt' = [attempt EXCEPT ![a] = r]
    BY <1>3 DEF Read, Take
  <2> QED
    BY <2>1, <2>2, AttemptMoves DEF Read, Holding
<1>4. CASE CheckUsable /\ ~Fresh
  <2> DEFINE r == [attempt[a] EXCEPT !.pc = "locking"]
  <2>1. r \in AttemptType /\ r.pc \notin Holding
    BY <1>1 DEF AttemptType, Holding
  <2>2. attempt' = [attempt EXCEPT ![a] = r]
    BY <1>4 DEF Read
  <2> QED
    BY <2>1, <2>2, AttemptMoves DEF Read, Holding
<1> QED
  BY <1>2, <1>3, <1>4 DEF Read

LEMMA LockKeeps ==
    ASSUME CredentialsInv, NEW a \in Attempts, Lock(a)
    PROVE  CredentialsInv'
<1>1. /\ attempt[a] \in AttemptType
      /\ row \in RowType
      /\ 0 \in Grants
  BY DEF CredentialsInv, TypeOK, Grants
<1>2. CASE ~CheckUsable
  <2> DEFINE r == [NewAttempt EXCEPT !.pc = "failed"]
  <2>1. r \in AttemptType /\ r.pc \notin Holding
    BY <1>1 DEF NewAttempt, AttemptType, Ended, Holding
  <2>2. attempt' = [attempt EXCEPT ![a] = r] /\ UNCHANGED holder
    BY <1>2 DEF Lock, Fail, End
  <2> QED
    BY <2>1, <2>2, AttemptMoves DEF Lock, Holding
<1>3. CASE CheckUsable /\ Fresh /\ ~attempt[a].force
  <2> DEFINE r == [attempt[a] EXCEPT !.pc = "calling", !.token = row.access]
  <2>1. r \in AttemptType /\ r.pc \notin Holding
    BY <1>1 DEF AttemptType, RowType, Holding
  <2>2. attempt' = [attempt EXCEPT ![a] = r] /\ UNCHANGED holder
    BY <1>3 DEF Lock, Take
  <2> QED
    BY <2>1, <2>2, AttemptMoves DEF Lock, Holding
<1>4. CASE CheckUsable /\ (~Fresh \/ attempt[a].force)
  <2> DEFINE r == [attempt[a] EXCEPT !.pc = "exchanging",
                                     !.presented = row.refresh]
  <2>1. /\ r \in AttemptType
        /\ r.pc = "exchanging" /\ r.presented = row.refresh
        /\ r.force = attempt[a].force
    BY <1>1 DEF AttemptType, RowType, Holding
  <2>2. /\ attempt' = [attempt EXCEPT ![a] = r]
        /\ holder' = a /\ holder = None /\ attempt[a].pc = "locking"
        /\ UNCHANGED <<rotating, row, issued, valid, withdrawn, operator,
                       renewals, faults>>
    BY <1>4 DEF Lock, LockFree, provider
  <2> HIDE DEF r
  <2>3. \A b \in Attempts : b # a => attempt[b].pc \notin Holding
    BY <2>2, CredentialsAssumption DEF CredentialsInv, TypeOK
  <2>4. /\ attempt'[a] = r
        /\ \A b \in Attempts : b # a => attempt'[b] = attempt[b]
    BY <2>2 DEF CredentialsInv, TypeOK
  <2>5. TypeOK'
    BY <2>1, <2>2, <2>3, <2>4
    DEF CredentialsInv, TypeOK, AttemptType, RowType, OperatorType, Grants,
        Holding
  <2>6. RowHeld' /\ ExchangeIsNeeded'
    BY <1>4, <2>1, <2>2, <2>3, <2>4
    DEF RowHeld, ExchangeIsNeeded, CheckUsable, Fresh, Holding
  <2>7. RefusalHolds' /\ MarkIsTrue'
    BY <2>1, <2>2, <2>4 DEF CredentialsInv, RefusalHolds, MarkIsTrue
  <2>8. TokenSomewhere'
    BY <2>1, <2>2, <2>3, <2>4 DEF CredentialsInv, TokenSomewhere, Good, Holding
  <2> QED
    BY <2>5, <2>6, <2>7, <2>8 DEF CredentialsInv
<1> QED
  BY <1>2, <1>3, <1>4 DEF Lock

\* An exchange at the provider: the new grant is one nobody has seen, and no
\* other token changes but the one presented.
LEMMA IssueAdds ==
    ASSUME CredentialsInv, NEW t \in Grants, Issue(t)
    PROVE  /\ issued' = issued + 1 /\ issued' \in Nat \ {0}
           /\ issued' \notin Grants
           /\ Grants \subseteq Grants' /\ issued' \in Grants'
           /\ valid' \subseteq Grants' /\ withdrawn' = withdrawn
           /\ \A g \in Grants : g \in valid' => g \in valid
           /\ \A g \in Grants : g # t /\ g \in valid => g \in valid'
           /\ rotating => issued' \in valid'
           /\ ~rotating => valid' = valid
  BY DEF CredentialsInv, TypeOK, Issue, Grants

\* Types of what did not change, after a grant.
LEMMA GrantsGrow ==
    ASSUME CredentialsInv, Grants \subseteq Grants'
    PROVE  /\ row \in RowType'
           /\ operator \in OperatorType'
           /\ \A a \in Attempts : attempt[a] \in AttemptType'
  BY DEF CredentialsInv, TypeOK, RowType, OperatorType, AttemptType

LEMMA ExchangeKeeps ==
    ASSUME CredentialsInv, NEW a \in Attempts, NEW covers \in BOOLEAN,
           Exchange(a, covers)
    PROVE  CredentialsInv'
<1>1. /\ attempt[a] \in AttemptType /\ attempt[a].pc = "exchanging"
      /\ holder = a
      /\ attempt[a].presented = row.refresh
      /\ attempt[a].presented \in Grants
      /\ UNCHANGED <<rotating, row, holder, operator, renewals, faults>>
  BY DEF CredentialsInv, TypeOK, RowHeld, Exchange, Holding, AttemptType
<1>2. \A b \in Attempts : b # a => attempt[b].pc \notin Holding
  BY <1>1 DEF CredentialsInv, TypeOK
<1>3. CASE attempt[a].presented \in valid
  <2> DEFINE r == [attempt[a] EXCEPT
                      !.pc = IF covers THEN "granted" ELSE "narrowed",
                      !.token = issued + 1]
  <2>1. Issue(attempt[a].presented) /\ attempt' = [attempt EXCEPT ![a] = r]
    BY <1>3 DEF Exchange
  <2>2. /\ issued' = issued + 1 /\ issued' \in Nat \ {0}
        /\ issued' \notin Grants
        /\ Grants \subseteq Grants' /\ issued' \in Grants'
        /\ valid' \subseteq Grants' /\ withdrawn' = withdrawn
        /\ \A g \in Grants : g \in valid' => g \in valid
        /\ \A g \in Grants : g # attempt[a].presented /\ g \in valid => g \in valid'
        /\ rotating => issued' \in valid'
        /\ ~rotating => valid' = valid
    BY <1>1, <2>1, IssueAdds
  <2>3. /\ row' \in RowType' /\ operator' \in OperatorType'
        /\ \A b \in Attempts : attempt[b] \in AttemptType'
    BY <1>1, <2>2, GrantsGrow
  <2>4. /\ r \in AttemptType' /\ r.pc \in {"granted", "narrowed"}
        /\ r.token = issued' /\ r.presented = attempt[a].presented
    BY <1>1, <2>2, <2>3 DEF AttemptType, Holding
  <2> HIDE DEF r
  <2>5. /\ attempt'[a] = r
        /\ \A b \in Attempts : b # a => attempt'[b] = attempt[b]
        /\ attempt' \in [Attempts -> AttemptType']
    BY <2>1, <2>3, <2>4 DEF CredentialsInv, TypeOK
  <2>6. TypeOK'
    BY <1>1, <1>2, <2>2, <2>3, <2>4, <2>5 DEF CredentialsInv, TypeOK, Holding
  <2>7. RowHeld' /\ ExchangeIsNeeded' /\ RefusalHolds'
    BY <1>1, <1>2, <2>4, <2>5
    DEF CredentialsInv, RowHeld, ExchangeIsNeeded, RefusalHolds, Holding
  <2>8. row.unusable = "no"
    BY <1>1 DEF CredentialsInv, RowHeld, Holding
  <2>9. MarkIsTrue'
    BY <1>1, <2>8 DEF MarkIsTrue
  <2>10. TokenSomewhere'
    BY <1>1, <1>2, <1>3, <2>2, <2>4, <2>5
    DEF CredentialsInv, TypeOK, RowType, TokenSomewhere, Good, Holding
  <2> QED
    BY <2>6, <2>7, <2>9, <2>10 DEF CredentialsInv
<1>4. CASE attempt[a].presented \notin valid
  <2> DEFINE r == [attempt[a] EXCEPT !.pc = "refused"]
  <2>1. /\ UNCHANGED <<issued, valid, withdrawn>>
        /\ attempt' = [attempt EXCEPT ![a] = r]
    BY <1>4 DEF Exchange, provider
  <2>2. /\ r \in AttemptType /\ r.pc = "refused"
        /\ r.presented = attempt[a].presented
    BY <1>1 DEF AttemptType, Holding
  <2> HIDE DEF r
  <2>3. /\ attempt'[a] = r
        /\ \A b \in Attempts : b # a => attempt'[b] = attempt[b]
    BY <2>1 DEF CredentialsInv, TypeOK
  <2>4. TypeOK'
    BY <1>1, <1>2, <2>1, <2>2, <2>3
    DEF CredentialsInv, TypeOK, RowType, AttemptType, OperatorType, Grants,
        Holding
  <2>5. RowHeld' /\ ExchangeIsNeeded' /\ RefusalHolds' /\ MarkIsTrue'
    BY <1>1, <1>2, <1>4, <2>1, <2>2, <2>3
    DEF CredentialsInv, RowHeld, ExchangeIsNeeded, RefusalHolds, MarkIsTrue,
        Holding
  <2>6. TokenSomewhere'
    BY <1>1, <1>2, <2>1, <2>2, <2>3
    DEF CredentialsInv, TokenSomewhere, Good, Holding
  <2> QED
    BY <2>4, <2>5, <2>6 DEF CredentialsInv
<1> QED
  BY <1>3, <1>4

LEMMA CommitKeeps ==
    ASSUME CredentialsInv, NEW a \in Attempts, Commit(a)
    PROVE  CredentialsInv'
<1> DEFINE t == attempt[a].token
           r == [attempt[a] EXCEPT !.pc = "calling", !.token = t]
<1>1. /\ attempt[a] \in AttemptType /\ attempt[a].pc = "granted"
      /\ t \in Grants
      /\ holder = a /\ holder' = None
      /\ row \in RowType /\ row.unusable = "no"
      /\ UNCHANGED <<rotating, issued, valid, withdrawn, operator, renewals,
                     faults>>
      /\ attempt' = [attempt EXCEPT ![a] = r]
  BY DEF CredentialsInv, TypeOK, RowHeld, Commit, Take, Holding, AttemptType,
         provider
<1>2. \A b \in Attempts : b # a => attempt[b].pc \notin Holding
  BY <1>1 DEF CredentialsInv, TypeOK
<1>3. r \in AttemptType /\ r.pc = "calling"
  BY <1>1 DEF AttemptType
<1> HIDE DEF r
<1>4. /\ attempt'[a] = r
      /\ \A b \in Attempts : b # a => attempt'[b] = attempt[b]
      /\ \A b \in Attempts : attempt'[b].pc \notin Holding
  BY <1>1, <1>2, <1>3 DEF CredentialsInv, TypeOK, Holding
<1>5. /\ row' \in RowType /\ row'.unusable = "no"
      /\ row'.stored = row.stored
      /\ row'.refresh = IF rotating THEN t ELSE row.refresh
  BY <1>1 DEF Commit, Rotated, RowType
<1>6. TypeOK'
  BY <1>1, <1>3, <1>4, <1>5, CredentialsAssumption
  DEF CredentialsInv, TypeOK, RowType, AttemptType, OperatorType, Grants
<1>7. RowHeld' /\ ExchangeIsNeeded' /\ RefusalHolds' /\ MarkIsTrue'
  BY <1>4, <1>5
  DEF RowHeld, ExchangeIsNeeded, RefusalHolds, MarkIsTrue, Holding
<1>8. TokenSomewhere'
  <2> SUFFICES ASSUME faults = 0, row.stored
               PROVE  Good(row.refresh)'
    BY <1>1, <1>4, <1>5 DEF TokenSomewhere, Holding
  <2>1. rotating => Good(t)
    BY <1>1 DEF CredentialsInv, TokenSomewhere
  <2>2. ~rotating => Good(row.refresh)
    BY <1>1 DEF CredentialsInv, TokenSomewhere
  <2> QED
    BY <1>1, <1>5, <2>1, <2>2 DEF Good
<1> QED
  BY <1>6, <1>7, <1>8 DEF CredentialsInv

LEMMA MarkUnusableKeeps ==
    ASSUME CredentialsInv, NEW a \in Attempts, MarkUnusable(a)
    PROVE  CredentialsInv'
<1> DEFINE r == [NewAttempt EXCEPT !.pc = "failed"]
<1>1. /\ attempt[a].pc \in {"refused", "narrowed"}
      /\ holder = a /\ holder' = None
      /\ row \in RowType /\ attempt[a].presented = row.refresh
      /\ UNCHANGED <<rotating, issued, valid, withdrawn, operator, renewals,
                     faults>>
      /\ attempt' = [attempt EXCEPT ![a] = r]
  BY DEF CredentialsInv, TypeOK, RowHeld, MarkUnusable, Fail, End, Holding,
         provider
<1>2. \A b \in Attempts : b # a => attempt[b].pc \notin Holding
  BY <1>1 DEF CredentialsInv, TypeOK
<1>3. r \in AttemptType /\ r.pc = "failed"
  <2>1. 0 \in Grants
    BY DEF CredentialsInv, TypeOK, Grants
  <2> QED
    BY <2>1 DEF NewAttempt, AttemptType, Ended
<1> HIDE DEF r
<1>4. /\ attempt'[a] = r
      /\ \A b \in Attempts : b # a => attempt'[b] = attempt[b]
      /\ \A b \in Attempts : attempt'[b].pc \notin Holding
  BY <1>1, <1>2, <1>3 DEF CredentialsInv, TypeOK, Holding
<1>5. /\ row' \in RowType /\ row'.refresh = row.refresh
      /\ row'.unusable # "no"
      /\ row'.unusable = "invalid_grant" => attempt[a].pc = "refused"
  BY <1>1 DEF MarkUnusable, RowType
<1>6. TypeOK'
  BY <1>1, <1>3, <1>4, <1>5, CredentialsAssumption
  DEF CredentialsInv, TypeOK, RowType, AttemptType, OperatorType, Grants
<1>7. RowHeld' /\ ExchangeIsNeeded' /\ RefusalHolds' /\ TokenSomewhere'
  BY <1>4, <1>5
  DEF RowHeld, ExchangeIsNeeded, RefusalHolds, TokenSomewhere, Holding
<1>8. MarkIsTrue'
  BY <1>1, <1>5 DEF CredentialsInv, MarkIsTrue, RefusalHolds
<1> QED
  BY <1>6, <1>7, <1>8 DEF CredentialsInv

LEMMA CallKeeps ==
    ASSUME CredentialsInv, NEW a \in Attempts, NEW good \in BOOLEAN,
           Call(a, good)
    PROVE  CredentialsInv'
<1>1. attempt[a] \in AttemptType /\ 0 \in Grants
  BY DEF CredentialsInv, TypeOK, Grants
<1>2. \E r \in AttemptType : /\ r.pc \notin Holding
                             /\ attempt' = [attempt EXCEPT ![a] = r]
  <2>1. CASE good
    <3> DEFINE r == [NewAttempt EXCEPT !.pc = "done"]
    <3>1. r \in AttemptType /\ r.pc \notin Holding
      BY <1>1 DEF NewAttempt, AttemptType, Ended, Holding
    <3> QED
      BY <2>1, <3>1 DEF Call, End
  <2>2. CASE ~good /\ attempt[a].force
    <3> DEFINE r == [NewAttempt EXCEPT !.pc = "failed"]
    <3>1. r \in AttemptType /\ r.pc \notin Holding
      BY <1>1 DEF NewAttempt, AttemptType, Ended, Holding
    <3> QED
      BY <2>2, <3>1 DEF Call, Unauthorized, Fail, End
  <2>3. CASE ~good /\ ~attempt[a].force
    <3> DEFINE r == [attempt[a] EXCEPT !.pc = "locking", !.force = TRUE]
    <3>1. r \in AttemptType /\ r.pc \notin Holding
      BY <1>1 DEF AttemptType, Holding
    <3> QED
      BY <2>3, <3>1 DEF Call, Unauthorized
  <2> QED
    BY <2>1, <2>2, <2>3
<1> QED
  BY <1>2, AttemptMoves DEF Call, Holding

LEMMA AgeKeeps ==
    ASSUME CredentialsInv, Age
    PROVE  CredentialsInv'
<1>1. /\ row' \in RowType /\ ~row'.fresh
      /\ row'.stored = row.stored /\ row'.unusable = row.unusable
      /\ row'.refresh = row.refresh
      /\ UNCHANGED <<rotating, holder, attempt, issued, valid, withdrawn,
                     operator, renewals, faults>>
  BY DEF CredentialsInv, TypeOK, RowType, Age, provider
<1>2. TypeOK'
  BY <1>1 DEF CredentialsInv, TypeOK, RowType, AttemptType, OperatorType, Grants
<1>3. RowHeld' /\ ExchangeIsNeeded' /\ RefusalHolds' /\ MarkIsTrue'
  BY <1>1 DEF CredentialsInv, RowHeld, ExchangeIsNeeded, RefusalHolds,
              MarkIsTrue, Fresh
<1>4. TokenSomewhere'
  BY <1>1 DEF CredentialsInv, TokenSomewhere, Good
<1> QED
  BY <1>2, <1>3, <1>4 DEF CredentialsInv

LEMMA AuthorizeKeeps ==
    ASSUME CredentialsInv, Authorize
    PROVE  CredentialsInv'
<1>1. /\ issued' = issued + 1 /\ issued' \in Nat \ {0}
      /\ Grants \subseteq Grants' /\ issued' \in Grants'
      /\ valid' = valid \cup {issued'}
      /\ renewals' \in 0..MaxAuthorizations
      /\ holder = None
      /\ UNCHANGED <<rotating, holder, attempt, withdrawn, operator, faults>>
  BY CredentialsAssumption
  DEF CredentialsInv, TypeOK, Authorize, LockFree, Grants
<1>2. row' = [stored |-> TRUE, access |-> issued', fresh |-> TRUE,
              refresh |-> issued', unusable |-> "no"]
  BY <1>1 DEF Authorize
<1>3. /\ operator \in OperatorType'
      /\ \A a \in Attempts : attempt[a] \in AttemptType'
  BY <1>1, GrantsGrow
<1>4. \A a \in Attempts : attempt[a].pc \notin Holding
  BY <1>1, CredentialsAssumption DEF CredentialsInv, TypeOK
<1>5. TypeOK'
  BY <1>1, <1>2, <1>3 DEF CredentialsInv, TypeOK, RowType
<1>6. RowHeld' /\ ExchangeIsNeeded' /\ RefusalHolds' /\ MarkIsTrue'
  BY <1>1, <1>2, <1>4
  DEF RowHeld, ExchangeIsNeeded, RefusalHolds, MarkIsTrue, Holding
<1>7. TokenSomewhere'
  BY <1>1, <1>2, <1>4 DEF TokenSomewhere, Good, Holding
<1> QED
  BY <1>5, <1>6, <1>7 DEF CredentialsInv

LEMMA RevokeReadKeeps ==
    ASSUME CredentialsInv, RevokeRead
    PROVE  CredentialsInv'
<1>1. /\ operator' \in OperatorType
      /\ UNCHANGED <<rotating, row, holder, attempt, issued, valid, withdrawn,
                     renewals, faults>>
  BY DEF CredentialsInv, TypeOK, RowType, OperatorType, RevokeRead, provider
<1>2. TypeOK'
  BY <1>1 DEF CredentialsInv, TypeOK, RowType, AttemptType, OperatorType, Grants
<1>3. RowHeld' /\ ExchangeIsNeeded' /\ RefusalHolds' /\ MarkIsTrue'
  BY <1>1 DEF CredentialsInv, RowHeld, ExchangeIsNeeded, RefusalHolds,
              MarkIsTrue, Fresh
<1>4. TokenSomewhere'
  BY <1>1 DEF CredentialsInv, TokenSomewhere, Good
<1> QED
  BY <1>2, <1>3, <1>4 DEF CredentialsInv

\* A token that is withdrawn is not good any more, and known to be withdrawn.
LEMMA WithdrawalKeeps ==
    ASSUME CredentialsInv, NEW f \in Grants,
           valid' = valid \ {f},
           withdrawn' = withdrawn \cup {f},
           operator' \in OperatorType,
           faults' \in {faults} \cup 1..MaxFaults,
           UNCHANGED <<rotating, row, holder, attempt, issued, renewals>>
    PROVE  CredentialsInv'
<1>1. TypeOK'
  BY DEF CredentialsInv, TypeOK, RowType, AttemptType, OperatorType, Grants
<1>2. RowHeld' /\ ExchangeIsNeeded'
  BY DEF CredentialsInv, RowHeld, ExchangeIsNeeded, Fresh
<1>3. RefusalHolds' /\ MarkIsTrue'
  BY DEF CredentialsInv, RefusalHolds, MarkIsTrue
<1>4. TokenSomewhere'
  BY DEF CredentialsInv, TypeOK, TokenSomewhere, Good
<1> QED
  BY <1>1, <1>2, <1>3, <1>4 DEF CredentialsInv

LEMMA RevokeAtProviderKeeps ==
    ASSUME CredentialsInv, RevokeAtProvider
    PROVE  CredentialsInv'
<1>1. /\ operator.refresh \in Grants /\ operator' \in OperatorType
      /\ faults' \in {faults} \cup 1..MaxFaults
  BY DEF CredentialsInv, TypeOK, OperatorType, RevokeAtProvider
<1>2. CASE UNCHANGED <<valid, withdrawn>>
  <2>1. UNCHANGED <<rotating, row, holder, attempt, issued, valid, withdrawn,
                    renewals, faults>>
    BY <1>2 DEF RevokeAtProvider
  <2>2. TypeOK'
    BY <1>1, <2>1
    DEF CredentialsInv, TypeOK, RowType, AttemptType, OperatorType, Grants
  <2>3. RowHeld' /\ ExchangeIsNeeded' /\ RefusalHolds' /\ MarkIsTrue'
    BY <2>1 DEF CredentialsInv, RowHeld, ExchangeIsNeeded, RefusalHolds,
                MarkIsTrue, Fresh
  <2>4. TokenSomewhere'
    BY <2>1 DEF CredentialsInv, TokenSomewhere, Good
  <2> QED
    BY <2>2, <2>3, <2>4 DEF CredentialsInv
<1>3. CASE /\ valid' = valid \ {operator.refresh}
           /\ withdrawn' = withdrawn \cup {operator.refresh}
  BY <1>1, <1>3, WithdrawalKeeps DEF RevokeAtProvider
<1> QED
  BY <1>2, <1>3 DEF RevokeAtProvider

LEMMA WithdrawKeeps ==
    ASSUME CredentialsInv, NEW f \in valid, Withdraw(f)
    PROVE  CredentialsInv'
<1>1. /\ f \in Grants /\ operator' \in OperatorType
      /\ faults' \in {faults} \cup 1..MaxFaults
  BY CredentialsAssumption DEF CredentialsInv, TypeOK, Withdraw, Fault
<1> QED
  BY <1>1, WithdrawalKeeps DEF Withdraw

LEMMA DeleteKeeps ==
    ASSUME CredentialsInv, Delete
    PROVE  CredentialsInv'
<1>1. /\ row' \in RowType /\ ~row'.stored
      /\ operator' \in OperatorType
      /\ holder = None
      /\ UNCHANGED <<rotating, holder, attempt, issued, valid, withdrawn,
                     renewals, faults>>
  BY DEF CredentialsInv, TypeOK, RowType, OperatorType, Delete, LockFree, provider
<1>2. \A a \in Attempts : attempt[a].pc \notin Holding
  BY <1>1, CredentialsAssumption DEF CredentialsInv, TypeOK
<1>3. TypeOK'
  BY <1>1 DEF CredentialsInv, TypeOK, RowType, AttemptType, OperatorType, Grants
<1>4. RowHeld' /\ ExchangeIsNeeded' /\ RefusalHolds' /\ MarkIsTrue' /\ TokenSomewhere'
  BY <1>1, <1>2 DEF RowHeld, ExchangeIsNeeded, RefusalHolds, MarkIsTrue,
                    TokenSomewhere, Holding
<1> QED
  BY <1>3, <1>4 DEF CredentialsInv

\* An attempt that is gone leaves the row as it was; after a fault nothing is
\* said of the token the row keeps.
LEMMA HolderGone ==
    ASSUME CredentialsInv, NEW a \in Attempts, holder = a, holder' = None,
           Fail(a),
           issued' \in Nat \ {0}, Grants \subseteq Grants',
           valid' \subseteq Grants', withdrawn' \subseteq Grants',
           faults' \in 1..MaxFaults,
           UNCHANGED <<rotating, row, operator, renewals>>
    PROVE  CredentialsInv'
<1> DEFINE r == [NewAttempt EXCEPT !.pc = "failed"]
<1>1. /\ row \in RowType' /\ operator \in OperatorType'
      /\ \A b \in Attempts : attempt[b] \in AttemptType'
  BY GrantsGrow
<1>2. r \in AttemptType' /\ r.pc = "failed"
  <2>1. 0 \in Grants'
    BY DEF Grants
  <2> QED
    BY <2>1 DEF NewAttempt, AttemptType, Ended
<1>3. attempt' = [attempt EXCEPT ![a] = r]
  BY DEF Fail, End
<1> HIDE DEF r
<1>4. \A b \in Attempts : b # a => attempt[b].pc \notin Holding
  BY DEF CredentialsInv, TypeOK
<1>5. /\ attempt' \in [Attempts -> AttemptType']
      /\ \A b \in Attempts : attempt'[b].pc \notin Holding
  BY <1>1, <1>2, <1>3, <1>4 DEF CredentialsInv, TypeOK, Holding
<1>6. row.unusable = "no"
  BY DEF CredentialsInv, TypeOK, RowHeld
<1>7. TypeOK'
  BY <1>1, <1>5, CredentialsAssumption DEF CredentialsInv, TypeOK
<1>8. RowHeld' /\ ExchangeIsNeeded' /\ RefusalHolds' /\ MarkIsTrue' /\ TokenSomewhere'
  BY <1>5, <1>6 DEF RowHeld, ExchangeIsNeeded, RefusalHolds, MarkIsTrue,
                    TokenSomewhere, Holding
<1> QED
  BY <1>7, <1>8 DEF CredentialsInv

LEMMA CrashKeeps ==
    ASSUME CredentialsInv, NEW a \in Attempts, Crash(a)
    PROVE  CredentialsInv'
<1>1. /\ faults' \in 1..MaxFaults /\ Fail(a)
      /\ holder' = IF holder = a THEN None ELSE holder
      /\ UNCHANGED <<rotating, row, issued, valid, withdrawn, operator, renewals>>
      /\ issued \in Nat \ {0}
      /\ valid \subseteq Grants /\ withdrawn \subseteq Grants
      /\ Grants' = Grants
  BY CredentialsAssumption
  DEF CredentialsInv, TypeOK, Crash, Fault, provider, Grants
<1>2. CASE holder = a
  BY <1>1, <1>2, HolderGone
<1>3. CASE holder # a
  <2> DEFINE r == [NewAttempt EXCEPT !.pc = "failed"]
  <2>1. r \in AttemptType /\ r.pc \notin Holding
    <3>1. 0 \in Grants
      BY <1>1 DEF Grants
    <3> QED
      BY <3>1 DEF NewAttempt, AttemptType, Ended, Holding
  <2>2. attempt' = [attempt EXCEPT ![a] = r]
    BY <1>1 DEF Fail, End
  <2>3. attempt[a].pc \notin Holding
    BY <1>3 DEF CredentialsInv, TypeOK
  <2> QED
    BY <1>1, <1>3, <2>1, <2>2, <2>3, AttemptMoves DEF provider
<1> QED
  BY <1>2, <1>3

LEMMA TimeoutKeeps ==
    ASSUME CredentialsInv, NEW a \in Attempts, NEW arrived \in BOOLEAN,
           Timeout(a, arrived)
    PROVE  CredentialsInv'
<1>1. /\ holder = a /\ holder' = None /\ Fail(a)
      /\ faults' \in 1..MaxFaults
      /\ UNCHANGED <<rotating, row, operator, renewals>>
      /\ attempt[a].presented \in Grants
  BY CredentialsAssumption
  DEF CredentialsInv, TypeOK, Timeout, Fault, Holding, AttemptType
<1>2. CASE Issue(attempt[a].presented)
  <2>1. /\ issued' \in Nat \ {0} /\ Grants \subseteq Grants'
        /\ valid' \subseteq Grants' /\ withdrawn' = withdrawn
    BY <1>1, <1>2, IssueAdds
  <2>2. withdrawn' \subseteq Grants'
    BY <2>1 DEF CredentialsInv, TypeOK
  <2> QED
    BY <1>1, <2>1, <2>2, HolderGone
<1>3. CASE UNCHANGED provider
  <2>1. /\ issued' \in Nat \ {0} /\ Grants \subseteq Grants'
        /\ valid' \subseteq Grants' /\ withdrawn' \subseteq Grants'
    BY <1>3 DEF CredentialsInv, TypeOK, provider, Grants
  <2> QED
    BY <1>1, <2>1, HolderGone
<1> QED
  BY <1>2, <1>3 DEF Timeout

-----------------------------------------------------------------------------
LEMMA CredentialsStep == CredentialsInv /\ [Next]_vars => CredentialsInv'
<1> SUFFICES ASSUME CredentialsInv, [Next]_vars PROVE CredentialsInv'
  OBVIOUS
<1>1. ASSUME NEW a \in Attempts, Step(a) PROVE CredentialsInv'
  BY <1>1, ReadKeeps, LockKeeps, ExchangeKeeps, CommitKeeps, MarkUnusableKeeps,
     CallKeeps DEF Step
<1>2. ASSUME NEW a \in Attempts, Crash(a) PROVE CredentialsInv'
  BY <1>2, CrashKeeps
<1>3. ASSUME NEW a \in Attempts, NEW arrived \in BOOLEAN, Timeout(a, arrived)
      PROVE  CredentialsInv'
  BY <1>3, TimeoutKeeps
<1>4. ASSUME NEW f \in valid, Withdraw(f) PROVE CredentialsInv'
  BY <1>4, WithdrawKeeps
<1>5. CASE Age \/ Authorize \/ RevokeRead \/ RevokeAtProvider \/ Delete
  BY <1>5, AgeKeeps, AuthorizeKeeps, RevokeReadKeeps, RevokeAtProviderKeeps,
     DeleteKeeps
<1>6. CASE UNCHANGED vars
  <2>1. TypeOK'
    BY <1>6
    DEF CredentialsInv, TypeOK, RowType, AttemptType, OperatorType, Grants, vars
  <2>2. RowHeld' /\ ExchangeIsNeeded' /\ RefusalHolds' /\ MarkIsTrue'
    BY <1>6 DEF CredentialsInv, RowHeld, ExchangeIsNeeded, RefusalHolds,
                MarkIsTrue, Fresh, vars
  <2>3. TokenSomewhere'
    BY <1>6 DEF CredentialsInv, TokenSomewhere, Good, vars
  <2> QED
    BY <2>1, <2>2, <2>3 DEF CredentialsInv
<1> QED
  BY <1>1, <1>2, <1>3, <1>4, <1>5, <1>6 DEF Next

LEMMA CredentialsAlways == Spec => []CredentialsInv
  BY CredentialsInit, CredentialsStep, PTL DEF Spec

\* A refresh token is presented only by an attempt that found, under the lock, a
\* row that is not marked and a token that is not fresh or was rejected
\* (refresh_locked), however many replicas decided to refresh at once.
THEOREM ExchangesAreNeeded == Spec => []ExchangeIsNeeded
<1>1. CredentialsInv => ExchangeIsNeeded
  BY DEF CredentialsInv
<1> QED
  BY <1>1, CredentialsAlways, PTL

\* A stored credential is marked invalid_grant only when the provider refuses
\* the very token it holds (mark_unusable), whatever rotations, authorizations
\* and revocations happened around the refused exchange.
THEOREM MarksAreTrue == Spec => []MarkIsTrue
<1>1. CredentialsInv => MarkIsTrue
  BY DEF CredentialsInv
<1> QED
  BY <1>1, CredentialsAlways, PTL

\* As long as no process died and no message was lost, no interleaving of
\* refreshes (refresh_locked, rotate) and of the operator's commands leaves a
\* usable row with a token that was used up.
THEOREM NoTokenBurnt == Spec => []OnlyFaultsBurn
<1>1. CredentialsInv => OnlyFaultsBurn
  <2> SUFFICES ASSUME CredentialsInv, row.stored, row.unusable = "no",
                      holder = None, faults = 0
               PROVE  Good(row.refresh)
    BY DEF OnlyFaultsBurn, Good
  <2>1. \A a \in Attempts : attempt[a].pc \notin Holding
    BY CredentialsAssumption DEF CredentialsInv, TypeOK
  <2> QED
    BY <2>1 DEF CredentialsInv, TokenSomewhere, Holding
<1> QED
  BY <1>1, CredentialsAlways, PTL

=============================================================================
