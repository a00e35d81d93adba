---------------------------- MODULE RetryHorizon ----------------------------
(***************************************************************************)
(* The arithmetic of activity retries, in Width-bit unsigned integers:     *)
(* the bound the runtime puts on one retry delay (retry_delay_upper_ms in  *)
(* the server's activity.rs) and the send horizon the Process compiler     *)
(* pins for a provider-idempotent activity (compile_retry_horizon in       *)
(* crates/processes), next to the closed form of specification 005.        *)
(***************************************************************************)
EXTENDS Integers

CONSTANT Width   \* bits of an integer: 64 in the code

ASSUME WidthAssumption == Width \in Nat \ {0}

MaxInt   == 2^Width - 1
Overflow == -1

LesserOf(a, b)         == IF a <= b THEN a ELSE b
SaturatingMul(a, b)    == LesserOf(a * b, MaxInt)
Checked(n)             == IF n > MaxInt THEN Overflow ELSE n
CheckedAdd(a, b)       == IF Overflow \in {a, b} THEN Overflow ELSE Checked(a + b)
CheckedMul(a, b)       == IF Overflow \in {a, b} THEN Overflow ELSE Checked(a * b)

\* retry_delay_upper_ms: 2^(attempt - 1) shifted out of range saturates.
RetryDelayUpperMs(initial, maximum, attempt) ==
    LET exponent   == attempt - 1
        multiplier == IF exponent < Width THEN 2^exponent ELSE MaxInt
    IN  LesserOf(SaturatingMul(initial, multiplier), maximum)

\* Mutations of CompileRetryHorizon: the takeover grace not charged; one retry
\* too few charged.
HorizonWithoutGrace(attempts, initial, maximum, toStart, toClose, takeover) ==
    attempts * toClose + (attempts - 1) * (maximum + toStart)

HorizonOneRetryShort(attempts, initial, maximum, toStart, toClose, takeover) ==
    CheckedMul(attempts, CheckedAdd(toClose, takeover))

\* One round of the loop of compile_retry_horizon, with `rest` rounds to go: it
\* adds one retry, and takes all that remain in one step once the bound has
\* reached the maximum.
ChargeRetry(state, rest, maximum, toStart) ==
    LET added     == CheckedAdd(CheckedAdd(state.horizon, state.bound), toStart)
        saturated == CheckedMul(CheckedAdd(maximum, toStart), rest)
    IN  IF state.done THEN state
        ELSE IF state.bound = maximum /\ rest > 0
        THEN [bound |-> maximum, horizon |-> CheckedAdd(added, saturated),
              done |-> TRUE]
        ELSE [bound |-> LesserOf(SaturatingMul(state.bound, 2), maximum),
              horizon |-> added, done |-> FALSE]

\* compile_retry_horizon
CompileRetryHorizon(attempts, initial, maximum, toStart, toClose, takeover) ==
    LET perAttempt == CheckedAdd(toClose, takeover)
        loop[n \in 0..(attempts - 1)] ==
            IF n = 0
            THEN [bound |-> initial, horizon |-> CheckedMul(attempts, perAttempt),
                  done |-> FALSE]
            ELSE ChargeRetry(loop[n - 1], attempts - 1 - n, maximum, toStart)
    IN  loop[attempts - 1].horizon

-----------------------------------------------------------------------------
\* Specification 005: retry_delay_upper_bound(i) and maximum_send_horizon_ms,
\* over unbounded integers.
BoundOf(initial, maximum, i) == LesserOf(maximum, initial * 2^(i - 1))

RetriesOf(retries, initial, maximum, toStart) ==
    LET sum[i \in 0..retries] ==
            IF i = 0 THEN 0
            ELSE sum[i - 1] + BoundOf(initial, maximum, i) + toStart
    IN  sum[retries]

HorizonOf(attempts, initial, maximum, toStart, toClose, takeover) ==
    attempts * (toClose + takeover)
      + RetriesOf(attempts - 1, initial, maximum, toStart)

=============================================================================
