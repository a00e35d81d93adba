------------------------------ MODULE MCActivity ------------------------------
(***************************************************************************)
(* Model-checking instances of Activity.                                   *)
(***************************************************************************)
EXTENDS Activity, TLC

CONSTANTS j1, j2, w1, w2, w3, k

\* Jobs without a serialization key, and jobs that share one.
Unserialized == [j \in Jobs |-> None]
OneKey       == [j \in Jobs |-> k]

WorkerSymmetry == Permutations(Workers)
Symmetry       == Permutations(Workers) \cup Permutations(Jobs)

\* The horizon the compiler pins for this retry policy.
Compiler == INSTANCE RetryHorizon WITH Width <- 16
CompiledHorizon ==
    Compiler!CompileRetryHorizon(MaxAttempts, InitialInterval, MaxInterval,
                                 ScheduleToStart, StartToClose, TakeoverGrace)

===============================================================================
