---------------------------- MODULE SharedRegistry -----------------------------
(***************************************************************************)
(* Workflow runs that share one ExecutionRegistry: the execution stage of  *)
(* _run_synthetic_support_case (workflow.py 1298-1525), reduced to what it *)
(* does to the registry and to the outside world.  Steps of different runs *)
(* interleave; each registry method is atomic, which its docstring (lines  *)
(* 94-98) asks of a production store and the local dict does not provide.  *)
(***************************************************************************)
EXTENDS ExecutionRegistry

CONSTANTS Runs,
          MaxAttemptsPerCall   \* RetryPolicy.max_attempts_per_call

ASSUME AttemptsAssumption == MaxAttemptsPerCall \in Nat \ {0}

VARIABLES
    phase,     \* where each run is
    key,       \* the key it generated
    observed,  \* operation.status as the run last saw it
    tries,     \* attempts of this run's tool call
    effects,   \* how often the adapter acted on each key
    reported   \* what the run told its caller

vars == <<operations, phase, key, observed, tries, effects, reported>>

Phases == {"idle", "obtained", "calling", "acted", "refused", "done"}
NoKey == <<>>

Init ==
    /\ RegistryInit
    /\ phase = [r \in Runs |-> "idle"]
    /\ key = [r \in Runs |-> NoKey]
    /\ observed = [r \in Runs |-> "absent"]
    /\ tries = [r \in Runs |-> 0]
    /\ effects = [k \in Keys |-> 0]
    /\ reported = [r \in Runs |-> <<>>]

Finished(r, verdict) ==
    /\ phase' = [phase EXCEPT ![r] = "done"]
    /\ reported' = [reported EXCEPT ![r] = <<key[r], verdict>>]

See(r) == observed' = [observed EXCEPT ![r] = operations'[key[r]].status]

\* get_or_create; the run keeps the operation it got
Obtain(r, case, d) ==
    LET k == IdempotencyKey(case, d) IN
    /\ phase[r] = "idle"
    /\ GetOrCreate(k)
    /\ key' = [key EXCEPT ![r] = k]
    /\ observed' = [observed EXCEPT ![r] = operations'[k].status]
    /\ phase' = [phase EXCEPT ![r] = "obtained"]
    /\ UNCHANGED <<tries, effects, reported>>

\* duplicate_execution_suppressed: the recorded result is reused
SuppressDuplicate(r) ==
    /\ phase[r] = "obtained"
    /\ observed[r] = "succeeded"
    /\ Finished(r, "succeeded")
    /\ UNCHANGED <<operations, key, observed, tries, effects>>

\* start_execution_attempt, before each adapter call
BeginAttempt(r) ==
    /\ phase[r] = "obtained"
    /\ observed[r] # "succeeded"
    /\ StartAttempt(key[r])
    /\ See(r)
    /\ tries' = [tries EXCEPT ![r] = @ + 1]
    /\ phase' = [phase EXCEPT ![r] = "calling"]
    /\ UNCHANGED <<key, effects, reported>>

\* start_attempt raises ValueError, which nothing catches: the run is over
\* without a result
AttemptRejected(r) ==
    /\ phase[r] = "obtained"
    /\ observed[r] # "succeeded"
    /\ ~CanStartAttempt(key[r])
    /\ Finished(r, "unknown")
    /\ UNCHANGED <<operations, key, observed, tries, effects>>

\* the execution budget refuses the attempt before the registry is asked
BudgetRefuses(r) ==
    /\ phase[r] = "obtained"
    /\ observed[r] # "succeeded"
    /\ Finished(r, "failed")
    /\ UNCHANGED <<operations, key, observed, tries, effects>>

\* the adapter does what it is asked to do
AdapterActs(r) ==
    /\ phase[r] = "calling"
    /\ effects' = [effects EXCEPT ![key[r]] = @ + 1]
    /\ phase' = [phase EXCEPT ![r] = "acted"]
    /\ UNCHANGED <<operations, key, observed, tries, reported>>

\* ExecutionResult(False, ...) or a SyntheticOperationalError: no effect
AdapterRefuses(r) ==
    /\ phase[r] = "calling"
    /\ phase' = [phase EXCEPT ![r] = "refused"]
    /\ UNCHANGED <<operations, key, observed, tries, effects, reported>>

\* an exception that is no SyntheticOperationalError passes every handler; the
\* adapter may or may not have acted
AdapterLost(r) ==
    /\ phase[r] = "calling"
    /\ \/ UNCHANGED effects
       \/ effects' = [effects EXCEPT ![key[r]] = @ + 1]
    /\ Finished(r, "unknown")
    /\ UNCHANGED <<operations, key, observed, tries>>

\* finish_execution_attempt with a success
RecordActed(r) ==
    /\ phase[r] = "acted"
    /\ RecordSuccess(key[r])
    /\ See(r)
    /\ Finished(r, "succeeded")
    /\ UNCHANGED <<key, tries, effects>>

\* finish_execution_attempt or fail_execution_attempt with a failure; a failed
\* result and an error that is not retryable end the run
RecordRefused(r) ==
    /\ phase[r] = "refused"
    /\ RecordFailure(key[r])
    /\ See(r)
    /\ Finished(r, "failed")
    /\ UNCHANGED <<key, tries, effects>>

\* Mutant: the adapter is called again without a new attempt
RetryInPlace(r) ==
    /\ phase[r] = "refused"
    /\ phase' = [phase EXCEPT ![r] = "calling"]
    /\ UNCHANGED <<operations, key, observed, tries, effects, reported>>

\* a retryable error within the attempt limit goes round the retry loop
RetryRefused(r) ==
    /\ phase[r] = "refused"
    /\ tries[r] < MaxAttemptsPerCall
    /\ RecordFailure(key[r])
    /\ See(r)
    /\ phase' = [phase EXCEPT ![r] = "obtained"]
    /\ UNCHANGED <<key, tries, effects, reported>>

RunStep(r) ==
    \/ \E c \in Cases, d \in Dispositions : Obtain(r, c, d)
    \/ SuppressDuplicate(r) \/ BeginAttempt(r) \/ AttemptRejected(r)
    \/ BudgetRefuses(r) \/ AdapterActs(r) \/ AdapterRefuses(r) \/ AdapterLost(r)
    \/ RecordActed(r) \/ RecordRefused(r) \/ RetryRefused(r)

Next == \E r \in Runs : RunStep(r)

Spec == Init /\ [][Next]_vars

\* A thread that runs a workflow keeps running and its adapter returns or
\* raises: a run that can step does.
FairSpec == Spec /\ \A r \in Runs : WF_vars(RunStep(r))

--------------------------------------------------------------------------------
(***************************************************************************)
(* Properties                                                              *)
(***************************************************************************)

TypeOK ==
    /\ operations \in [Keys -> Operation]
    /\ phase \in [Runs -> Phases]
    /\ key \in [Runs -> Keys \cup {NoKey}]
    /\ observed \in [Runs -> OperationStatus \cup {"absent"}]
    /\ tries \in [Runs -> 0 .. MaxAttemptsPerCall]
    /\ effects \in [Keys -> Nat]
    /\ reported \in [Runs -> {<<>>} \cup
                             (Keys \X {"succeeded", "failed", "unknown"})]

\* Run r has an attempt on key k open between start_attempt and its record.
Owns(r, k) == phase[r] \in {"calling", "acted", "refused"} /\ key[r] = k

\* An attempt in the store belongs to at most one run, and a run's attempt is
\* in the store: nobody records the outcome of somebody else's attempt.
OneAttemptAtATime ==
    \A k \in Keys :
        /\ \A r \in Runs : Owns(r, k) => operations[k].status = "in_progress"
        /\ \A r, s \in Runs : Owns(r, k) /\ Owns(s, k) => r = s

\* The store agrees with the outside world: a succeeded operation happened,
\* one that is not begun or has failed did not.
StoreIsTruthful ==
    \A k \in Keys :
        /\ operations[k].status = "succeeded" => effects[k] = 1
        /\ operations[k].status \in {"absent", "not_started", "failed"} => effects[k] = 0

\* An attempt whose run was lost is neither repeated nor assumed to have
\* succeeded (docs/06-production-rollout.md 181), whatever later runs do.
UnknownIsNeverResolved ==
    [][\A k \in Keys :
        (operations[k].status = "in_progress" /\ ~\E r \in Runs : Owns(r, k))
            => operations'[k] = operations[k] /\ effects'[k] = effects[k]]_vars

\* The effect of a key happens at most once and success is reported only for
\* an effect that happened.
Promise == INSTANCE OnceOnlyEffect
OnceOnly == Promise!Spec

\* Every run ends with a report, the bounded retry loop and an operation left
\* in progress by a lost run notwithstanding.
EveryRunReports == \A r \in Runs : <>(reported[r] # <<>>)

================================================================================
