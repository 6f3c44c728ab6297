-------------------------------- MODULE ToolCall --------------------------------
(***************************************************************************)
(* The execution budget of one workflow run (_BudgetTracker, budgets.py)   *)
(* and the bounded retry loop every dependency call goes through           *)
(* (tool_call, workflow.py 610-799).  A run makes calls one after another; *)
(* a call is a loop of attempts that ends with a result or with an         *)
(* exception, after which the run makes no further call.                   *)
(* Milliseconds and dollars are natural numbers.                           *)
(***************************************************************************)
EXTENDS Naturals

CONSTANTS
    MaxToolCalls, MaxRetries, MaxElapsed, MaxCost,   \* ExecutionBudget
    MaxAttempts,                                     \* RetryPolicy
    InitialBackoff, BackoffMultiplier, MaxBackoff,
    Latencies,                                       \* how long one attempt may take
    CallCosts                                        \* estimated costs of the tools

ASSUME BudgetAssumption ==
    /\ MaxToolCalls \in Nat /\ MaxRetries \in Nat
    /\ MaxElapsed \in Nat /\ MaxCost \in Nat
    /\ MaxAttempts \in Nat \ {0}
    /\ Latencies \subseteq Nat /\ CallCosts \subseteq Nat

\* backoff_ms: exponential in the number of the retry, capped
BackoffMs(n) ==
    LET delay == InitialBackoff * BackoffMultiplier ^ (n - 1)
    IN  IF delay < MaxBackoff THEN delay ELSE MaxBackoff

ASSUME BackoffAssumption == \A n \in 1 .. MaxAttempts : BackoffMs(n) \in Nat

Dimension == {"tool_calls", "retry_attempts", "elapsed_ms", "estimated_cost_usd"}

\* how a call ended: its result, the dependency's own error, RetryExhausted,
\* ExecutionBudgetExceeded, or any other exception
Failures == {"operational_error", "retry_exhausted", "budget_exceeded", "raised"}

VARIABLES
    toolCalls, retries, elapsed, cost,  \* _BudgetTracker counters
    exhausted,                          \* _exhausted, or "none"
    callCost,                           \* the cost of the tool being called
    attempt,                            \* retry_count
    phase,                              \* where the loop is
    outcome                             \* how the last call ended

trackerVars == <<toolCalls, retries, elapsed, cost, exhausted>>
vars == <<trackerVars, callCost, attempt, phase, outcome>>

Init ==
    /\ toolCalls = 0 /\ retries = 0 /\ elapsed = 0 /\ cost = 0
    /\ exhausted = "none"
    /\ callCost = 0
    /\ attempt = 0
    /\ phase = "idle"
    /\ outcome = "none"

(***************************************************************************)
(* ensure_attempt_allowed: the first limit passed, in the order checked    *)
(***************************************************************************)
\* Mutant: the calls made are compared with the limit, not the call to make
FirstExceededOffByOne(retry) ==
    IF exhausted # "none" THEN exhausted
    ELSE IF toolCalls > MaxToolCalls THEN "tool_calls"
    ELSE IF retries + (IF retry THEN 1 ELSE 0) > MaxRetries THEN "retry_attempts"
    ELSE IF elapsed >= MaxElapsed THEN "elapsed_ms"
    ELSE IF cost + callCost > MaxCost THEN "estimated_cost_usd"
    ELSE "none"

FirstExceeded(retry) ==
    IF exhausted # "none" THEN exhausted
    ELSE IF toolCalls + 1 > MaxToolCalls THEN "tool_calls"
    ELSE IF retries + (IF retry THEN 1 ELSE 0) > MaxRetries THEN "retry_attempts"
    ELSE IF elapsed >= MaxElapsed THEN "elapsed_ms"
    ELSE IF cost + callCost > MaxCost THEN "estimated_cost_usd"
    ELSE "none"

End(how) == phase' = "idle" /\ outcome' = how

\* tool_call is entered with the cost the configuration gives the tool
BeginCall(c) ==
    /\ phase = "idle"
    /\ outcome \notin Failures
    /\ callCost' = c
    /\ attempt' = 0
    /\ phase' = "starting"
    /\ UNCHANGED <<trackerVars, outcome>>

\* start_attempt
StartAttempt ==
    /\ phase = "starting"
    /\ FirstExceeded(attempt > 0) = "none"
    /\ toolCalls' = toolCalls + 1
    /\ retries' = retries + (IF attempt > 0 THEN 1 ELSE 0)
    /\ phase' = "calling"
    /\ UNCHANGED <<elapsed, cost, exhausted, callCost, attempt, outcome>>

\* Mutant: the loop waits for budget instead of raising
AttemptWaits == phase = "starting" /\ FirstExceeded(attempt > 0) # "none" /\ UNCHANGED vars

AttemptRefused ==
    /\ phase = "starting"
    /\ FirstExceeded(attempt > 0) # "none"
    /\ exhausted' = FirstExceeded(attempt > 0)
    /\ End("budget_exceeded")
    /\ UNCHANGED <<toolCalls, retries, elapsed, cost, callCost, attempt>>

\* finish_attempt, common to both ways an attempt ends
Finish(latency) ==
    /\ elapsed' = elapsed + latency
    /\ cost' = cost + callCost
    /\ exhausted' = IF elapsed' >= MaxElapsed THEN "elapsed_ms"
                    ELSE IF cost' > MaxCost THEN "estimated_cost_usd"
                    ELSE exhausted
    /\ UNCHANGED <<toolCalls, retries, callCost>>

\* Mutant: ensure_active is not asked after a result
ReturnAlways(latency) ==
    phase = "calling" /\ Finish(latency) /\ End("result") /\ UNCHANGED attempt

\* the dependency returned; a result that used up the budget is thrown away
Return(latency) ==
    /\ phase = "calling"
    /\ Finish(latency)
    /\ End(IF exhausted' = "none" THEN "result" ELSE "budget_exceeded")
    /\ UNCHANGED attempt

\* an exception that is no SyntheticOperationalError passes the loop.  One of the
\* dependency, or of the hook before it, leaves the attempt uncounted; one of the
\* hooks after finish_attempt, or of the sleep, comes when it is counted, which makes
\* no difference: the tracker belongs to the run, and nothing reads it once it raised
Propagate ==
    /\ phase = "calling"
    /\ End("raised")
    /\ UNCHANGED <<trackerVars, callCost, attempt>>

\* a SyntheticOperationalError the policy does not retry
FailForGood(latency) ==
    /\ phase = "calling"
    /\ Finish(latency)
    /\ End("operational_error")
    /\ UNCHANGED attempt

\* a retryable error on the last attempt
ExhaustRetries(latency) ==
    /\ phase = "calling"
    /\ attempt + 1 >= MaxAttempts
    /\ Finish(latency)
    /\ End("retry_exhausted")
    /\ UNCHANGED attempt

\* what the budget says of the next attempt and of the wait before it, as it
\* stands when an attempt of that latency has been counted
RetryRefusal(latency) ==
    LET spent == elapsed + latency
        paid == cost + callCost
    IN  IF spent >= MaxElapsed THEN "elapsed_ms"
        ELSE IF paid > MaxCost THEN "estimated_cost_usd"
        ELSE IF toolCalls + 1 > MaxToolCalls THEN "tool_calls"
        ELSE IF retries + 1 > MaxRetries THEN "retry_attempts"
        ELSE IF paid + callCost > MaxCost THEN "estimated_cost_usd"
        ELSE IF spent + BackoffMs(attempt + 1) >= MaxElapsed THEN "elapsed_ms"
        ELSE "none"

\* a retryable error, attempts left, but no budget for another
RetryRefused(latency) ==
    /\ phase = "calling"
    /\ attempt + 1 < MaxAttempts
    /\ RetryRefusal(latency) # "none"
    /\ elapsed' = elapsed + latency
    /\ cost' = cost + callCost
    /\ exhausted' = RetryRefusal(latency)
    /\ End("budget_exceeded")
    /\ UNCHANGED <<toolCalls, retries, callCost, attempt>>

\* Mutant: one attempt more than the policy allows
RetryOnceMore(latency) ==
    /\ phase = "calling"
    /\ RetryRefusal(latency) = "none"
    /\ elapsed' = elapsed + latency + BackoffMs(attempt + 1)
    /\ cost' = cost + callCost
    /\ attempt' = attempt + 1
    /\ phase' = "starting"
    /\ UNCHANGED <<toolCalls, retries, exhausted, callCost, outcome>>

\* a retryable error: the wait is charged to the run and the loop goes round
Retry(latency) ==
    /\ phase = "calling"
    /\ attempt + 1 < MaxAttempts
    /\ RetryRefusal(latency) = "none"
    /\ elapsed' = elapsed + latency + BackoffMs(attempt + 1)
    /\ cost' = cost + callCost
    /\ attempt' = attempt + 1
    /\ phase' = "starting"
    /\ UNCHANGED <<toolCalls, retries, exhausted, callCost, outcome>>

\* every run has a tracker of its own, a correction run included
NewRun ==
    /\ phase = "idle"
    /\ toolCalls' = 0 /\ retries' = 0 /\ elapsed' = 0 /\ cost' = 0
    /\ exhausted' = "none"
    /\ outcome' = "none"
    /\ callCost' = 0
    /\ attempt' = 0
    /\ UNCHANGED phase

CallStep ==
    \/ StartAttempt \/ AttemptRefused \/ Propagate
    \/ \E l \in Latencies :
          Return(l) \/ FailForGood(l) \/ ExhaustRetries(l) \/ RetryRefused(l) \/ Retry(l)

Next == (\E c \in CallCosts : BeginCall(c)) \/ CallStep \/ NewRun

Spec == Init /\ [][Next]_vars

\* the thread of the run goes on and every dependency returns or raises
FairSpec == Spec /\ WF_vars(CallStep)

--------------------------------------------------------------------------------
(***************************************************************************)
(* Properties                                                              *)
(***************************************************************************)

\* Every counter is a number, and retry_count stays in the range of the loop:
\* its last line, "bounded retry loop did not return or raise" (workflow.py
\* 799), is never reached.
TypeOK ==
    /\ toolCalls \in Nat /\ retries \in Nat /\ elapsed \in Nat /\ cost \in Nat
    /\ exhausted \in Dimension \cup {"none"}
    /\ callCost \in Nat
    /\ attempt \in 0 .. MaxAttempts - 1
    /\ phase \in {"idle", "starting", "calling"}
    /\ outcome \in Failures \cup {"none", "result"}

\* Calls, retries and money never pass their limits; the elapsed time is
\* still short of its limit whenever an attempt is begun.
WithinBudget ==
    /\ toolCalls <= MaxToolCalls
    /\ retries <= MaxRetries
    /\ cost <= MaxCost
    /\ phase = "calling" => elapsed < MaxElapsed /\ cost + callCost <= MaxCost

\* The run goes on only while nothing is exhausted, and a run stopped by its
\* budget knows which limit stopped it.
StoppedIffExhausted ==
    /\ outcome = "budget_exceeded" => exhausted # "none"
    /\ outcome \in {"none", "result"} => exhausted = "none"

\* A call ends, with a result or an exception, however often it is retried.
EveryCallEnds == phase # "idle" ~> phase = "idle"

================================================================================
