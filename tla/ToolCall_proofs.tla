----------------------------- MODULE ToolCall_proofs ----------------------------
(***************************************************************************)
(* Proofs about the execution budget and the retry loop, for any limits,   *)
(* any retry policy and any latencies and costs.                           *)
(***************************************************************************)
EXTENDS ToolCall, TLAPS

\* A run is in a call only while its earlier calls returned, so StoppedIffExhausted
\* tells it that nothing is exhausted while the call goes on.
CallsFollowResults == phase # "idle" => outcome \notin Failures

IInv == TypeOK /\ WithinBudget /\ StoppedIffExhausted /\ CallsFollowResults

\* ensure_attempt_allowed names a dimension or leaves room in every limit.
LEMMA AllowedMeansRoom ==
    ASSUME IInv
    PROVE  /\ FirstExceeded(attempt > 0) \in Dimension \cup {"none"}
           /\ FirstExceeded(attempt > 0) = "none" =>
                 /\ toolCalls + 1 <= MaxToolCalls
                 /\ retries + (IF attempt > 0 THEN 1 ELSE 0) <= MaxRetries
                 /\ elapsed < MaxElapsed
                 /\ cost + callCost <= MaxCost
<1> USE BudgetAssumption DEF IInv, TypeOK, Dimension
<1>1. CASE attempt > 0
  BY <1>1 DEF FirstExceeded
<1>2. CASE ~(attempt > 0)
  BY <1>2 DEF FirstExceeded
<1> QED
  BY <1>1, <1>2

\* A refused retry names a dimension.
LEMMA RefusalIsADimension ==
    ASSUME NEW l PROVE RetryRefusal(l) \in Dimension \cup {"none"}
BY DEF RetryRefusal, Dimension

\* The wait before a retry is a number for every retry the policy allows.
LEMMA WaitIsANumber ==
    ASSUME TypeOK, attempt + 1 < MaxAttempts
    PROVE  BackoffMs(attempt + 1) \in Nat
BY BudgetAssumption, BackoffAssumption DEF TypeOK

\* An attempt that ends stays within the cost limit, because its cost was
\* reserved when it began (finish_attempt, budgets.py 177-185).
LEMMA FinishStep ==
    ASSUME IInv, phase = "calling", NEW l \in Latencies, Finish(l)
    PROVE  /\ elapsed' \in Nat /\ cost' \in Nat
           /\ cost' <= MaxCost
           /\ exhausted' \in Dimension \cup {"none"}
           /\ UNCHANGED <<toolCalls, retries, callCost>>
<1> USE BudgetAssumption DEF IInv, TypeOK, Dimension, Finish
<1>1. elapsed' \in Nat /\ cost' \in Nat /\ cost' <= MaxCost
  BY DEF WithinBudget
<1> QED
  BY <1>1

LEMMA InitIInv == Init => IInv
BY BudgetAssumption DEF Init, IInv, TypeOK, WithinBudget, StoppedIffExhausted,
   CallsFollowResults, Dimension, Failures

LEMMA IInvStep == IInv /\ [Next]_vars => IInv'
<1> SUFFICES ASSUME IInv, [Next]_vars PROVE IInv'
  OBVIOUS
<1> USE BudgetAssumption DEF IInv, TypeOK, WithinBudget, StoppedIffExhausted,
        CallsFollowResults, Failures
<1>1. ASSUME NEW c \in CallCosts, BeginCall(c) PROVE IInv'
  BY <1>1 DEF BeginCall, trackerVars
<1>2. CASE NewRun
  BY <1>2 DEF NewRun
<1>3. CASE StartAttempt
  <2>1. /\ toolCalls + 1 <= MaxToolCalls
        /\ retries + (IF attempt > 0 THEN 1 ELSE 0) <= MaxRetries
        /\ elapsed < MaxElapsed
        /\ cost + callCost <= MaxCost
    BY <1>3, AllowedMeansRoom DEF StartAttempt
  <2> QED
    BY <1>3, <2>1 DEF StartAttempt
<1>4. CASE AttemptRefused
  <2>1. exhausted' \in Dimension
    BY <1>4, AllowedMeansRoom DEF AttemptRefused
  <2> QED
    BY <1>4, <2>1 DEF AttemptRefused, End, Dimension
<1>5. CASE Propagate
  BY <1>5 DEF Propagate, End, trackerVars
<1>6. ASSUME NEW l \in Latencies, Return(l) PROVE IInv'
  <2>1. /\ Finish(l) /\ UNCHANGED attempt
        /\ End(IF exhausted' = "none" THEN "result" ELSE "budget_exceeded")
    BY <1>6 DEF Return
  <2>2. /\ elapsed' \in Nat /\ cost' \in Nat /\ cost' <= MaxCost
        /\ exhausted' \in Dimension \cup {"none"}
        /\ UNCHANGED <<toolCalls, retries, callCost>>
    BY <1>6, <2>1, FinishStep DEF Return
  <2> QED
    BY <2>1, <2>2 DEF End
<1>7. ASSUME NEW l \in Latencies, FailForGood(l) \/ ExhaustRetries(l) PROVE IInv'
  <2>1. /\ Finish(l) /\ UNCHANGED attempt
        /\ phase = "calling" /\ phase' = "idle"
        /\ outcome' \in {"operational_error", "retry_exhausted"}
    BY <1>7 DEF FailForGood, ExhaustRetries, End
  <2>2. /\ elapsed' \in Nat /\ cost' \in Nat /\ cost' <= MaxCost
        /\ exhausted' \in Dimension \cup {"none"}
        /\ UNCHANGED <<toolCalls, retries, callCost>>
    BY <2>1, FinishStep
  <2> QED
    BY <2>1, <2>2
<1>8. ASSUME NEW l \in Latencies, RetryRefused(l) PROVE IInv'
  <2>1. exhausted' \in Dimension
    BY <1>8, RefusalIsADimension DEF RetryRefused
  <2> QED
    BY <1>8, <2>1 DEF RetryRefused, End, Dimension
<1>9. ASSUME NEW l \in Latencies, Retry(l) PROVE IInv'
  <2>1. BackoffMs(attempt + 1) \in Nat
    BY <1>9, WaitIsANumber DEF Retry
  <2> QED
    BY <1>9, <2>1 DEF Retry
<1>10. CASE UNCHANGED vars
  BY <1>10 DEF vars, trackerVars
<1> QED
  BY <1>1, <1>2, <1>3, <1>4, <1>5, <1>6, <1>7, <1>8, <1>9, <1>10 DEF Next, CallStep

(***************************************************************************)
(* Theorems                                                                *)
(***************************************************************************)

THEOREM Invariance == Spec => []IInv
BY InitIInv, IInvStep, PTL DEF Spec

\* The counters are numbers and the loop makes no more attempts than the
\* policy allows (workflow.py 623, 799).
THEOREM TypeCorrect == Spec => []TypeOK
<1>1. IInv => TypeOK
  BY DEF IInv
<1> QED
  BY <1>1, Invariance, PTL

\* No sequence of calls and retries passes a limit of the budget.
THEOREM BudgetIsKept == Spec => []WithinBudget
<1>1. IInv => WithinBudget
  BY DEF IInv
<1> QED
  BY <1>1, Invariance, PTL

\* A run stopped by its budget names the limit, and a run that goes on has
\* exhausted none.
THEOREM StopsAreExplained == Spec => []StoppedIffExhausted
<1>1. IInv => StoppedIffExhausted
  BY DEF IInv
<1> QED
  BY <1>1, Invariance, PTL

\* A call has at most two steps for each attempt the policy leaves it: one to begin
\* the attempt, one to end it.
StepsAhead ==
    CASE phase = "starting" -> 2 * (MaxAttempts - attempt)
      [] phase = "calling"  -> 2 * (MaxAttempts - attempt) - 1
      [] phase = "idle"     -> 0

\* A call comes nearer to its end with every step, however often its dependency asks
\* for a retry and whatever the budget leaves (the loop, workflow.py 623-799).
THEOREM CallsWindDown ==
    Spec => /\ []((StepsAhead \in Nat) /\ (StepsAhead = 0 <=> phase = "idle"))
            /\ [][CallStep => StepsAhead' < StepsAhead]_vars
<1> USE BudgetAssumption DEF IInv, TypeOK, StepsAhead
<1>1. IInv => (StepsAhead \in Nat) /\ (StepsAhead = 0 <=> phase = "idle")
  OBVIOUS
<1>2. ASSUME IInv, CallStep PROVE StepsAhead' < StepsAhead
  <2>1. \/ phase = "starting" /\ phase' = "calling" /\ attempt' = attempt
        \/ phase = "calling" /\ phase' = "starting" /\ attempt' = attempt + 1
        \/ phase \in {"starting", "calling"} /\ phase' = "idle"
    BY <1>2 DEF CallStep, StartAttempt, AttemptRefused, Propagate, Return, FailForGood,
       ExhaustRetries, RetryRefused, Retry, End
  <2> QED
    BY <1>2, <2>1
<1> QED
  BY <1>1, <1>2, Invariance, PTL

================================================================================
