---------------------------- MODULE Workflow_proofs ----------------------------
(***************************************************************************)
(* Proofs about the orchestrator, for any number of runs, any budget and   *)
(* retry policy, and any orders, evidence and reviews.                     *)
(***************************************************************************)
EXTENDS Demo, Sequences, TLAPS

\* The places of a run between the choice of an executable disposition and the
\* result: from here on Key names the operation the run acts on.
Committed ==
    \/ pc \in {"authorize", "obtain", "start_execution", "unwind",
               "record_execution", "complete", "route_failure"}
    \/ Executing

\* The stores are maps over the keys, whatever the runs do to them.
StoreTyped ==
    /\ operations \in [Op!Keys -> [status : Op!OperationStatus \cup {"absent"}, attempts : Nat]]
    /\ effects \in [Op!Keys -> Nat]

\* A call is under way only where the run waits for it.
CallsAreAwaited ==
    /\ phase # "idle" => pc \in {"tool", "unwind"}
    /\ pc = "unwind" => phase = "calling"

\* The registry never understates: what it does not know to be done or under
\* way was not done, and what it knows to be done was done once.
EffectsAreKnown ==
    \A k \in Op!Keys :
        /\ effects[k] <= 1
        /\ operations[k].status = "succeeded" => effects[k] = 1
        /\ operations[k].status \notin {"succeeded", "in_progress"} => effects[k] = 0

\* An adapter is called only for an operation this run has just started.
AttemptIsFresh ==
    (Executing /\ phase = "calling")
        => operations[Key].status = "in_progress" /\ effects[Key] = 0

\* A committed run has a key, and a refund has its authority.
CommittedIsAuthorized ==
    /\ Committed => disposition \in C!ExecutableDispositions
    /\ (Committed /\ pc # "authorize" /\ disposition = "approve_refund")
          => authority = "granted"

\* Only a run whose budget is exhausted looks at an operation that is still in
\* progress when it records the outcome.
RefusalIsRecorded ==
    (pc = "record_execution" /\ operations[Key].status = "in_progress")
        => exhausted # "none"

\* What the case says of the execution, and where the run is when it says so.
OutcomeIsKnown ==
    /\ executionStatus = "succeeded" =>
          /\ pc \in {"complete", "idle"}
          /\ caseStatus \in {"executing", "closed", "awaiting_external_follow_up"}
          /\ disposition \in C!ExecutableDispositions
          /\ operations[Key].status = "succeeded"
    /\ executionStatus = "failed" =>
          /\ pc \in {"route_failure", "idle"}
          /\ caseStatus \in {"executing", "human_review"}
          /\ disposition \in C!ExecutableDispositions
          /\ effects[Key] = 1 => operations[Key].status = "in_progress" /\ exhausted # "none"

IInv ==
    /\ StoreTyped /\ CallsAreAwaited /\ EffectsAreKnown /\ AttemptIsFresh
    /\ CommittedIsAuthorized /\ RefusalIsRecorded /\ OutcomeIsKnown
    /\ ClosedOnlyWhenExecuted

--------------------------------------------------------------------------------
(***************************************************************************)
(* The steps before a disposition is chosen                                *)
(***************************************************************************)

\* A step of a run that is not committed and does not commit it.
Preliminary ==
    /\ pc # "idle" /\ ~Committed /\ ~Committed'
    /\ phase' # "idle" => pc' = "tool"
    /\ UNCHANGED <<operations, effects, disposition, executionStatus>>
    /\ caseStatus' # "closed"  \/ caseStatus' = caseStatus

\* Such a step has nothing to do with the action of the case.
LEMMA PreliminaryStep ==
    ASSUME IInv, Preliminary PROVE IInv' /\ UNCHANGED effects
<1> USE DEF IInv, Preliminary
<1>1. StoreTyped'
  BY DEF StoreTyped
<1>2. CallsAreAwaited'
  BY DEF CallsAreAwaited, Committed
<1>3. EffectsAreKnown'
  BY DEF EffectsAreKnown
<1>4. AttemptIsFresh'
  BY DEF AttemptIsFresh, Committed
<1>5. CommittedIsAuthorized'
  BY DEF CommittedIsAuthorized
<1>6. RefusalIsRecorded'
  BY DEF RefusalIsRecorded, Committed
<1>7. executionStatus \notin {"succeeded", "failed"}
  BY DEF OutcomeIsKnown, Committed
<1>8. OutcomeIsKnown'
  BY <1>7 DEF OutcomeIsKnown
<1>9. ClosedOnlyWhenExecuted'
  BY <1>7 DEF ClosedOnlyWhenExecuted, C!ApprovalIsNotExecution
<1> QED
  BY <1>1, <1>2, <1>3, <1>4, <1>5, <1>6, <1>8, <1>9

\* A lookup changes the budget and the place of the run, and nothing else.
LEMMA LookupsArePreliminary ==
    ASSUME IInv, LookupAttempt \/ LookupRetry \/ LookupReturns \/ LookupStops \/ LookupRaises
    PROVE  Preliminary
<1> USE DEF Looking, InCall, Committed, Executing, Preliminary, caseVars, runVars, unmoved
<1>1. CASE LookupAttempt
  BY <1>1 DEF LookupAttempt
<1>2. CASE LookupRetry
  BY <1>2 DEF LookupRetry
<1>3. CASE LookupReturns
  <2> USE <1>3 DEF LookupReturns
  <2>1. phase' = "idle"
    BY DEF T!Return, T!End
  <2>2. pc' \in {"idle", "tool", "fail_intake", "link", "request_correction",
                 "apply_correction", "attach_shipment", "attach_evidence",
                 "record_address", "open_review"}
        /\ (pc' = "tool" => stage' # "execution")
    BY DEF AfterResult, Call, GoTo, Return
  <2> QED
    BY <2>1, <2>2
<1>4. CASE LookupStops
  BY <1>4 DEF LookupStops, Return, T!AttemptRefused, T!FailForGood, T!ExhaustRetries,
     T!RetryRefused, T!End
<1>5. CASE LookupRaises
  BY <1>5 DEF LookupRaises, Raise, T!Propagate, T!End
<1> QED
  BY <1>1, <1>2, <1>3, <1>4, <1>5

\* The stages up to the policy evaluation never select a disposition.
LEMMA StagesArePreliminary ==
    ASSUME IInv,
           \/ RecordReport \/ FailIntake \/ RequestCorrection \/ ApplyCorrection
           \/ Link \/ AttachShipment \/ GatherEvidence \/ AttachEvidence
           \/ RecordAddress \/ EnterPolicy \/ EvaluatePolicy \/ OpenReview
    PROVE  Preliminary
<1> USE DEF IInv, CallsAreAwaited, Preliminary, Committed, Executing, InCall, notCase, unmoved,
            budgetVars, Call, GoTo, Return, Raise, C!Reject, C!vars, C!statusVars
<1>1. CASE RecordReport
  BY <1>1 DEF RecordReport, C!RecordCustomerReport
<1>2. CASE FailIntake
  BY <1>2 DEF FailIntake, C!FailIntake
<1>3. CASE RequestCorrection
  BY <1>3 DEF RequestCorrection, C!RequestOrderIdentifierCorrection
<1>4. CASE ApplyCorrection
  BY <1>4 DEF ApplyCorrection, C!ApplyOrderIdentifierCorrection
<1>5. CASE Link
  BY <1>5 DEF Link, C!Link
<1>6. CASE AttachShipment
  BY <1>6 DEF AttachShipment, C!AttachShipment
<1>7. CASE GatherEvidence
  BY <1>7 DEF GatherEvidence, C!TransitionTo
<1>8. CASE AttachEvidence
  BY <1>8 DEF AttachEvidence, C!AttachCarrierEvidence
<1>9. CASE RecordAddress
  BY <1>9 DEF RecordAddress, C!RecordAddressMatchResult
<1>10. CASE EnterPolicy
  BY <1>10 DEF EnterPolicy, C!TransitionTo
<1>11. CASE EvaluatePolicy
  BY <1>11 DEF EvaluatePolicy, C!RecordPolicyEvaluation
<1>12. CASE OpenReview
  BY <1>12 DEF OpenReview, C!OpenHumanReview
<1> QED
  BY <1>1, <1>2, <1>3, <1>4, <1>5, <1>6, <1>7, <1>8, <1>9, <1>10, <1>11, <1>12

--------------------------------------------------------------------------------
(***************************************************************************)
(* The first step of a run, and the steps of a committed run               *)
(***************************************************************************)

LEMMA InitIInv == Init => IInv
BY DEF Init, IInv, StoreTyped, CallsAreAwaited, EffectsAreKnown, AttemptIsFresh, Committed,
   Executing, InCall, CommittedIsAuthorized, RefusalIsRecorded, OutcomeIsKnown,
   ClosedOnlyWhenExecuted, C!ApprovalIsNotExecution, C!Init, T!Init,
   Op!RegistryInit, Op!Absent, Op!OperationStatus

\* A new run starts a new case, and a correction goes on with a case on which
\* nothing has been executed; the registry stays as it was.
LEMMA NewRunStep ==
    ASSUME IInv, NewRun \/ NewCorrection PROVE IInv' /\ UNCHANGED effects
<1> USE DEF IInv
<1>1. /\ UNCHANGED <<operations, effects>>
      /\ phase' = phase /\ pc' \in {"report", "tool"}
      /\ pc' = "tool" => stage' = "order_lookup"
      /\ executionStatus' \notin {"succeeded", "failed"}
      /\ caseStatus' # "closed"
      /\ phase = "idle"
  <2>1. CASE NewRun
    BY <2>1 DEF NewRun, T!NewRun
  <2>2. CASE NewCorrection
    BY <2>2 DEF NewCorrection, Correctable, Call, T!NewRun, caseVars, OutcomeIsKnown
  <2> QED
    BY <2>1, <2>2
<1>2. ~Committed'
  BY <1>1 DEF Committed, Executing, InCall
<1>3. StoreTyped' /\ EffectsAreKnown'
  BY <1>1 DEF StoreTyped, EffectsAreKnown
<1>4. CallsAreAwaited' /\ AttemptIsFresh' /\ CommittedIsAuthorized' /\ RefusalIsRecorded'
  BY <1>1, <1>2 DEF CallsAreAwaited, AttemptIsFresh, CommittedIsAuthorized, RefusalIsRecorded,
     Committed
<1>5. OutcomeIsKnown' /\ ClosedOnlyWhenExecuted'
  BY <1>1 DEF OutcomeIsKnown, ClosedOnlyWhenExecuted, C!ApprovalIsNotExecution
<1> QED
  BY <1>1, <1>3, <1>4, <1>5

\* A decision or selection resets the execution status, and commits the run
\* exactly when its disposition is executable.
LEMMA ChoiceStep ==
    ASSUME IInv, Decide \/ SelectDisposition PROVE IInv' /\ UNCHANGED effects
<1> USE DEF IInv
<1>1. /\ pc \in {"decide", "select"}
      /\ UNCHANGED <<operations, effects, authority, phase, exhausted>>
  BY DEF Decide, SelectDisposition, notCase, budgetVars, unmoved
<1>2. CASE UNCHANGED <<disposition, executionStatus, caseStatus>> /\ pc' = "idle"
  <2>1. Preliminary
    BY <1>1, <1>2 DEF Preliminary, Committed, Executing, InCall, CallsAreAwaited
  <2> QED
    BY <2>1, PreliminaryStep
<1>3. CASE \E d \in C!Disposition : C!ApplyDispositionPath(d) /\ AfterDisposition
  <2>1. PICK d \in C!Disposition : C!ApplyDispositionPath(d) /\ AfterDisposition
    BY <1>3
  <2>2. /\ executionStatus' \notin {"succeeded", "failed"}
        /\ disposition' = d
        /\ caseStatus' = "executing" => d \in C!ExecutableDispositions
        /\ caseStatus' = "closed" => d \notin C!RefundOrReplacement
    BY <2>1 DEF C!ApplyDispositionPath, C!NextExecution, C!NextStatus, C!ExecutableDispositions
  <2>3. /\ pc' \in {"idle", "authorize", "obtain"}
        /\ pc' # "idle" => caseStatus' = "executing"
        /\ disposition' = "approve_refund" => pc' # "obtain"
    BY <2>1 DEF AfterDisposition, Return, GoTo
  <2>4. StoreTyped' /\ EffectsAreKnown'
    BY <1>1 DEF StoreTyped, EffectsAreKnown
  <2>5. CallsAreAwaited' /\ AttemptIsFresh' /\ RefusalIsRecorded'
    BY <1>1, <2>3 DEF CallsAreAwaited, AttemptIsFresh, RefusalIsRecorded, Executing, InCall
  <2>6. CommittedIsAuthorized'
    BY <2>2, <2>3 DEF CommittedIsAuthorized, Committed, Executing, InCall
  <2>7. OutcomeIsKnown' /\ ClosedOnlyWhenExecuted'
    BY <2>2 DEF OutcomeIsKnown, ClosedOnlyWhenExecuted, C!ApprovalIsNotExecution
  <2> QED
    BY <1>1, <2>4, <2>5, <2>6, <2>7
<1>4. \/ UNCHANGED <<disposition, executionStatus, caseStatus>> /\ pc' = "idle"
      \/ \E d \in C!Disposition : C!ApplyDispositionPath(d) /\ AfterDisposition
  <2>1. CASE Decide
    BY <2>1 DEF Decide, C!RecordHumanReviewDecision, C!ReviewDecision, C!Reject, C!vars,
       C!statusVars, Raise
  <2>2. CASE SelectDisposition
    BY <2>2 DEF SelectDisposition, C!SelectDisposition
  <2> QED
    BY <2>1, <2>2
<1> QED
  BY <1>2, <1>3, <1>4

\* The authority check lets the run on, sends the case back to review, or raises.
LEMMA AuthorityStep ==
    ASSUME IInv, GrantAuthority \/ BlockForAuthority \/ AuthorityRaises
    PROVE  IInv' /\ UNCHANGED effects
<1> USE DEF IInv
<1>1. /\ pc = "authorize" /\ pc' \in {"obtain", "idle"}
      /\ pc' = "obtain" => authority' = "granted"
      /\ UNCHANGED <<operations, effects, phase, disposition, executionStatus>>
      /\ caseStatus' # "closed" \/ caseStatus' = caseStatus
  BY DEF GrantAuthority, BlockForAuthority, AuthorityRaises, GoTo, Return, Raise, caseVars,
     notCase, unmoved, budgetVars, C!BlockRefundExecutionForAuthority
<1>2. executionStatus \notin {"succeeded", "failed"}
  BY <1>1 DEF OutcomeIsKnown
<1>3. StoreTyped' /\ EffectsAreKnown'
  BY <1>1 DEF StoreTyped, EffectsAreKnown
<1>4. CallsAreAwaited' /\ AttemptIsFresh' /\ RefusalIsRecorded'
  BY <1>1 DEF CallsAreAwaited, AttemptIsFresh, RefusalIsRecorded, Executing, InCall
<1>5. CommittedIsAuthorized'
  BY <1>1 DEF CommittedIsAuthorized, Committed, Executing, InCall
<1>6. OutcomeIsKnown' /\ ClosedOnlyWhenExecuted'
  BY <1>1, <1>2 DEF OutcomeIsKnown, ClosedOnlyWhenExecuted, C!ApprovalIsNotExecution
<1> QED
  BY <1>1, <1>3, <1>4, <1>5, <1>6

\* A committed run acts on a key of the registry.
LEMMA CommittedHasAKey ==
    ASSUME IInv, Committed PROVE Key \in Op!Keys
BY DEF IInv, CommittedIsAuthorized, Key, Op!IdempotencyKey, Op!Keys

\* A step of a committed run that leaves the stores and the case as they are.
LEMMA QuietStep ==
    ASSUME IInv, Committed, pc # "authorize",
           UNCHANGED <<operations, effects, authority, disposition, executionStatus, caseStatus>>,
           executionStatus \notin {"succeeded", "failed"},
           AttemptIsFresh', CallsAreAwaited', RefusalIsRecorded'
    PROVE  IInv'
<1> USE DEF IInv
<1>1. StoreTyped' /\ EffectsAreKnown'
  BY DEF StoreTyped, EffectsAreKnown
<1>2. CommittedIsAuthorized'
  BY DEF CommittedIsAuthorized
<1>3. OutcomeIsKnown' /\ ClosedOnlyWhenExecuted'
  BY DEF OutcomeIsKnown, ClosedOnlyWhenExecuted, C!ApprovalIsNotExecution
<1> QED
  BY <1>1, <1>2, <1>3

\* The operation is created, or found as an earlier run left it.
LEMMA ObtainStep ==
    ASSUME IInv, ObtainOperation PROVE IInv' /\ UNCHANGED effects
<1> USE DEF IInv
<1>1. Key \in Op!Keys
  BY CommittedHasAKey DEF ObtainOperation, Committed
<1>2. /\ pc = "obtain" /\ pc' = "start_execution"
      /\ UNCHANGED <<effects, authority, phase, disposition, executionStatus, caseStatus, exhausted>>
  BY DEF ObtainOperation, GoTo, unmoved, budgetVars, caseVars
<1>3. executionStatus \notin {"succeeded", "failed"}
  BY <1>2 DEF OutcomeIsKnown
<1>4. \/ operations' = operations
      \/ /\ operations[Key].status = "absent"
         /\ operations' = [operations EXCEPT ![Key] = [status |-> "not_started", attempts |-> 0]]
  BY DEF ObtainOperation, Op!GetOrCreate, Op!IsCreated
<1>5. StoreTyped' /\ EffectsAreKnown'
  BY <1>1, <1>2, <1>4 DEF StoreTyped, EffectsAreKnown, Op!OperationStatus
<1>6. CallsAreAwaited' /\ AttemptIsFresh' /\ RefusalIsRecorded'
  BY <1>2 DEF CallsAreAwaited, AttemptIsFresh, RefusalIsRecorded, Executing, InCall
<1>7. CommittedIsAuthorized'
  BY <1>2 DEF CommittedIsAuthorized, Committed
<1>8. OutcomeIsKnown' /\ ClosedOnlyWhenExecuted'
  BY <1>2, <1>3 DEF OutcomeIsKnown, ClosedOnlyWhenExecuted, C!ApprovalIsNotExecution
<1> QED
  BY <1>2, <1>5, <1>6, <1>7, <1>8

\* The case is told that its execution is under way, before anything is.
LEMMA StartStep ==
    ASSUME IInv, StartExecution PROVE IInv' /\ UNCHANGED effects
<1> USE DEF IInv
<1>1. /\ pc = "start_execution" /\ executionStatus' = "in_progress"
      /\ \/ operations[Key].status = "succeeded" /\ pc' = "record_execution"
         \/ pc' = "tool" /\ stage' = "execution"
      /\ caseStatus = "executing"
      /\ UNCHANGED <<operations, effects, authority, phase, disposition, caseStatus, exhausted>>
  BY DEF StartExecution, C!RecordExecutionStatus, C!CanRecordExecution, GoTo, Call, notCase,
     budgetVars, unmoved
<1>2. phase = "idle"
  BY <1>1 DEF CallsAreAwaited
<1>3. StoreTyped' /\ EffectsAreKnown'
  BY <1>1 DEF StoreTyped, EffectsAreKnown
<1>4. CallsAreAwaited' /\ AttemptIsFresh'
  BY <1>1, <1>2 DEF CallsAreAwaited, AttemptIsFresh
<1>5. RefusalIsRecorded'
  BY <1>1 DEF RefusalIsRecorded, Key
<1>6. CommittedIsAuthorized'
  BY <1>1 DEF CommittedIsAuthorized, Committed
<1>7. OutcomeIsKnown' /\ ClosedOnlyWhenExecuted'
  BY <1>1 DEF OutcomeIsKnown, ClosedOnlyWhenExecuted, C!ApprovalIsNotExecution
<1> QED
  BY <1>1, <1>3, <1>4, <1>5, <1>6, <1>7

\* A call is entered, or the budget or an exception ends it, without the
\* adapter being heard of.
LEMMA CallStep ==
    ASSUME IInv, BeginCall \/ Unwind \/ ExecutionRefused PROVE IInv' /\ UNCHANGED effects
<1> USE DEF IInv
<1>1. CASE BeginCall /\ stage # "execution"
  <2>1. Preliminary
    BY <1>1 DEF BeginCall, Preliminary, Committed, Executing, InCall, caseVars, runVars
  <2> QED
    BY <2>1, PreliminaryStep
<1>2. CASE \/ BeginCall /\ stage = "execution"
           \/ Unwind \/ ExecutionRefused
  <2>1. /\ Committed /\ pc # "authorize"
        /\ UNCHANGED <<operations, effects, authority, disposition, executionStatus, caseStatus>>
    BY <1>2 DEF BeginCall, Unwind, ExecutionRefused, Executing, InCall, Committed, caseVars,
       runVars, unmoved
  <2>2. executionStatus \notin {"succeeded", "failed"}
    BY <1>2 DEF OutcomeIsKnown, BeginCall, Unwind, ExecutionRefused, Executing, InCall
  <2>3. AttemptIsFresh' /\ CallsAreAwaited' /\ RefusalIsRecorded'
    <3> USE DEF AttemptIsFresh, CallsAreAwaited, RefusalIsRecorded, Executing, InCall
    <3>1. CASE BeginCall
      BY <3>1 DEF BeginCall, T!BeginCall, runVars
    <3>2. CASE Unwind
      BY <3>2 DEF Unwind, T!Propagate, T!End, Raise
    <3>3. CASE ExecutionRefused
      BY <3>3 DEF ExecutionRefused, T!AttemptRefused, T!End, GoTo
    <3> QED
      BY <1>2, <3>1, <3>2, <3>3
  <2> QED
    BY <2>1, <2>2, <2>3, QuietStep
<1> QED
  BY <1>1, <1>2

\* An attempt begins with the operation not done and not under way, or does not
\* begin and the run unwinds.
LEMMA AttemptStep ==
    ASSUME IInv, ExecutionAttempt PROVE IInv' /\ UNCHANGED effects
<1> USE DEF IInv
<1>1. /\ Committed /\ pc = "tool" /\ stage = "execution" /\ phase' = "calling"
      /\ UNCHANGED <<effects, stage, authority, disposition, executionStatus, caseStatus>>
  BY DEF ExecutionAttempt, T!StartAttempt, Executing, InCall, Committed, caseVars, unmoved
<1>2. Key \in Op!Keys /\ Key' = Key
  BY <1>1, CommittedHasAKey DEF Key
<1>3. executionStatus \notin {"succeeded", "failed"}
  BY <1>1 DEF OutcomeIsKnown
<1>4. CASE Op!StartAttempt(Key) /\ UNCHANGED pc
  <2>1. /\ operations[Key].status \in {"not_started", "failed"}
        /\ operations' = [operations EXCEPT ![Key].status = "in_progress",
                                            ![Key].attempts = @ + 1]
    BY <1>4 DEF Op!StartAttempt, Op!CanStartAttempt
  <2>2. operations'[Key].status = "in_progress" /\ effects'[Key] = 0
    BY <1>1, <1>2, <2>1 DEF StoreTyped, EffectsAreKnown
  <2>3. StoreTyped'
    BY <1>1, <1>2, <2>1 DEF StoreTyped, Op!OperationStatus
  <2>4. EffectsAreKnown'
    BY <1>1, <1>2, <2>1, <2>2 DEF StoreTyped, EffectsAreKnown
  <2>5. AttemptIsFresh' /\ CallsAreAwaited' /\ RefusalIsRecorded'
    BY <1>1, <1>2, <1>4, <2>2 DEF AttemptIsFresh, CallsAreAwaited, RefusalIsRecorded
  <2>6. CommittedIsAuthorized'
    BY <1>1, <1>4 DEF CommittedIsAuthorized
  <2>7. OutcomeIsKnown' /\ ClosedOnlyWhenExecuted'
    BY <1>1, <1>3 DEF OutcomeIsKnown, ClosedOnlyWhenExecuted, C!ApprovalIsNotExecution
  <2> QED
    BY <1>1, <2>3, <2>4, <2>5, <2>6, <2>7
<1>5. CASE UNCHANGED operations /\ pc' = "unwind"
  <2>1. AttemptIsFresh' /\ CallsAreAwaited' /\ RefusalIsRecorded'
    BY <1>1, <1>5 DEF AttemptIsFresh, CallsAreAwaited, RefusalIsRecorded, Executing, InCall
  <2> QED
    BY <1>1, <1>3, <1>5, <2>1, QuietStep
<1> QED
  BY <1>4, <1>5 DEF ExecutionAttempt

\* Where an attempt is under way: its operation is in progress, nothing has
\* happened yet, and a refund has its authority.
LEMMA UnderWay ==
    ASSUME IInv, Executing, phase = "calling"
    PROVE  /\ Key \in Op!Keys
           /\ operations[Key].status = "in_progress" /\ effects[Key] = 0
           /\ disposition = "approve_refund" => authority = "granted"
           /\ executionStatus \notin {"succeeded", "failed"}
<1> USE DEF IInv, Executing, InCall
<1>1. Committed /\ pc # "authorize"
  BY DEF Committed
<1> QED
  BY <1>1, CommittedHasAKey DEF AttemptIsFresh, CommittedIsAuthorized, OutcomeIsKnown

\* The adapter returns, errs or is lost: the registry hears of the outcome in
\* the same step, or the operation stays in progress.
LEMMA OutcomeStep ==
    ASSUME IInv, ExecutionReturns \/ ExecutionErrs \/ ExecutionRaises
    PROVE  /\ IInv'
           /\ \A k \in Op!Keys : effects'[k] # effects[k] => k = Key
           /\ (effects' # effects /\ disposition = "approve_refund") => authority = "granted"
<1> USE DEF IInv
<1>1. /\ Executing /\ phase = "calling" /\ Committed /\ pc # "authorize"
      /\ phase' \in {"idle", "starting"}
      /\ pc' \in {"tool", "record_execution", "idle"}
      /\ phase' = "starting" => pc' = "tool"
      /\ UNCHANGED <<stage, authority, disposition, executionStatus, caseStatus>>
  BY DEF ExecutionReturns, ExecutionErrs, ExecutionRaises, T!Return, T!Retry, T!FailForGood,
     T!ExhaustRetries, T!RetryRefused, T!Propagate, T!End, GoTo, Raise, caseVars, unmoved,
     Executing, InCall, Committed
<1>2. /\ Key \in Op!Keys /\ Key' = Key
      /\ operations[Key].status = "in_progress" /\ effects[Key] = 0
      /\ disposition = "approve_refund" => authority = "granted"
      /\ executionStatus \notin {"succeeded", "failed"}
  BY <1>1, UnderWay DEF Key
<1>3. \/ /\ operations' = [operations EXCEPT ![Key].status = "succeeded"]
         /\ effects' = [effects EXCEPT ![Key] = @ + 1]
      \/ /\ operations' = [operations EXCEPT ![Key].status = "failed"]
         /\ effects' = effects
      \/ /\ operations' = operations /\ pc' = "idle"
         /\ \/ effects' = effects
            \/ effects' = [effects EXCEPT ![Key] = @ + 1]
  BY DEF ExecutionReturns, ExecutionErrs, ExecutionRaises, Op!RecordSuccess, Op!RecordFailure,
     Op!Finish, Raise
<1>4. StoreTyped'
  BY <1>2, <1>3 DEF StoreTyped, Op!OperationStatus
<1>5. EffectsAreKnown'
  BY <1>2, <1>3 DEF StoreTyped, EffectsAreKnown
<1>6. CallsAreAwaited' /\ AttemptIsFresh'
  BY <1>1 DEF CallsAreAwaited, AttemptIsFresh
<1>7. RefusalIsRecorded'
  BY <1>2, <1>3 DEF RefusalIsRecorded, StoreTyped
<1>8. CommittedIsAuthorized'
  BY <1>1 DEF CommittedIsAuthorized
<1>9. OutcomeIsKnown' /\ ClosedOnlyWhenExecuted'
  BY <1>1, <1>2 DEF OutcomeIsKnown, ClosedOnlyWhenExecuted, C!ApprovalIsNotExecution
<1>10. \A k \in Op!Keys : effects'[k] # effects[k] => k = Key
  BY <1>3 DEF StoreTyped
<1> QED
  BY <1>2, <1>4, <1>5, <1>6, <1>7, <1>8, <1>9, <1>10

\* The case is told what the registry says.
LEMMA RecordStep ==
    ASSUME IInv, RecordExecution PROVE IInv' /\ UNCHANGED effects
<1> USE DEF IInv
<1>1. /\ pc = "record_execution" /\ caseStatus = "executing"
      /\ UNCHANGED <<operations, effects, authority, phase, exhausted, disposition, caseStatus>>
      /\ \/ operations[Key].status = "succeeded" /\ executionStatus' = "succeeded"
            /\ pc' = "complete"
         \/ operations[Key].status # "succeeded" /\ executionStatus' = "failed"
            /\ pc' = "route_failure"
  BY DEF RecordExecution, C!RecordExecutionStatus, C!CanRecordExecution, GoTo, notCase,
     budgetVars, unmoved
<1>2. Committed /\ Key \in Op!Keys /\ Key' = Key
  BY <1>1, CommittedHasAKey DEF Committed, Key
<1>3. StoreTyped' /\ EffectsAreKnown'
  BY <1>1 DEF StoreTyped, EffectsAreKnown
<1>4. CallsAreAwaited' /\ AttemptIsFresh' /\ RefusalIsRecorded'
  BY <1>1 DEF CallsAreAwaited, AttemptIsFresh, RefusalIsRecorded, Executing, InCall
<1>5. CommittedIsAuthorized'
  BY <1>1, <1>2 DEF CommittedIsAuthorized
<1>6. effects[Key] = 1 /\ operations[Key].status # "succeeded"
        => operations[Key].status = "in_progress" /\ exhausted # "none"
  BY <1>1, <1>2 DEF EffectsAreKnown, RefusalIsRecorded
<1>7. disposition \in C!ExecutableDispositions
  BY <1>2 DEF CommittedIsAuthorized
<1>8. OutcomeIsKnown'
  BY <1>1, <1>2, <1>6, <1>7 DEF OutcomeIsKnown
<1>9. ClosedOnlyWhenExecuted'
  BY <1>1 DEF ClosedOnlyWhenExecuted, C!ApprovalIsNotExecution
<1> QED
  BY <1>1, <1>3, <1>4, <1>5, <1>8, <1>9

\* The run ends: a success closes the case or files the inquiry, and a failure
\* goes to review.
LEMMA EndStep ==
    ASSUME IInv, CompleteExecution \/ RouteFailure PROVE IInv' /\ UNCHANGED effects
<1> USE DEF IInv
<1>1. /\ pc' = "idle" /\ pc \in {"complete", "route_failure"}
      /\ UNCHANGED <<operations, effects, authority, phase, exhausted, disposition, executionStatus>>
      /\ \/ executionStatus = "succeeded"
            /\ caseStatus' \in {"closed", "awaiting_external_follow_up"}
         \/ executionStatus = "failed" /\ caseStatus' = "human_review"
  BY DEF CompleteExecution, RouteFailure, C!CompleteExecution, C!CanCompleteExecution,
     C!RouteExecutionFailureToReview, C!CanRouteFailure, Return, notCase, budgetVars, unmoved
<1>2. StoreTyped' /\ EffectsAreKnown'
  BY <1>1 DEF StoreTyped, EffectsAreKnown
<1>3. CallsAreAwaited' /\ AttemptIsFresh' /\ RefusalIsRecorded' /\ CommittedIsAuthorized'
  BY <1>1 DEF CallsAreAwaited, AttemptIsFresh, RefusalIsRecorded, CommittedIsAuthorized,
     Committed, Executing, InCall
<1>4. OutcomeIsKnown' /\ ClosedOnlyWhenExecuted'
  BY <1>1 DEF OutcomeIsKnown, ClosedOnlyWhenExecuted, C!ApprovalIsNotExecution, Key
<1> QED
  BY <1>1, <1>2, <1>3, <1>4

--------------------------------------------------------------------------------
(***************************************************************************)
(* The theorems                                                            *)
(***************************************************************************)

\* The invariant is kept, and only a run that has the authority carries a
\* refund out.
LEMMA IInvStep ==
    ASSUME IInv, [Next]_vars
    PROVE  /\ IInv'
           /\ LET k == Op!IdempotencyKey(Case, "approve_refund")
              IN  effects'[k] # effects[k] => authority = "granted"
<1>1. CASE UNCHANGED vars
  <2>1. IInv'
    BY <1>1 DEF vars, caseVars, budgetVars, runVars, IInv, StoreTyped, CallsAreAwaited,
       EffectsAreKnown, AttemptIsFresh, CommittedIsAuthorized, Committed, RefusalIsRecorded,
       OutcomeIsKnown, ClosedOnlyWhenExecuted, C!ApprovalIsNotExecution, Executing, InCall, Key
  <2> QED
    BY <1>1, <2>1 DEF vars
<1>2. CASE ExecutionReturns \/ ExecutionErrs \/ ExecutionRaises
  <2> DEFINE k == Op!IdempotencyKey(Case, "approve_refund")
  <2>1. k \in Op!Keys
    BY DEF Op!IdempotencyKey, Op!Keys, C!ExecutableDispositions, C!RefundOrReplacement
  <2>2. k = Key => disposition = "approve_refund"
    BY DEF Op!IdempotencyKey, Key
  <2> QED
    BY <1>2, <2>1, <2>2, OutcomeStep
<1>3. CASE IInv' /\ UNCHANGED effects
  BY <1>3
<1>4. CASE NewRun \/ NewCorrection
  BY <1>3, <1>4, NewRunStep
<1>5. CASE LookupAttempt \/ LookupRetry \/ LookupReturns \/ LookupStops \/ LookupRaises
  BY <1>3, <1>5, LookupsArePreliminary, PreliminaryStep
<1>6. CASE \/ RecordReport \/ FailIntake \/ RequestCorrection \/ ApplyCorrection
           \/ Link \/ AttachShipment \/ GatherEvidence \/ AttachEvidence
           \/ RecordAddress \/ EnterPolicy \/ EvaluatePolicy \/ OpenReview
  BY <1>3, <1>6, StagesArePreliminary, PreliminaryStep
<1>7. CASE Decide \/ SelectDisposition
  BY <1>3, <1>7, ChoiceStep
<1>8. CASE GrantAuthority \/ BlockForAuthority \/ AuthorityRaises
  BY <1>3, <1>8, AuthorityStep
<1>9. CASE ObtainOperation \/ StartExecution
  BY <1>3, <1>9, ObtainStep, StartStep
<1>10. CASE BeginCall \/ Unwind \/ ExecutionRefused
  BY <1>3, <1>10, CallStep
<1>11. CASE ExecutionAttempt \/ RecordExecution
  BY <1>3, <1>11, AttemptStep, RecordStep
<1>12. CASE CompleteExecution \/ RouteFailure
  BY <1>3, <1>12, EndStep
<1> QED
  BY <1>1, <1>2, <1>4, <1>5, <1>6, <1>7, <1>8, <1>9, <1>10, <1>11, <1>12
     DEF Next, RunStep, NoMoreRuns

LEMMA Invariant == Spec => []IInv
<1>1. IInv /\ [Next]_vars => IInv'
  BY IInvStep
<1> QED
  BY <1>1, InitIInv, PTL DEF Spec

\* The external action of a case and disposition happens at most once over all
\* the runs of the case, however they end (execution.py 111-163, workflow.py
\* 1298-1391).
THEOREM EffectsHappenOnce == Spec => []OneEffectPerOperation
<1>1. IInv => OneEffectPerOperation
  BY DEF IInv, EffectsAreKnown, OneEffectPerOperation
<1> QED
  BY <1>1, Invariant, PTL

\* What the case says of its execution is what the registry knows.
THEOREM CasesAgreeWithTheStore == Spec => []CaseAgreesWithStore
<1>1. IInv => CaseAgreesWithStore
  BY DEF IInv, OutcomeIsKnown, EffectsAreKnown, CaseAgreesWithStore, Key, Op!IdempotencyKey,
     Op!Keys
<1> QED
  BY <1>1, Invariant, PTL

\* The workflow closes a refund or replacement only when it was executed.
THEOREM ClosedCasesWereExecuted == Spec => []ClosedOnlyWhenExecuted
<1>1. IInv => ClosedOnlyWhenExecuted
  BY DEF IInv
<1> QED
  BY <1>1, Invariant, PTL

\* A refund is carried out only in a run that found it within the limit.
THEOREM RefundsAreAuthorized == Spec => RefundNeedsAuthority
<1> DEFINE A == LET k == Op!IdempotencyKey(Case, "approve_refund")
                IN  effects'[k] # effects[k] => authority = "granted"
<1>1. IInv /\ [Next]_vars => [A]_vars
  BY IInvStep
<1>2. [][A]_vars => RefundNeedsAuthority
  BY DEF RefundNeedsAuthority
<1> HIDE DEF A
<1> QED
  BY <1>1, <1>2, Invariant, PTL DEF Spec

--------------------------------------------------------------------------------
(***************************************************************************)
(* Where a run stands, what its case says there, and what it hands back    *)
(***************************************************************************)

\* A case without an order has nothing but its report, and the run is still at
\* its lookups.
Unlinked ==
    orderRef = NoOrder =>
        /\ pc \in {"idle", "report", "tool", "fail_intake", "link", "request_correction",
                   "apply_correction"}
        /\ pc = "tool" => stage \in {"customer_lookup", "order_lookup"}
        /\ shipments = {} /\ evidence = {} /\ evaluations = <<>>
        /\ disposition = "none_selected" /\ executionStatus = "not_applicable"

\* A case that waits for a corrected identifier was handed back for one.
AwaitingIsUnlinked ==
    awaitingCorrection =>
        correctable /\ orderRef = NoOrder /\ caseStatus = "awaiting_customer_action"

\* The statuses only a run can leave are held only while it is there to leave
\* them, or when it raised; a case that waits for the carrier has a follow-up.
StatusIsPlaced ==
    /\ caseStatus \in C!CaseStatus
    /\ pc # "idle" => caseStatus \notin {"closed", "awaiting_external_follow_up"}
    /\ caseStatus = "policy_review" => pc = "evaluate"
    /\ caseStatus = "disposition_selection" => pc = "select"
    /\ caseStatus = "executing" => Committed \/ (pc = "idle" /\ result = NoResult)
    /\ caseStatus = "awaiting_external_follow_up" => followUpStatus = "pending"
    /\ (pc # "idle" /\ ~Committed) => executionStatus = "not_applicable"

\* A run goes on only after calls that returned, and completes its case only
\* after a success, which at most the budget took from it.
OutcomeIsPlaced ==
    /\ pc \in {"report", "tool"} => outcome \in {"none", "result"}
    /\ pc \notin {"idle", "report", "tool", "unwind", "record_execution", "complete",
                  "route_failure"} => outcome = "result"
    /\ Executing => outcome = "result" /\ operations[Key].status # "succeeded"
    /\ (pc = "record_execution" /\ operations[Key].status = "succeeded")
          => outcome \in {"result", "budget_exceeded"}
    /\ pc = "complete" => outcome \in {"result", "budget_exceeded"}

Stages ==
    /\ Unlinked /\ AwaitingIsUnlinked /\ StatusIsPlaced /\ OutcomeIsPlaced
    /\ ResultAgreesWithCase

--------------------------------------------------------------------------------

\* The status of a case follows the disposition it is given.
LEMMA PathOfADisposition ==
    ASSUME NEW d \in C!Disposition, C!ApplyDispositionPath(d), AfterDisposition
    PROVE  /\ caseStatus' \in {"awaiting_customer_action", "executing", "closed"}
           /\ caseStatus' = "executing" => pc' \in {"authorize", "obtain"}
           /\ caseStatus' # "executing" =>
                 pc' = "idle" /\ executionStatus' = "not_applicable" /\ result' = Completed
BY DEF C!ApplyDispositionPath, C!NextExecution, C!NextStatus, C!CustomerActionDispositions,
   C!ExecutableDispositions, C!RefundOrReplacement, AfterDisposition, Return, GoTo

LEMMA InitStages == Init => Stages
BY DEF Init, Stages, Unlinked, AwaitingIsUnlinked, StatusIsPlaced, OutcomeIsPlaced,
   ResultAgreesWithCase, C!Init, T!Init, C!CaseStatus, Executing, InCall, Committed, NoResult

\* A new run starts a new case; a correction takes up one that waits for it.
LEMMA NewRunStages ==
    ASSUME Stages, NewRun \/ NewCorrection PROVE Stages'
<1> USE DEF Stages, Unlinked, AwaitingIsUnlinked, StatusIsPlaced, OutcomeIsPlaced,
            ResultAgreesWithCase, Committed, Executing, InCall, T!NewRun
<1>1. CASE NewRun
  BY <1>1 DEF NewRun, C!CaseStatus
<1>2. CASE NewCorrection
  BY <1>2 DEF NewCorrection, Correctable, Call, caseVars
<1> QED
  BY <1>1, <1>2

\* What can be corrected stays correctable while its case is handed back.
LEMMA ReturnKeepsCorrectable ==
    ASSUME NEW r, Return(r) PROVE pc' = "idle" /\ result' = r /\ (correctable => correctable')
BY Zenon DEF Return

\* A lookup that does not return a result hands the case back as it was.
LEMMA LookupStages ==
    ASSUME Stages,
           \/ BeginCall /\ stage # "execution"
           \/ LookupAttempt \/ LookupRetry \/ LookupReturns \/ LookupStops \/ LookupRaises
    PROVE  Stages'
<1> USE DEF Stages, Looking, InCall, Committed, Executing, caseVars, runVars, unmoved
<1>1. pc = "tool" /\ stage # "execution" /\ UNCHANGED caseVars
  BY DEF BeginCall, LookupAttempt, LookupRetry, LookupReturns, LookupStops, LookupRaises
<1>2. \/ UNCHANGED <<pc, stage, result, correctable, outcome>>
      \/ /\ pc' = "idle" /\ (correctable => correctable')
         /\ result' = NoResult \/ ~result'.completed
      \/ AfterResult /\ outcome' = "result"
  <2>1. CASE BeginCall \/ LookupAttempt \/ LookupRetry
    BY <2>1 DEF BeginCall, LookupAttempt, LookupRetry, T!BeginCall, T!StartAttempt, T!Retry
  <2>2. CASE LookupReturns
    BY <2>2, ReturnKeepsCorrectable DEF LookupReturns, StoppedAt
  <2>3. CASE LookupStops \/ LookupRaises
    BY <2>3, ReturnKeepsCorrectable DEF LookupStops, LookupRaises, Raise, StoppedAt
  <2> QED
    BY <2>1, <2>2, <2>3
<1>3. CASE UNCHANGED <<pc, stage, result, correctable, outcome>>
  BY <1>1, <1>3 DEF Unlinked, AwaitingIsUnlinked, StatusIsPlaced, OutcomeIsPlaced,
     ResultAgreesWithCase
<1>4. CASE /\ pc' = "idle" /\ (correctable => correctable')
           /\ result' = NoResult \/ ~result'.completed
  BY <1>1, <1>4 DEF Unlinked, AwaitingIsUnlinked, StatusIsPlaced, OutcomeIsPlaced,
     ResultAgreesWithCase
<1>5. CASE AfterResult /\ outcome' = "result"
  <2>1. /\ pc' \in {"tool", "fail_intake", "link", "request_correction",
                    "apply_correction", "attach_shipment", "attach_evidence",
                    "record_address", "open_review"}
        /\ pc' = "tool" => stage' # "execution"
        /\ UNCHANGED correctable
        /\ stage \in {"customer_lookup", "order_lookup"} =>
              /\ pc' \in {"tool", "fail_intake", "link", "request_correction", "apply_correction"}
              /\ pc' = "tool" => stage' = "order_lookup"
    BY <1>5 DEF AfterResult, Call, GoTo
  <2> QED
    BY <1>1, <1>5, <2>1 DEF Unlinked, AwaitingIsUnlinked, StatusIsPlaced, OutcomeIsPlaced,
       ResultAgreesWithCase
<1> QED
  BY <1>2, <1>3, <1>4, <1>5

\* The stages before a disposition: linkage, evidence and policy.
LEMMA EarlyStages ==
    ASSUME IInv, Stages,
           \/ RecordReport \/ FailIntake \/ RequestCorrection \/ ApplyCorrection
           \/ Link \/ AttachShipment \/ GatherEvidence \/ AttachEvidence
           \/ RecordAddress \/ EnterPolicy \/ EvaluatePolicy \/ OpenReview
    PROVE  Stages'
<1> USE DEF Stages, Unlinked, AwaitingIsUnlinked, StatusIsPlaced, OutcomeIsPlaced,
            ResultAgreesWithCase, Committed, Executing, InCall, notCase, unmoved, budgetVars,
            Call, GoTo, Raise, C!Reject, C!vars, C!statusVars, C!linkVars, C!evidenceVars,
            C!reviewVars, StoppedAt, Completed, C!CaseStatus
<1>1. CASE RecordReport
  BY <1>1 DEF RecordReport, C!RecordCustomerReport
<1>2. CASE FailIntake
  BY <1>2, ReturnKeepsCorrectable DEF FailIntake, C!FailIntake, C!CanFailIntake
<1>3. CASE RequestCorrection
  BY <1>3, ReturnKeepsCorrectable DEF RequestCorrection, C!RequestOrderIdentifierCorrection,
     C!CanRequestCorrection, Return, StoppedAtOrderLookup
<1>4. CASE ApplyCorrection
  BY <1>4, ReturnKeepsCorrectable, NoOrderAssumption
     DEF ApplyCorrection, C!ApplyOrderIdentifierCorrection, C!CanApplyCorrection
<1>5. CASE Link
  BY <1>5, NoOrderAssumption DEF Link, C!Link, C!CanLink, C!OrderRef, C!LookupOutcome
<1>6. CASE AttachShipment
  BY <1>6 DEF AttachShipment, C!AttachShipment
<1>7. CASE GatherEvidence
  BY <1>7 DEF GatherEvidence, C!TransitionTo
<1>8. CASE AttachEvidence
  BY <1>8 DEF AttachEvidence, C!AttachCarrierEvidence
<1>9. CASE RecordAddress
  BY <1>9 DEF RecordAddress, C!RecordAddressMatchResult
<1>10. CASE EnterPolicy
  BY <1>10 DEF EnterPolicy, C!TransitionTo
<1>11. CASE EvaluatePolicy
  BY <1>11, ReturnKeepsCorrectable DEF EvaluatePolicy, C!RecordPolicyEvaluation
<1>12. CASE OpenReview
  BY <1>12 DEF OpenReview, C!OpenHumanReview
<1> QED
  BY <1>1, <1>2, <1>3, <1>4, <1>5, <1>6, <1>7, <1>8, <1>9, <1>10, <1>11, <1>12

\* A disposition ends the run or commits it.
LEMMA ChoiceStages ==
    ASSUME IInv, Stages, Decide \/ SelectDisposition PROVE Stages'
<1> USE DEF Stages, Committed, Executing, InCall
<1>1. /\ pc \in {"decide", "select"} /\ orderRef # NoOrder /\ ~awaitingCorrection
      /\ outcome = "result" /\ executionStatus = "not_applicable"
      /\ UNCHANGED <<orderRef, awaitingCorrection, outcome>>
  BY DEF Decide, SelectDisposition, Unlinked, AwaitingIsUnlinked, OutcomeIsPlaced,
     StatusIsPlaced, notCase, budgetVars, C!RecordHumanReviewDecision, C!SelectDisposition,
     C!linkVars, C!Reject, C!vars
<1>2. CASE \E d \in C!Disposition : C!ApplyDispositionPath(d) /\ AfterDisposition
  <2>1. /\ caseStatus' \in {"awaiting_customer_action", "executing", "closed"}
        /\ caseStatus' = "executing" => pc' \in {"authorize", "obtain"}
        /\ caseStatus' # "executing" =>
              pc' = "idle" /\ executionStatus' = "not_applicable" /\ result' = Completed
    BY <1>2, PathOfADisposition
  <2> QED
    BY <1>1, <2>1 DEF Unlinked, AwaitingIsUnlinked, StatusIsPlaced, OutcomeIsPlaced,
       ResultAgreesWithCase, C!CaseStatus, Completed
<1>3. CASE C!Reject /\ Raise /\ UNCHANGED notCase /\ pc = "decide"
  BY <1>1, <1>3 DEF Unlinked, AwaitingIsUnlinked, StatusIsPlaced, OutcomeIsPlaced,
     ResultAgreesWithCase, C!Reject, C!vars, C!statusVars, Raise
<1>4. \/ C!Reject /\ Raise /\ UNCHANGED notCase /\ pc = "decide"
      \/ \E d \in C!Disposition : C!ApplyDispositionPath(d) /\ AfterDisposition
  <2>1. CASE Decide
    BY <2>1 DEF Decide, C!RecordHumanReviewDecision, C!ReviewDecision
  <2>2. CASE SelectDisposition
    BY <2>2 DEF SelectDisposition, C!SelectDisposition
  <2> QED
    BY <2>1, <2>2
<1> QED
  BY <1>2, <1>3, <1>4

\* A committed run has an order, and its case waits for nobody.
LEMMA CommittedStages ==
    ASSUME IInv, Stages, Committed,
           \/ GrantAuthority \/ BlockForAuthority \/ AuthorityRaises
           \/ ObtainOperation \/ StartExecution \/ BeginCall \/ ExecutionAttempt \/ Unwind
           \/ ExecutionRefused \/ ExecutionReturns \/ ExecutionErrs \/ ExecutionRaises
           \/ RecordExecution \/ CompleteExecution \/ RouteFailure
    PROVE  Stages'
<1> USE DEF Stages, Executing, InCall, notCase, unmoved, budgetVars, caseVars, runVars,
            Call, GoTo, Raise
<1>1. orderRef # NoOrder /\ ~awaitingCorrection /\ UNCHANGED <<orderRef, awaitingCorrection>>
  BY DEF Unlinked, AwaitingIsUnlinked, Committed, GrantAuthority, BlockForAuthority,
     AuthorityRaises, ObtainOperation, StartExecution, BeginCall, ExecutionAttempt, Unwind,
     ExecutionRefused, ExecutionReturns, ExecutionErrs, ExecutionRaises, RecordExecution,
     CompleteExecution, RouteFailure, C!BlockRefundExecutionForAuthority,
     C!RecordExecutionStatus, C!CompleteExecution, C!RouteExecutionFailureToReview, C!linkVars
<1>2. Unlinked' /\ AwaitingIsUnlinked'
  BY <1>1 DEF Unlinked, AwaitingIsUnlinked
<1> USE DEF StatusIsPlaced, OutcomeIsPlaced, ResultAgreesWithCase, Committed, C!CaseStatus,
            StoppedAt
<1>3. CASE GrantAuthority \/ AuthorityRaises
  BY <1>1, <1>2, <1>3 DEF GrantAuthority, AuthorityRaises
<1>4. CASE BlockForAuthority
  BY <1>1, <1>2, <1>4, ReturnKeepsCorrectable
     DEF BlockForAuthority, C!BlockRefundExecutionForAuthority
<1>5. CASE ObtainOperation
  BY <1>1, <1>2, <1>5 DEF ObtainOperation
<1>6. CASE StartExecution
  BY <1>1, <1>2, <1>6 DEF StartExecution, C!RecordExecutionStatus, Key
<1>7. CASE BeginCall
  BY <1>1, <1>2, <1>7 DEF BeginCall, T!BeginCall, Key
<1>8. CASE ExecutionAttempt
  <2>1. Key \in Op!Keys /\ Key' = Key /\ operations'[Key].status # "succeeded"
    BY <1>8, CommittedHasAKey DEF ExecutionAttempt, Op!StartAttempt, Key, IInv, StoreTyped
  <2> QED
    BY <1>1, <1>2, <1>8, <2>1 DEF ExecutionAttempt, T!StartAttempt
<1>9. CASE Unwind
  BY <1>1, <1>2, <1>9 DEF Unwind
<1>10. CASE ExecutionRefused
  BY <1>1, <1>2, <1>10 DEF ExecutionRefused, Key
<1>11. CASE ExecutionReturns
  BY <1>1, <1>2, <1>11 DEF ExecutionReturns, T!Return, T!End
<1>12. CASE ExecutionErrs
  <2>1. Key \in Op!Keys /\ Key' = Key /\ operations'[Key].status = "failed"
    BY <1>12, CommittedHasAKey DEF ExecutionErrs, Op!RecordFailure, Op!Finish, Key, IInv,
       StoreTyped
  <2> QED
    BY <1>1, <1>2, <1>12, <2>1 DEF ExecutionErrs, T!Retry
<1>13. CASE ExecutionRaises
  BY <1>1, <1>2, <1>13 DEF ExecutionRaises
<1>14. CASE RecordExecution
  BY <1>1, <1>2, <1>14 DEF RecordExecution, C!RecordExecutionStatus
<1>15. CASE CompleteExecution
  BY <1>1, <1>2, <1>15, ReturnKeepsCorrectable
     DEF CompleteExecution, C!CompleteExecution, C!CanCompleteExecution, Completed
<1>16. CASE RouteFailure
  BY <1>1, <1>2, <1>16, ReturnKeepsCorrectable
     DEF RouteFailure, C!RouteExecutionFailureToReview
<1> QED
  BY <1>3, <1>4, <1>5, <1>6, <1>7, <1>8, <1>9, <1>10, <1>11, <1>12, <1>13, <1>14, <1>15, <1>16

LEMMA StagesStep ==
    ASSUME IInv, Stages, [Next]_vars PROVE Stages'
<1>1. CASE UNCHANGED vars
  BY <1>1 DEF vars, caseVars, budgetVars, runVars, Stages, Unlinked, AwaitingIsUnlinked,
     StatusIsPlaced, OutcomeIsPlaced, ResultAgreesWithCase, Committed, Executing, InCall, Key
<1>2. CASE NewRun \/ NewCorrection
  BY <1>2, NewRunStages
<1>3. CASE \/ BeginCall /\ stage # "execution"
           \/ LookupAttempt \/ LookupRetry \/ LookupReturns \/ LookupStops \/ LookupRaises
  BY <1>3, LookupStages
<1>4. CASE \/ RecordReport \/ FailIntake \/ RequestCorrection \/ ApplyCorrection
           \/ Link \/ AttachShipment \/ GatherEvidence \/ AttachEvidence
           \/ RecordAddress \/ EnterPolicy \/ EvaluatePolicy \/ OpenReview
  BY <1>4, EarlyStages
<1>5. CASE Decide \/ SelectDisposition
  BY <1>5, ChoiceStages
<1>6. CASE \/ GrantAuthority \/ BlockForAuthority \/ AuthorityRaises
           \/ ObtainOperation \/ StartExecution \/ (BeginCall /\ stage = "execution")
           \/ ExecutionAttempt \/ Unwind \/ ExecutionRefused \/ ExecutionReturns
           \/ ExecutionErrs \/ ExecutionRaises
           \/ RecordExecution \/ CompleteExecution \/ RouteFailure
  <2>1. Committed
    BY <1>6 DEF GrantAuthority, BlockForAuthority, AuthorityRaises, ObtainOperation,
       StartExecution, BeginCall, ExecutionAttempt, Unwind, ExecutionRefused, ExecutionReturns,
       ExecutionErrs, ExecutionRaises, RecordExecution, CompleteExecution, RouteFailure,
       Committed, Executing
  <2> QED
    BY <1>6, <2>1, CommittedStages
<1> QED
  BY <1>1, <1>2, <1>3, <1>4, <1>5, <1>6 DEF Next, RunStep, NoMoreRuns

LEMMA StagesInvariant == Spec => []Stages
<1>1. IInv /\ Stages /\ [Next]_vars => Stages'
  BY StagesStep
<1> QED
  BY <1>1, InitStages, Invariant, PTL DEF Spec

--------------------------------------------------------------------------------

\* An unmatched order keeps evidence, policy and disposition away from the case
\* until a correction has linked it.
THEOREM LinkageComesFirst == Spec => []NothingBeforeLinkage
<1>1. Stages => NothingBeforeLinkage
  BY DEF Stages, Unlinked, AwaitingIsUnlinked, NothingBeforeLinkage,
     C!NoEvidenceBeforeCorrection
<1> QED
  BY <1>1, StagesInvariant, PTL

\* A result says of the case what the case says of itself (WorkflowResult,
\* workflow.py 133-193).
THEOREM ResultsAreTrue == Spec => []ResultAgreesWithCase
<1>1. Stages => ResultAgreesWithCase
  BY DEF Stages
<1> QED
  BY <1>1, StagesInvariant, PTL

\* A case that waits for a corrected identifier can be corrected, however many
\* corrections failed before.
THEOREM CorrectionsRemain == Spec => []CorrectionStaysPossible
<1>1. Stages => CorrectionStaysPossible
  BY DEF Stages, AwaitingIsUnlinked, CorrectionStaysPossible, Correctable
<1> QED
  BY <1>1, StagesInvariant, PTL

--------------------------------------------------------------------------------
(***************************************************************************)
(* Where a run stands                                                      *)
(***************************************************************************)
AtCall(s) == pc = "tool" /\ stage = s

\* The status the case has at each place of a run, before a disposition is chosen.
StatusOfThePlace ==
    /\ (pc \in {"report", "fail_intake", "link", "request_correction"}
          \/ AtCall("customer_lookup")) => caseStatus = "intake" /\ ~correcting
    /\ AtCall("order_lookup")
          => caseStatus = IF correcting THEN "awaiting_customer_action" ELSE "intake"
    /\ pc = "apply_correction" => caseStatus = "awaiting_customer_action" /\ correcting
    /\ (pc \in {"attach_shipment", "gather_evidence"} \/ AtCall("shipment_lookup"))
          => caseStatus = "linked"
    /\ (pc \in {"attach_evidence", "record_address", "enter_policy"}
          \/ AtCall("carrier_evidence_lookup") \/ AtCall("address_comparison"))
          => caseStatus = "evidence_gathering"
    /\ pc = "evaluate" => caseStatus = "policy_review"
    /\ (pc \in {"open_review", "decide"} \/ AtCall("human_review")) => caseStatus = "human_review"
    /\ pc = "select" => caseStatus = "disposition_selection"

\* A run has a place, and a call it makes a stage.
PlaceIsKnown ==
    /\ pc \in {"idle", "tool", "report", "fail_intake", "request_correction",
               "apply_correction", "link", "attach_shipment", "gather_evidence",
               "attach_evidence", "record_address", "enter_policy", "evaluate",
               "open_review", "decide", "select", "authorize", "obtain",
               "start_execution", "unwind", "record_execution", "complete",
               "route_failure"}
    /\ stage \in ToolStage

\* A committed run is executing, and no other run has a disposition.
CommitmentIsKnown ==
    /\ Committed => caseStatus = "executing"
    /\ (pc # "idle" /\ ~Committed) => disposition = "none_selected"
    /\ pc = "complete" => executionStatus = "succeeded"

Located == StatusOfThePlace /\ PlaceIsKnown /\ CommitmentIsKnown

LEMMA InitLocated == Init => Located
BY DEF Init, Located, StatusOfThePlace, PlaceIsKnown, CommitmentIsKnown, AtCall, ToolStage,
   Committed, Executing, InCall

LEMMA NewRunLocated ==
    ASSUME Stages, NewRun \/ NewCorrection PROVE Located'
<1> USE DEF Located, StatusOfThePlace, PlaceIsKnown, CommitmentIsKnown, AtCall, ToolStage,
            Committed, Executing, InCall
<1>1. CASE NewRun
  BY <1>1 DEF NewRun
<1>2. CASE NewCorrection
  BY <1>2 DEF NewCorrection, Correctable, Call, caseVars, Stages, Unlinked
<1> QED
  BY <1>1, <1>2

LEMMA LookupLocated ==
    ASSUME Located,
           \/ BeginCall
           \/ LookupAttempt \/ LookupRetry \/ LookupReturns \/ LookupStops \/ LookupRaises
    PROVE  Located'
<1> USE DEF Located, Looking, InCall, caseVars, runVars, unmoved
<1>1. pc = "tool" /\ UNCHANGED <<caseVars, correcting>>
  BY DEF BeginCall, LookupAttempt, LookupRetry, LookupReturns, LookupStops, LookupRaises
<1>2. \/ UNCHANGED <<pc, stage>>
      \/ pc' = "idle" /\ stage' = stage
      \/ stage # "execution" /\ AfterResult
  <2>1. CASE BeginCall \/ LookupAttempt \/ LookupRetry
    BY <2>1 DEF BeginCall, LookupAttempt, LookupRetry
  <2>2. CASE LookupReturns
    BY <2>2 DEF LookupReturns, Return
  <2>3. CASE LookupStops \/ LookupRaises
    BY <2>3 DEF LookupStops, LookupRaises, Raise, Return
  <2> QED
    BY <2>1, <2>2, <2>3
<1> USE DEF StatusOfThePlace, PlaceIsKnown, CommitmentIsKnown, AtCall, Committed, Executing
<1>3. CASE UNCHANGED <<pc, stage>>
  BY <1>1, <1>3
<1>4. CASE pc' = "idle" /\ stage' = stage
  BY <1>1, <1>4
<1>5. CASE stage # "execution" /\ AfterResult
  BY <1>1, <1>5 DEF AfterResult, Call, GoTo, ToolStage
<1> QED
  BY <1>2, <1>3, <1>4, <1>5

LEMMA EarlyLocated ==
    ASSUME Located,
           \/ RecordReport \/ FailIntake \/ RequestCorrection \/ ApplyCorrection
           \/ Link \/ AttachShipment \/ GatherEvidence \/ AttachEvidence
           \/ RecordAddress \/ EnterPolicy \/ EvaluatePolicy \/ OpenReview
    PROVE  Located'
<1> USE DEF Located, StatusOfThePlace, PlaceIsKnown, CommitmentIsKnown, AtCall, ToolStage,
            Committed, Executing, InCall, notCase, unmoved, Call, GoTo, Raise, Return,
            C!Reject, C!vars, C!statusVars
<1>1. CASE RecordReport
  BY <1>1 DEF RecordReport, C!RecordCustomerReport
<1>2. CASE FailIntake
  BY <1>2 DEF FailIntake, C!FailIntake
<1>3. CASE RequestCorrection
  BY <1>3 DEF RequestCorrection, C!RequestOrderIdentifierCorrection
<1>4. CASE ApplyCorrection
  BY <1>4 DEF ApplyCorrection, C!ApplyOrderIdentifierCorrection
<1>5. CASE Link
  BY <1>5 DEF Link, C!Link
<1>6. CASE AttachShipment
  BY <1>6 DEF AttachShipment, C!AttachShipment
<1>7. CASE GatherEvidence
  BY <1>7 DEF GatherEvidence, C!TransitionTo
<1>8. CASE AttachEvidence
  BY <1>8 DEF AttachEvidence, C!AttachCarrierEvidence
<1>9. CASE RecordAddress
  BY <1>9 DEF RecordAddress, C!RecordAddressMatchResult
<1>10. CASE EnterPolicy
  BY <1>10 DEF EnterPolicy, C!TransitionTo
<1>11. CASE EvaluatePolicy
  BY <1>11 DEF EvaluatePolicy, C!RecordPolicyEvaluation
<1>12. CASE OpenReview
  BY <1>12 DEF OpenReview, C!OpenHumanReview
<1> QED
  BY <1>1, <1>2, <1>3, <1>4, <1>5, <1>6, <1>7, <1>8, <1>9, <1>10, <1>11, <1>12

LEMMA ChoiceLocated ==
    ASSUME Located, Decide \/ SelectDisposition PROVE Located'
<1> USE DEF Located, StatusOfThePlace, PlaceIsKnown, CommitmentIsKnown, AtCall, Committed,
            Executing, InCall
<1>1. CASE pc' = "idle" /\ stage' = stage
  BY <1>1
<1>2. CASE \E d \in C!Disposition : C!ApplyDispositionPath(d) /\ AfterDisposition
  <2>1. /\ caseStatus' = "executing" => pc' \in {"authorize", "obtain"}
        /\ caseStatus' # "executing" => pc' = "idle"
        /\ stage' = stage
    BY <1>2, PathOfADisposition DEF AfterDisposition, Return, GoTo
  <2> QED
    BY <2>1
<1>3. \/ pc' = "idle" /\ stage' = stage
      \/ \E d \in C!Disposition : C!ApplyDispositionPath(d) /\ AfterDisposition
  <2>1. CASE Decide
    BY <2>1 DEF Decide, C!RecordHumanReviewDecision, C!ReviewDecision, Raise
  <2>2. CASE SelectDisposition
    BY <2>2 DEF SelectDisposition, C!SelectDisposition
  <2> QED
    BY <2>1, <2>2
<1> QED
  BY <1>1, <1>2, <1>3

LEMMA CommittedLocated ==
    ASSUME Located,
           \/ GrantAuthority \/ BlockForAuthority \/ AuthorityRaises
           \/ ObtainOperation \/ StartExecution \/ ExecutionAttempt \/ Unwind
           \/ ExecutionRefused \/ ExecutionReturns \/ ExecutionErrs \/ ExecutionRaises
           \/ RecordExecution \/ CompleteExecution \/ RouteFailure
    PROVE  Located'
<1> USE DEF Located, StatusOfThePlace, PlaceIsKnown, CommitmentIsKnown, AtCall, ToolStage,
            Committed, Executing, InCall, notCase, unmoved, caseVars, Call, GoTo, Raise, Return
<1>1. CASE GrantAuthority \/ BlockForAuthority \/ AuthorityRaises
  BY <1>1 DEF GrantAuthority, BlockForAuthority, AuthorityRaises
<1>2. CASE ObtainOperation
  BY <1>2 DEF ObtainOperation
<1>3. CASE StartExecution
  BY <1>3 DEF StartExecution, C!RecordExecutionStatus
<1>4. CASE ExecutionAttempt \/ Unwind
  BY <1>4 DEF ExecutionAttempt, Unwind
<1>5. CASE ExecutionRefused \/ ExecutionReturns \/ ExecutionErrs \/ ExecutionRaises
  BY <1>5 DEF ExecutionRefused, ExecutionReturns, ExecutionErrs, ExecutionRaises
<1>6. CASE RecordExecution
  BY <1>6 DEF RecordExecution, C!RecordExecutionStatus
<1>7. CASE CompleteExecution \/ RouteFailure
  BY <1>7 DEF CompleteExecution, RouteFailure
<1> QED
  BY <1>1, <1>2, <1>3, <1>4, <1>5, <1>6, <1>7

LEMMA LocatedStep ==
    ASSUME Stages, Located, [Next]_vars PROVE Located'
<1>1. CASE UNCHANGED vars
  BY <1>1 DEF vars, caseVars, runVars, Located, StatusOfThePlace, PlaceIsKnown,
     CommitmentIsKnown, AtCall, Committed, Executing, InCall
<1> QED
  BY <1>1, NewRunLocated, LookupLocated, EarlyLocated, ChoiceLocated, CommittedLocated
     DEF Next, RunStep, NoMoreRuns

LEMMA LocatedInvariant == Spec => []Located
<1>1. Stages /\ Located /\ [Next]_vars => Located'
  BY LocatedStep
<1> QED
  BY <1>1, InitLocated, StagesInvariant, PTL DEF Spec

--------------------------------------------------------------------------------
(***************************************************************************)
(* What is proved of the parts holds of the whole                          *)
(***************************************************************************)

\* The theorems about the aggregate and about the retry loop, for the case and
\* the budget of a run.
CP == INSTANCE SupportCase_proofs
TP == INSTANCE ToolCall_proofs

\* They are about the instances the workflow is built from: both instantiate
\* the same definitions with the same variables.
LEMMA SameCaseSteps == [C!Next]_C!vars <=> [CP!Next]_CP!vars
BY DEF C!Next, CP!Next, C!vars, CP!vars, C!statusVars, CP!statusVars, C!linkVars, CP!linkVars,
   C!evidenceVars, CP!evidenceVars, C!reviewVars, CP!reviewVars, C!CaseStatus, CP!CaseStatus,
   C!Disposition, CP!Disposition, C!ExecutionStatus, CP!ExecutionStatus, C!FollowUpStatus,
   CP!FollowUpStatus, C!FollowUpResults, CP!FollowUpResults, C!CustomerActionDispositions,
   CP!CustomerActionDispositions, C!RefundOrReplacement, CP!RefundOrReplacement,
   C!ExecutableDispositions, CP!ExecutableDispositions, C!LookupOutcome, CP!LookupOutcome,
   C!OrderRef, CP!OrderRef, C!Retrieval, CP!Retrieval, C!ShipmentRef, CP!ShipmentRef,
   C!Evidence, CP!Evidence, C!AddressMatch, CP!AddressMatch, C!PolicyRoute, CP!PolicyRoute,
   C!PolicyEvaluation, CP!PolicyEvaluation, C!ReviewRequest, CP!ReviewRequest,
   C!ReviewDecision, CP!ReviewDecision, C!RecordCustomerReport, CP!RecordCustomerReport,
   C!CanRecordCustomerReport, CP!CanRecordCustomerReport, C!Link, CP!Link, C!CanLink,
   CP!CanLink, C!RequestOrderIdentifierCorrection, CP!RequestOrderIdentifierCorrection,
   C!CanRequestCorrection, CP!CanRequestCorrection, C!ApplyOrderIdentifierCorrection,
   CP!ApplyOrderIdentifierCorrection, C!CanApplyCorrection, CP!CanApplyCorrection,
   C!FailIntake, CP!FailIntake, C!CanFailIntake, CP!CanFailIntake, C!AttachShipment,
   CP!AttachShipment, C!CanAttachShipment, CP!CanAttachShipment, C!AttachCarrierEvidence,
   CP!AttachCarrierEvidence, C!CanAttachEvidence, CP!CanAttachEvidence,
   C!RecordAddressMatchResult, CP!RecordAddressMatchResult, C!CanRecordAddressMatch,
   CP!CanRecordAddressMatch, C!TransitionTo, CP!TransitionTo, C!CanTransition,
   CP!CanTransition, C!SimpleTransitions, CP!SimpleTransitions, C!RecordPolicyEvaluation,
   CP!RecordPolicyEvaluation, C!CanRecordEvaluation, CP!CanRecordEvaluation, C!RouteStatus,
   CP!RouteStatus, C!LatestUnresolved, CP!LatestUnresolved, C!OpenHumanReview,
   CP!OpenHumanReview, C!CanOpenReview, CP!CanOpenReview, C!RecordHumanReviewDecision,
   CP!RecordHumanReviewDecision, C!CanDecide, CP!CanDecide, C!CanSelect, CP!CanSelect,
   C!ApplyDispositionPath, CP!ApplyDispositionPath, C!NextStatus, CP!NextStatus,
   C!NextExecution, CP!NextExecution, C!SelectDisposition, CP!SelectDisposition,
   C!CanSelectDisposition, CP!CanSelectDisposition, C!RecordExecutionStatus,
   CP!RecordExecutionStatus, C!CanRecordExecution, CP!CanRecordExecution,
   C!ExecutionProgressions, CP!ExecutionProgressions, C!CompleteExecution,
   CP!CompleteExecution, C!CanCompleteExecution, CP!CanCompleteExecution,
   C!RouteExecutionFailureToReview, CP!RouteExecutionFailureToReview, C!CanRouteFailure,
   CP!CanRouteFailure, C!BlockRefundExecutionForAuthority, CP!BlockRefundExecutionForAuthority,
   C!CanBlockRefund, CP!CanBlockRefund, C!RecordFollowUpResult, CP!RecordFollowUpResult,
   C!CanRecordFollowUp, CP!CanRecordFollowUp, C!Reject, CP!Reject

LEMMA SameCaseStates == (C!Init <=> CP!Init) /\ (C!TypeOK <=> CP!TypeOK) /\ (C!SafetyInv <=> CP!SafetyInv)
BY DEF C!Init, CP!Init, C!TypeOK, CP!TypeOK, C!CaseStatus, CP!CaseStatus, C!Disposition,
   CP!Disposition, C!ExecutionStatus, CP!ExecutionStatus, C!FollowUpStatus, CP!FollowUpStatus,
   C!FollowUpResults, CP!FollowUpResults, C!LookupOutcome, CP!LookupOutcome, C!OrderRef,
   CP!OrderRef, C!Retrieval, CP!Retrieval, C!ShipmentRef, CP!ShipmentRef, C!Evidence,
   CP!Evidence, C!AddressMatch, CP!AddressMatch, C!EvaluationRecord, CP!EvaluationRecord,
   C!ReviewRequest, CP!ReviewRequest, C!SafetyInv, CP!SafetyInv, C!ClosedAtMatchesStatus,
   CP!ClosedAtMatchesStatus, C!ExecutionFollowsDisposition, CP!ExecutionFollowsDisposition,
   C!AttemptHoldsCase, CP!AttemptHoldsCase, C!CompensationIsSettled, CP!CompensationIsSettled,
   C!PendingFollowUpIsFiled, CP!PendingFollowUpIsFiled, C!LinkageIsMatched,
   CP!LinkageIsMatched, C!ExecutableDispositions, CP!ExecutableDispositions,
   C!RefundOrReplacement, CP!RefundOrReplacement

LEMMA SameLoopSteps == [T!Next]_T!vars <=> [TP!Next]_TP!vars
BY DEF T!Next, TP!Next, T!vars, TP!vars, T!trackerVars, TP!trackerVars, T!CallStep, TP!CallStep,
   T!BeginCall, TP!BeginCall, T!NewRun, TP!NewRun, T!StartAttempt, TP!StartAttempt,
   T!AttemptRefused, TP!AttemptRefused, T!Propagate, TP!Propagate, T!Return, TP!Return,
   T!FailForGood, TP!FailForGood, T!ExhaustRetries, TP!ExhaustRetries, T!RetryRefused,
   TP!RetryRefused, T!Retry, TP!Retry, T!FirstExceeded, TP!FirstExceeded, T!RetryRefusal,
   TP!RetryRefusal, T!BackoffMs, TP!BackoffMs, T!End, TP!End, T!Finish, TP!Finish, T!Failures,
   TP!Failures

LEMMA SameLoopStates ==
    /\ (T!Init <=> TP!Init) /\ (T!TypeOK <=> TP!TypeOK)
    /\ (T!WithinBudget <=> TP!WithinBudget)
    /\ (T!StoppedIffExhausted <=> TP!StoppedIffExhausted)
BY DEF T!Init, TP!Init, T!TypeOK, TP!TypeOK, T!Dimension, TP!Dimension, T!Failures, TP!Failures,
   T!WithinBudget, TP!WithinBudget, T!StoppedIffExhausted, TP!StoppedIffExhausted

LEMMA PartsAssumptions ==
    NoOrder \notin CP!OrderRef /\ TP!BudgetAssumption /\ TP!BackoffAssumption
BY NoOrderAssumption, LoopAssumption
   DEF C!OrderRef, CP!OrderRef, C!LookupOutcome, CP!LookupOutcome, T!BudgetAssumption,
   TP!BudgetAssumption, T!BackoffAssumption, TP!BackoffAssumption, T!BackoffMs, TP!BackoffMs

\* A run calls its dependencies only through the retry loop, and gets a new
\* budget when it begins.
LEMMA LoopStep == ASSUME [Next]_vars PROVE [T!Next]_T!vars
<1> USE DEF T!vars, T!trackerVars, T!Next, T!CallStep, budgetVars
<1>1. CASE UNCHANGED vars
  BY <1>1 DEF vars
<1>2. CASE NewRun \/ NewCorrection
  BY <1>2 DEF NewRun, NewCorrection
<1>3. CASE \/ BeginCall \/ LookupAttempt \/ LookupRetry \/ LookupReturns \/ LookupStops
           \/ LookupRaises
  BY <1>3 DEF BeginCall, LookupAttempt, LookupRetry, LookupReturns, LookupStops, LookupRaises
<1>4. CASE \/ RecordReport \/ FailIntake \/ RequestCorrection \/ ApplyCorrection \/ Link
           \/ AttachShipment \/ GatherEvidence \/ AttachEvidence \/ RecordAddress
           \/ EnterPolicy \/ EvaluatePolicy \/ OpenReview \/ Decide \/ SelectDisposition
  BY <1>4 DEF RecordReport, FailIntake, RequestCorrection, ApplyCorrection, Link,
     AttachShipment, GatherEvidence, AttachEvidence, RecordAddress, EnterPolicy,
     EvaluatePolicy, OpenReview, Decide, SelectDisposition, notCase
<1>5. CASE \/ GrantAuthority \/ BlockForAuthority \/ AuthorityRaises \/ ObtainOperation
           \/ StartExecution \/ RecordExecution \/ CompleteExecution \/ RouteFailure
  BY <1>5 DEF GrantAuthority, BlockForAuthority, AuthorityRaises, ObtainOperation,
     StartExecution, RecordExecution, CompleteExecution, RouteFailure, notCase
<1>6. CASE \/ ExecutionAttempt \/ Unwind \/ ExecutionRefused \/ ExecutionReturns
           \/ ExecutionErrs \/ ExecutionRaises
  BY <1>6 DEF ExecutionAttempt, Unwind, ExecutionRefused, ExecutionReturns, ExecutionErrs,
     ExecutionRaises
<1> HIDE DEF T!vars, T!trackerVars, T!Next, T!CallStep, budgetVars
<1> QED
  BY <1>1, <1>2, <1>3, <1>4, <1>5, <1>6 DEF Next, RunStep, NoMoreRuns

\* The orchestrator implements the retry loop: whatever the runs do, the calls
\* they make and the budgets they spend are those of ToolCall.
THEOREM RunsUseTheLoop == Spec => T!Spec
<1>1. Init => T!Init
  BY DEF Init
<1>2. [Next]_vars => [T!Next]_T!vars
  BY LoopStep
<1> QED
  BY <1>1, <1>2, PTL DEF Spec, T!Spec

\* No run makes more calls or retries, or spends more, than its budget allows,
\* and a run its budget stopped knows which limit did (budgets.py 86-181).
THEOREM RunsAreBudgeted == Spec => [](T!TypeOK /\ T!WithinBudget /\ T!StoppedIffExhausted)
<1>1. T!Spec => TP!Spec
  BY SameLoopStates, SameLoopSteps, PTL DEF T!Spec, TP!Spec
<1>2. TP!Spec => [](TP!TypeOK /\ TP!WithinBudget /\ TP!StoppedIffExhausted)
  BY PartsAssumptions, TP!TypeCorrect, TP!BudgetIsKept, TP!StopsAreExplained, PTL
<1>3. TP!TypeOK /\ TP!WithinBudget /\ TP!StoppedIffExhausted
        => T!TypeOK /\ T!WithinBudget /\ T!StoppedIffExhausted
  BY SameLoopStates
<1> QED
  BY <1>1, <1>2, <1>3, RunsUseTheLoop, PTL

\* A step of a run is at most one call of the aggregate, and a new run begins
\* with a new case.
LEMMA CaseStep == ASSUME [Next]_vars PROVE [C!Next]_C!vars \/ C!Init'
<1> USE DEF C!vars, C!statusVars, C!linkVars, C!evidenceVars, C!reviewVars, caseVars, C!Next
<1>1. CASE NewRun
  BY <1>1 DEF NewRun, C!Init
<1>2. CASE UNCHANGED caseVars
  BY <1>2
<1>3. CASE \/ UNCHANGED vars \/ NewCorrection \/ BeginCall \/ LookupAttempt \/ LookupRetry
           \/ LookupReturns \/ LookupStops \/ LookupRaises
  BY <1>2, <1>3 DEF vars, NewCorrection, BeginCall, LookupAttempt, LookupRetry, LookupReturns,
     LookupStops, LookupRaises
<1>4. CASE \/ GrantAuthority \/ AuthorityRaises \/ ObtainOperation \/ ExecutionAttempt
           \/ Unwind \/ ExecutionRefused \/ ExecutionReturns \/ ExecutionErrs
           \/ ExecutionRaises
  BY <1>2, <1>4 DEF GrantAuthority, AuthorityRaises, ObtainOperation, ExecutionAttempt, Unwind,
     ExecutionRefused, ExecutionReturns, ExecutionErrs, ExecutionRaises
<1>5. CASE RecordReport \/ FailIntake \/ RequestCorrection
  BY <1>5 DEF RecordReport, FailIntake, RequestCorrection, C!LookupOutcome
<1>6. CASE ApplyCorrection
  BY <1>6 DEF ApplyCorrection, C!Reject
<1>7. CASE Link
  BY <1>7 DEF Link, C!OrderRef, C!LookupOutcome
<1>8. CASE AttachShipment \/ AttachEvidence \/ RecordAddress
  BY <1>8 DEF AttachShipment, AttachEvidence, RecordAddress
<1>9. CASE GatherEvidence \/ EnterPolicy
  BY <1>9 DEF GatherEvidence, EnterPolicy, C!CaseStatus
<1>10. CASE EvaluatePolicy
  BY <1>10 DEF EvaluatePolicy, P!Route, C!PolicyEvaluation, C!PolicyRoute
<1>11. CASE OpenReview \/ Decide \/ SelectDisposition
  BY <1>11 DEF OpenReview, Decide, SelectDisposition
<1>12. CASE BlockForAuthority \/ CompleteExecution \/ RouteFailure
  BY <1>12 DEF BlockForAuthority, CompleteExecution, RouteFailure
<1>13. CASE StartExecution \/ RecordExecution
  BY <1>13 DEF StartExecution, RecordExecution, C!ExecutionStatus
<1> HIDE DEF C!vars, C!statusVars, C!linkVars, C!evidenceVars, C!reviewVars, caseVars, C!Next
<1> QED
  BY <1>1, <1>3, <1>4, <1>5, <1>6, <1>7, <1>8, <1>9, <1>10, <1>11, <1>12, <1>13
     DEF Next, RunStep, NoMoreRuns

\* Whatever the runs, the case they work on keeps every safety invariant of
\* the aggregate.
THEOREM RunsKeepTheCaseSafe == Spec => [](C!TypeOK /\ C!SafetyInv)
<1>1. CP!Init => CP!IInv
  BY PartsAssumptions, CP!InitIInv
<1>2. CP!IInv /\ [CP!Next]_CP!vars => CP!IInv'
  BY PartsAssumptions, CP!IInvStep
<1>3. Spec => []CP!IInv
  <2>1. Init => CP!Init
    BY SameCaseStates DEF Init
  <2>2. [Next]_vars => [CP!Next]_CP!vars \/ CP!Init'
    BY CaseStep, SameCaseSteps DEF C!Init, CP!Init
  <2> QED
    BY <1>1, <1>2, <2>1, <2>2, PTL DEF Spec
<1>4. CP!IInv => C!TypeOK /\ C!SafetyInv
  BY SameCaseStates DEF CP!IInv, CP!StatusInv, CP!LinkInv, CP!SafetyInv
<1> QED
  BY <1>3, <1>4, PTL

--------------------------------------------------------------------------------
(***************************************************************************)
(* Type correctness                                                        *)
(***************************************************************************)

\* The variables of the run itself, and the causes it can stop for.
RunTypeOK ==
    /\ PlaceIsKnown
    /\ correcting \in BOOLEAN /\ correctable \in BOOLEAN
    /\ result \in Result \cup {NoResult}
    /\ authority \in {"unasked", "granted"}
    /\ runs \in 0 .. MaxRuns
    /\ pc \in {"record_execution", "route_failure"} => outcome \in Cause \cup {"result"}

\* What a run hands back is a result, and whether the case is correctable stays
\* a truth value.
LEMMA ReturnIsTyped ==
    ASSUME NEW r \in Result, Return(r), correctable \in BOOLEAN
    PROVE  pc' = "idle" /\ result' \in Result /\ correctable' \in BOOLEAN
<1>1. (correctable \/ StoppedAtOrderLookup(r)) \in BOOLEAN
  OBVIOUS
<1> QED
  BY <1>1, Zenon DEF Return

LEMMA StoppedIsAResult ==
    ASSUME NEW s \in ToolStage \cup {"authority"}, NEW cause \in Cause
    PROVE  StoppedAt(s, cause) \in Result
BY DEF StoppedAt, Result

LEMMA CompletedIsAResult == Completed \in Result
BY DEF Completed, Result

\* How a step leaves what the run hands back.
Handed ==
    \/ UNCHANGED <<result, correctable>>
    \/ Raise
    \/ \E r \in Result : Return(r)

LEMMA HandedIsTyped ==
    ASSUME Handed, result \in Result \cup {NoResult}, correctable \in BOOLEAN
    PROVE  result' \in Result \cup {NoResult} /\ correctable' \in BOOLEAN
<1>1. CASE UNCHANGED <<result, correctable>>
  BY <1>1
<1>2. CASE Raise
  BY <1>2 DEF Raise
<1>3. CASE \E r \in Result : Return(r)
  BY <1>3, ReturnIsTyped
<1> QED
  BY <1>1, <1>2, <1>3 DEF Handed

\* The steps before a commitment hand back a result of the stage they stopped at.
LEMMA LookupHands ==
    ASSUME RunTypeOK, LookupReturns \/ LookupStops \/ LookupRaises
    PROVE  Handed /\ pc' \notin {"record_execution", "route_failure"} /\ UNCHANGED unmoved
<1>1. stage \in ToolStage
  BY DEF RunTypeOK, PlaceIsKnown
<1>2. CASE LookupReturns
  <2>1. outcome' \in {"result", "budget_exceeded"}
    BY <1>2 DEF LookupReturns, T!Return, T!End
  <2>2. CASE AfterResult
    BY <1>2, <2>2 DEF LookupReturns, AfterResult, Handed, Call, GoTo
  <2>3. CASE outcome' = "budget_exceeded" /\ Return(StoppedAt(stage, outcome'))
    BY <1>1, <1>2, <2>3, StoppedIsAResult DEF LookupReturns, Handed, Cause, Return
  <2> QED
    BY <1>2, <2>1, <2>2, <2>3 DEF LookupReturns
<1>3. CASE LookupStops
  <2>1. outcome' \in Cause
    BY <1>3 DEF LookupStops, T!AttemptRefused, T!FailForGood, T!ExhaustRetries, T!RetryRefused,
       T!End, Cause
  <2> QED
    BY <1>1, <1>3, <2>1, StoppedIsAResult DEF LookupStops, Handed, Return
<1>4. CASE LookupRaises
  BY <1>4 DEF LookupRaises, Raise, Handed
<1> QED
  BY <1>2, <1>3, <1>4

LEMMA EarlyHands ==
    ASSUME RunTypeOK,
           \/ RecordReport \/ FailIntake \/ RequestCorrection \/ ApplyCorrection
           \/ Link \/ AttachShipment \/ GatherEvidence \/ AttachEvidence
           \/ RecordAddress \/ EnterPolicy \/ EvaluatePolicy \/ OpenReview
    PROVE  Handed /\ pc' \notin {"record_execution", "route_failure"} /\ UNCHANGED unmoved
<1> USE DEF Call, GoTo, notCase
<1>1. \A s \in ToolStage : StoppedAt(s, "refused") \in Result
  BY StoppedIsAResult DEF Cause
<1>2. StoppedAt(stage, "refused") \in Result
  BY <1>1 DEF RunTypeOK, PlaceIsKnown
<1>3. /\ StoppedAt("order_lookup", "refused") \in Result
      /\ StoppedAt("human_review", "refused") \in Result
      /\ Completed \in Result
  BY <1>1, CompletedIsAResult DEF ToolStage
<1>4. /\ pc' \notin {"record_execution", "route_failure"} /\ UNCHANGED unmoved
      /\ \/ UNCHANGED <<result, correctable>>
         \/ Raise
         \/ Return(StoppedAt(stage, "refused"))
         \/ Return(StoppedAt("order_lookup", "refused"))
         \/ Return(StoppedAt("human_review", "refused"))
         \/ Return(Completed)
  <2>1. CASE RecordReport \/ Link \/ AttachShipment \/ GatherEvidence \/ RecordAddress \/ EnterPolicy
    BY <2>1 DEF RecordReport, Link, AttachShipment, GatherEvidence, RecordAddress, EnterPolicy
  <2>2. CASE FailIntake \/ RequestCorrection
    BY <2>2 DEF FailIntake, RequestCorrection, Return
  <2>3. CASE ApplyCorrection
    BY <2>3 DEF ApplyCorrection, Raise, Return
  <2>4. CASE AttachEvidence \/ OpenReview
    BY <2>4 DEF AttachEvidence, OpenReview, Raise
  <2>5. CASE EvaluatePolicy
    BY <2>5 DEF EvaluatePolicy, Return
  <2> QED
    BY <2>1, <2>2, <2>3, <2>4, <2>5
<1> QED
  BY <1>2, <1>3, <1>4 DEF Handed

LEMMA ChoiceHands ==
    ASSUME Decide \/ SelectDisposition
    PROVE  Handed /\ pc' \notin {"record_execution", "route_failure"} /\ UNCHANGED unmoved
<1>1. UNCHANGED unmoved /\ (AfterDisposition \/ Raise)
  BY DEF Decide, SelectDisposition, notCase
<1>2. CASE AfterDisposition
  BY <1>1, <1>2, CompletedIsAResult DEF AfterDisposition, Handed, GoTo, Return
<1>3. CASE Raise
  BY <1>1, <1>3 DEF Handed, Raise
<1> QED
  BY <1>1, <1>2, <1>3

\* A committed run knows the cause it stops for when it records the outcome.
LEMMA CommittedHands ==
    ASSUME Stages, RunTypeOK,
           \/ GrantAuthority \/ BlockForAuthority \/ AuthorityRaises
           \/ ObtainOperation \/ StartExecution \/ ExecutionAttempt \/ Unwind
           \/ ExecutionRefused \/ ExecutionReturns \/ ExecutionErrs \/ ExecutionRaises
           \/ RecordExecution \/ CompleteExecution \/ RouteFailure
    PROVE  /\ Handed /\ authority' \in {"unasked", "granted"} /\ UNCHANGED <<correcting, runs>>
           /\ pc' \in {"record_execution", "route_failure"} => outcome' \in Cause \cup {"result"}
<1> USE DEF RunTypeOK, GoTo, Call, unmoved, notCase
<1>1. CASE GrantAuthority \/ AuthorityRaises
  BY <1>1 DEF GrantAuthority, AuthorityRaises, Raise, Handed
<1>2. CASE BlockForAuthority
  <2>1. StoppedAt("authority", "refused") \in Result
    BY StoppedIsAResult DEF Cause
  <2> QED
    BY <1>2, <2>1 DEF BlockForAuthority, Return, Handed
<1>3. CASE ObtainOperation
  BY <1>3 DEF ObtainOperation, Handed
<1>4. CASE StartExecution
  BY <1>4 DEF StartExecution, Handed, Stages, OutcomeIsPlaced, budgetVars
<1>5. CASE ExecutionAttempt
  BY <1>5 DEF ExecutionAttempt, Executing, InCall, Handed
<1>6. CASE Unwind \/ ExecutionRaises
  BY <1>6 DEF Unwind, ExecutionRaises, Raise, Handed
<1>7. CASE ExecutionRefused
  BY <1>7 DEF ExecutionRefused, T!AttemptRefused, T!End, Handed, Cause
<1>8. CASE ExecutionReturns
  BY <1>8 DEF ExecutionReturns, T!Return, T!End, Handed, Cause
<1>9. CASE ExecutionErrs
  BY <1>9 DEF ExecutionErrs, T!FailForGood, T!ExhaustRetries, T!RetryRefused, T!End, Handed, Cause
<1>10. CASE RecordExecution
  BY <1>10 DEF RecordExecution, Handed, budgetVars
<1>11. CASE CompleteExecution
  <2>1. outcome \in {"result", "budget_exceeded"}
    BY <1>11 DEF CompleteExecution, Stages, OutcomeIsPlaced
  <2>2. Completed \in Result /\ StoppedAt("execution", "budget_exceeded") \in Result
    BY CompletedIsAResult, StoppedIsAResult DEF ToolStage, Cause
  <2>3. (IF outcome = "result" THEN Completed ELSE StoppedAt("execution", outcome)) \in Result
    BY <2>1, <2>2
  <2> QED
    BY <1>11, <2>3 DEF CompleteExecution, Return, Handed
<1>12. CASE RouteFailure
  <2>1. (IF outcome = "result" THEN "refused" ELSE outcome) \in Cause
    BY <1>12 DEF RouteFailure, Cause
  <2>2. StoppedAt("execution", IF outcome = "result" THEN "refused" ELSE outcome) \in Result
    BY <2>1, StoppedIsAResult DEF ToolStage
  <2> QED
    BY <1>12, <2>2 DEF RouteFailure, Return, Handed
<1> QED
  BY <1>1, <1>2, <1>3, <1>4, <1>5, <1>6, <1>7, <1>8, <1>9, <1>10, <1>11, <1>12

LEMMA RunTypeStep ==
    ASSUME Stages, Located', RunTypeOK, [Next]_vars PROVE RunTypeOK'
<1>1. PlaceIsKnown'
  BY DEF Located
<1>2. CASE UNCHANGED vars
  BY <1>1, <1>2 DEF RunTypeOK, vars, budgetVars, runVars
<1>3. CASE NewRun \/ NewCorrection
  <2>1. runs' \in 0 .. MaxRuns
    BY <1>3, MaxRunsAssumption DEF RunTypeOK, NewRun, NewCorrection
  <2> QED
    BY <1>1, <1>3, <2>1 DEF RunTypeOK, NewRun, NewCorrection, Call
<1>4. CASE BeginCall \/ LookupAttempt \/ LookupRetry
  BY <1>1, <1>4 DEF RunTypeOK, BeginCall, LookupAttempt, LookupRetry, runVars, Looking, InCall
<1>5. CASE Handed /\ pc' \notin {"record_execution", "route_failure"} /\ UNCHANGED unmoved
  BY <1>1, <1>5, HandedIsTyped DEF RunTypeOK, unmoved
<1>6. CASE /\ Handed /\ authority' \in {"unasked", "granted"} /\ UNCHANGED <<correcting, runs>>
           /\ pc' \in {"record_execution", "route_failure"} => outcome' \in Cause \cup {"result"}
  BY <1>1, <1>6, HandedIsTyped DEF RunTypeOK
<1> QED
  BY <1>2, <1>3, <1>4, <1>5, <1>6, LookupHands, EarlyHands, ChoiceHands, CommittedHands
     DEF Next, RunStep, NoMoreRuns

LEMMA RunTypeInvariant == Spec => []RunTypeOK
<1>1. Init => RunTypeOK
  <2>1. 0 \in 0 .. MaxRuns
    BY MaxRunsAssumption
  <2> QED
    BY <2>1 DEF Init, RunTypeOK, PlaceIsKnown, ToolStage
<1>2. Stages /\ Located' /\ RunTypeOK /\ [Next]_vars => RunTypeOK'
  BY RunTypeStep
<1> QED
  BY <1>1, <1>2, StagesInvariant, LocatedInvariant, PTL DEF Spec

\* Every method of the registry leaves records the constructor accepts: no
\* attempts before the first is started, and at least one after.
LEMMA MethodsKeepTheRecords ==
    ASSUME NEW k \in Op!Keys, operations \in [Op!Keys -> Op!Operation],
           \/ Op!GetOrCreate(k) \/ Op!StartAttempt(k)
           \/ Op!RecordSuccess(k) \/ Op!RecordFailure(k)
    PROVE  operations' \in [Op!Keys -> Op!Operation]
<1>1. PICK o \in Op!Operation :
         operations' = operations \/ operations' = [operations EXCEPT ![k] = o]
  <2>1. operations[k] \in Op!Operation
    OBVIOUS
  <2>2. CASE Op!GetOrCreate(k)
    <3>1. [status |-> "not_started", attempts |-> 0] \in Op!Operation
      BY DEF Op!Operation, Op!OperationStatus
    <3> QED
      BY <2>1, <2>2, <3>1 DEF Op!GetOrCreate
  <2>3. CASE Op!StartAttempt(k)
    <3> DEFINE o == [status |-> "in_progress", attempts |-> operations[k].attempts + 1]
    <3>1. o \in Op!Operation
      BY <2>1 DEF Op!Operation, Op!OperationStatus
    <3>2. operations' = [operations EXCEPT ![k] = o]
      BY <2>1, <2>3 DEF Op!StartAttempt, Op!Operation
    <3> QED
      BY <3>1, <3>2
  <2>4. ASSUME NEW s \in {"succeeded", "failed"}, Op!Finish(k, s)
        PROVE  \E o \in Op!Operation : operations' = [operations EXCEPT ![k] = o]
    <3> DEFINE o == [status |-> s, attempts |-> operations[k].attempts]
    <3>1. o \in Op!Operation
      BY <2>1, <2>4 DEF Op!Operation, Op!OperationStatus, Op!Finish, Op!CanFinish
    <3>2. operations' = [operations EXCEPT ![k] = [@ EXCEPT !.status = s]]
      BY <2>4 DEF Op!Finish
    <3>3. [operations[k] EXCEPT !.status = s] = o
      BY <2>1 DEF Op!Operation
    <3>4. operations' = [operations EXCEPT ![k] = o]
      BY <3>2, <3>3
    <3> QED
      BY <3>1, <3>4
  <2> QED
    BY <2>2, <2>3, <2>4 DEF Op!RecordSuccess, Op!RecordFailure
<1> QED
  BY <1>1

LEMMA RecordsInvariant == Spec => [](operations \in [Op!Keys -> Op!Operation])
<1> DEFINE Records == operations \in [Op!Keys -> Op!Operation]
<1>1. Init => Records
  BY DEF Init, Op!RegistryInit, Op!Absent, Op!Operation, Op!OperationStatus
<1>2. ASSUME IInv, Records, [Next]_vars PROVE Records'
  <2>1. CASE ObtainOperation \/ ExecutionAttempt \/ ExecutionReturns \/ ExecutionErrs
    <3>1. Key \in Op!Keys
      BY <1>2, <2>1, CommittedHasAKey DEF ObtainOperation, ExecutionAttempt, ExecutionReturns,
         ExecutionErrs, Committed
    <3> QED
      BY <1>2, <2>1, <3>1, MethodsKeepTheRecords DEF ObtainOperation, ExecutionAttempt,
         ExecutionReturns, ExecutionErrs
  <2>2. CASE UNCHANGED operations
    BY <1>2, <2>2
  <2>3. CASE \/ NewRun \/ NewCorrection \/ UNCHANGED vars
             \/ BeginCall \/ LookupAttempt \/ LookupRetry \/ LookupReturns \/ LookupStops
             \/ LookupRaises \/ GrantAuthority \/ AuthorityRaises \/ Unwind \/ ExecutionRefused
             \/ ExecutionRaises
    BY <2>2, <2>3 DEF NewRun, NewCorrection, vars, BeginCall, LookupAttempt, LookupRetry,
       LookupReturns, LookupStops, LookupRaises, GrantAuthority, AuthorityRaises, Unwind,
       ExecutionRefused, ExecutionRaises, notCase
  <2>4. CASE \/ RecordReport \/ FailIntake \/ RequestCorrection \/ ApplyCorrection
             \/ Link \/ AttachShipment \/ GatherEvidence \/ AttachEvidence
             \/ RecordAddress \/ EnterPolicy \/ EvaluatePolicy \/ OpenReview \/ Decide
             \/ SelectDisposition \/ BlockForAuthority \/ StartExecution \/ RecordExecution
             \/ CompleteExecution \/ RouteFailure
    BY <2>2, <2>4 DEF RecordReport, FailIntake, RequestCorrection, ApplyCorrection, Link,
       AttachShipment, GatherEvidence, AttachEvidence, RecordAddress, EnterPolicy,
       EvaluatePolicy, OpenReview, Decide, SelectDisposition, BlockForAuthority,
       StartExecution, RecordExecution, CompleteExecution, RouteFailure, notCase
  <2> QED
    BY <1>2, <2>1, <2>3, <2>4 DEF Next, RunStep, NoMoreRuns
<1> QED
  BY <1>1, <1>2, Invariant, PTL DEF Spec

\* Every variable of the case, the loop, the registry and the run has its type:
\* a run is always at a place of the code, and whatever way it ends it hands
\* back a result with a stage and a cause (workflow.py 563-1525).
THEOREM TypesAreKept == Spec => []TypeOK
<1>1. /\ C!TypeOK /\ C!SafetyInv /\ T!TypeOK /\ T!WithinBudget /\ T!StoppedIffExhausted
      /\ IInv /\ RunTypeOK /\ operations \in [Op!Keys -> Op!Operation]
      => TypeOK
  BY DEF TypeOK, IInv, StoreTyped, RunTypeOK, PlaceIsKnown
<1> QED
  BY <1>1, RunsKeepTheCaseSafe, RunsAreBudgeted, Invariant, RunTypeInvariant, RecordsInvariant,
     PTL

--------------------------------------------------------------------------------
(***************************************************************************)
(* What the demo tells of a first run                                      *)
(***************************************************************************)

\* A run is begun before it does anything, and a correction is not the first.
RunsBegin ==
    /\ runs = 0 => pc = "idle" /\ ~correctable /\ \A k \in Op!Keys : effects[k] = 0
    /\ correcting => runs > 1

\* While the order is looked for there is none.
NoOrderYet ==
    (\/ pc \in {"report", "fail_intake", "request_correction", "apply_correction", "link"}
     \/ AtCall("customer_lookup") \/ AtCall("order_lookup")) => orderRef = NoOrder

\* A case is closed by a denial or by a refund or replacement, not by default.
ClosedByChoice == caseStatus = "closed" => disposition \in C!RefundOrReplacement \cup {"deny"}

\* The stage a result names says where the case is, and a first run leaves a
\* case without an order to the customer only when it stopped at order_lookup.
StageTells ==
    /\ (pc = "idle" /\ StoppedAtOrderLookup(result)) => orderRef = NoOrder
    /\ (pc = "idle" /\ result.stage = "authority") => caseStatus = "human_review"
    /\ (runs <= 1 /\ caseStatus = "awaiting_customer_action" /\ orderRef = NoOrder)
          => pc = "idle" /\ StoppedAtOrderLookup(result)

\* Before a second run, what happened is what the case was told, or the run has
\* yet to tell it, or raised.
FirstEffect ==
    runs <= 1 => \A k \in Op!Keys : effects[k] # 0 =>
        /\ k = Key
        /\ \/ pc \in {"record_execution", "complete"} /\ operations[k].status = "succeeded"
           \/ pc = "idle" /\ (result = NoResult \/ executionStatus = "succeeded")

LEMMA RunStepIsUnderWay ==
    ASSUME RunStep PROVE pc # "idle" /\ UNCHANGED <<correcting, runs>>
<1> USE DEF Looking, Executing, InCall, notCase, unmoved, runVars
<1>1. CASE BeginCall \/ LookupAttempt \/ LookupRetry \/ LookupReturns \/ LookupStops \/ LookupRaises
  BY <1>1 DEF BeginCall, LookupAttempt, LookupRetry, LookupReturns, LookupStops, LookupRaises
<1>2. CASE \/ RecordReport \/ FailIntake \/ RequestCorrection \/ ApplyCorrection \/ Link
           \/ AttachShipment \/ GatherEvidence \/ AttachEvidence \/ RecordAddress
           \/ EnterPolicy \/ EvaluatePolicy \/ OpenReview
  BY <1>2 DEF RecordReport, FailIntake, RequestCorrection, ApplyCorrection, Link,
     AttachShipment, GatherEvidence, AttachEvidence, RecordAddress, EnterPolicy,
     EvaluatePolicy, OpenReview
<1>3. CASE \/ Decide \/ SelectDisposition \/ GrantAuthority \/ BlockForAuthority
           \/ AuthorityRaises \/ ObtainOperation \/ StartExecution \/ RecordExecution
           \/ CompleteExecution \/ RouteFailure
  BY <1>3 DEF Decide, SelectDisposition, GrantAuthority, BlockForAuthority, AuthorityRaises,
     ObtainOperation, StartExecution, RecordExecution, CompleteExecution, RouteFailure
<1>4. CASE \/ ExecutionAttempt \/ Unwind \/ ExecutionRefused \/ ExecutionReturns
           \/ ExecutionErrs \/ ExecutionRaises
  BY <1>4 DEF ExecutionAttempt, Unwind, ExecutionRefused, ExecutionReturns, ExecutionErrs,
     ExecutionRaises
<1> QED
  BY <1>1, <1>2, <1>3, <1>4 DEF RunStep

LEMMA RunsBeginStep ==
    ASSUME RunTypeOK, RunsBegin, [Next]_vars PROVE RunsBegin'
<1>1. runs \in Nat
  BY DEF RunTypeOK
<1>2. CASE UNCHANGED vars
  BY <1>2 DEF vars, runVars, RunsBegin
<1>3. CASE NewRun
  <2>1. runs' = runs + 1 /\ correcting' = FALSE
    BY <1>3 DEF NewRun
  <2> QED
    BY <1>1, <2>1 DEF RunsBegin
<1>4. CASE NewCorrection
  <2>1. runs' = runs + 1 /\ runs # 0
    BY <1>4 DEF NewCorrection, Correctable, RunsBegin
  <2> QED
    BY <1>1, <2>1 DEF RunsBegin
<1>5. CASE RunStep
  BY <1>5, RunStepIsUnderWay DEF RunsBegin
<1> QED
  BY <1>2, <1>3, <1>4, <1>5 DEF Next, NoMoreRuns

OrderIsTold == NoOrderYet /\ ClosedByChoice /\ StageTells

LEMMA LookupTells ==
    ASSUME OrderIsTold, RunTypeOK,
           \/ BeginCall
           \/ LookupAttempt \/ LookupRetry \/ LookupReturns \/ LookupStops \/ LookupRaises
    PROVE  OrderIsTold'
<1> USE DEF OrderIsTold, Looking, InCall, caseVars, runVars, unmoved
<1>1. pc = "tool" /\ UNCHANGED <<caseVars, runs>>
  BY DEF BeginCall, LookupAttempt, LookupRetry, LookupReturns, LookupStops, LookupRaises
<1>2. \/ UNCHANGED <<pc, stage, result>>
      \/ pc' = "idle" /\ (result' = NoResult \/ \E cause \in Cause : result' = StoppedAt(stage, cause))
      \/ stage # "execution" /\ AfterResult
  <2>1. CASE BeginCall \/ LookupAttempt \/ LookupRetry
    BY <2>1 DEF BeginCall, LookupAttempt, LookupRetry
  <2>2. CASE LookupReturns
    BY <2>2, ReturnKeepsCorrectable DEF LookupReturns, T!Return, T!End, Cause
  <2>3. CASE LookupStops
    BY <2>3, ReturnKeepsCorrectable DEF LookupStops, T!AttemptRefused, T!FailForGood,
       T!ExhaustRetries, T!RetryRefused, T!End, Cause
  <2>4. CASE LookupRaises
    BY <2>4 DEF LookupRaises, Raise
  <2> QED
    BY <2>1, <2>2, <2>3, <2>4
<1> USE DEF NoOrderYet, ClosedByChoice, StageTells, AtCall, StoppedAtOrderLookup
<1>3. CASE UNCHANGED <<pc, stage, result>>
  BY <1>1, <1>3
<1>4. CASE pc' = "idle" /\ (result' = NoResult \/ \E cause \in Cause : result' = StoppedAt(stage, cause))
  BY <1>1, <1>4 DEF NoResult, StoppedAt, RunTypeOK, PlaceIsKnown, ToolStage
<1>5. CASE stage # "execution" /\ AfterResult
  BY <1>1, <1>5 DEF AfterResult, Call, GoTo
<1> QED
  BY <1>2, <1>3, <1>4, <1>5

LEMMA EarlyTells ==
    ASSUME OrderIsTold, Stages, Located, RunTypeOK, RunsBegin,
           \/ RecordReport \/ FailIntake \/ RequestCorrection \/ ApplyCorrection
           \/ Link \/ AttachShipment \/ GatherEvidence \/ AttachEvidence
           \/ RecordAddress \/ EnterPolicy \/ EvaluatePolicy \/ OpenReview
    PROVE  OrderIsTold'
<1>1. UNCHANGED runs
  BY RunStepIsUnderWay DEF RunStep
<1> USE DEF OrderIsTold, NoOrderYet, ClosedByChoice, StageTells, AtCall, StoppedAtOrderLookup,
            Call, GoTo, Raise, NoResult, StoppedAt, Completed, C!Reject, C!vars, C!statusVars,
            C!linkVars
<1>2. CASE RecordReport
  BY <1>1, <1>2 DEF RecordReport, C!RecordCustomerReport
<1>3. CASE FailIntake
  BY <1>1, <1>3, ReturnKeepsCorrectable DEF FailIntake, C!FailIntake, RunTypeOK, PlaceIsKnown,
     ToolStage
<1>4. CASE RequestCorrection
  BY <1>1, <1>4, ReturnKeepsCorrectable
     DEF RequestCorrection, C!RequestOrderIdentifierCorrection, C!CanRequestCorrection
<1>5. CASE ApplyCorrection
  <2>1. correcting /\ ~(runs <= 1)
    BY <1>5 DEF ApplyCorrection, Located, StatusOfThePlace, RunsBegin, RunTypeOK
  <2> QED
    BY <1>1, <1>5, <2>1, ReturnKeepsCorrectable
       DEF ApplyCorrection, C!ApplyOrderIdentifierCorrection, C!CanApplyCorrection
<1>6. CASE Link \/ AttachShipment \/ GatherEvidence
  BY <1>1, <1>6 DEF Link, C!Link, AttachShipment, C!AttachShipment, GatherEvidence,
     C!TransitionTo
<1>7. CASE AttachEvidence \/ RecordAddress \/ EnterPolicy
  BY <1>1, <1>7 DEF AttachEvidence, C!AttachCarrierEvidence, RecordAddress,
     C!RecordAddressMatchResult, EnterPolicy, C!TransitionTo
<1>8. CASE EvaluatePolicy
  BY <1>1, <1>8, ReturnKeepsCorrectable DEF EvaluatePolicy, C!RecordPolicyEvaluation,
     C!RouteStatus, Stages, Unlinked
<1>9. CASE OpenReview
  BY <1>1, <1>9 DEF OpenReview, C!OpenHumanReview
<1> QED
  BY <1>2, <1>3, <1>4, <1>5, <1>6, <1>7, <1>8, <1>9

LEMMA ChoiceTells ==
    ASSUME OrderIsTold, Stages, Decide \/ SelectDisposition PROVE OrderIsTold'
<1>1. /\ orderRef # NoOrder /\ UNCHANGED <<orderRef, runs>>
      /\ pc \in {"decide", "select"}
  BY RunStepIsUnderWay DEF RunStep, Decide, SelectDisposition, Stages, Unlinked,
     C!RecordHumanReviewDecision, C!SelectDisposition, C!linkVars, C!Reject, C!vars
<1> USE DEF OrderIsTold, NoOrderYet, ClosedByChoice, StageTells, AtCall, StoppedAtOrderLookup
<1>2. CASE C!Reject /\ Raise
  BY <1>1, <1>2 DEF C!Reject, C!vars, C!statusVars, Raise, NoResult
<1>3. ASSUME NEW d \in C!Disposition \ {"none_selected"},
             C!ApplyDispositionPath(d), AfterDisposition
      PROVE  OrderIsTold'
  <2>1. caseStatus' = "closed" => d \in C!RefundOrReplacement \cup {"deny"}
    BY <1>3 DEF C!ApplyDispositionPath, C!NextStatus, C!Disposition, C!ExecutableDispositions,
       C!RefundOrReplacement, C!CustomerActionDispositions
  <2>2. disposition' = d
    BY <1>3 DEF C!ApplyDispositionPath
  <2>3. pc' \in {"authorize", "obtain"} \/ (pc' = "idle" /\ result' = Completed)
    BY <1>3, PathOfADisposition
  <2> QED
    BY <1>1, <2>1, <2>2, <2>3 DEF Completed
<1>4. \/ C!Reject /\ Raise
      \/ \E d \in C!Disposition \ {"none_selected"} : C!ApplyDispositionPath(d) /\ AfterDisposition
  <2>1. CASE Decide
    BY <2>1 DEF Decide, C!RecordHumanReviewDecision, C!ReviewDecision
  <2>2. CASE SelectDisposition
    BY <2>2 DEF SelectDisposition, C!SelectDisposition, C!CanSelectDisposition, C!CanSelect
  <2> QED
    BY <2>1, <2>2
<1> QED
  BY <1>2, <1>3, <1>4

LEMMA CommittedTells ==
    ASSUME OrderIsTold, Stages, Located,
           \/ GrantAuthority \/ BlockForAuthority \/ AuthorityRaises
           \/ ObtainOperation \/ StartExecution \/ ExecutionAttempt \/ Unwind
           \/ ExecutionRefused \/ ExecutionReturns \/ ExecutionErrs \/ ExecutionRaises
           \/ RecordExecution \/ CompleteExecution \/ RouteFailure
    PROVE  OrderIsTold'
<1>1. /\ orderRef # NoOrder /\ caseStatus = "executing"
      /\ UNCHANGED <<orderRef, disposition>>
  BY DEF Stages, Unlinked, Located, CommitmentIsKnown, Committed, Executing, InCall,
     GrantAuthority, BlockForAuthority, AuthorityRaises, ObtainOperation, StartExecution,
     ExecutionAttempt, Unwind, ExecutionRefused, ExecutionReturns, ExecutionErrs,
     ExecutionRaises, RecordExecution, CompleteExecution, RouteFailure, caseVars,
     C!BlockRefundExecutionForAuthority, C!RecordExecutionStatus, C!CompleteExecution,
     C!RouteExecutionFailureToReview, C!linkVars
<1>2. caseStatus' = "closed" => disposition \in C!RefundOrReplacement
  BY <1>1 DEF GrantAuthority, BlockForAuthority, AuthorityRaises, ObtainOperation,
     StartExecution, ExecutionAttempt, Unwind, ExecutionRefused, ExecutionReturns,
     ExecutionErrs, ExecutionRaises, RecordExecution, CompleteExecution, RouteFailure,
     caseVars, C!BlockRefundExecutionForAuthority, C!RecordExecutionStatus,
     C!CompleteExecution, C!RouteExecutionFailureToReview
<1>3. \/ pc' \in {"obtain", "start_execution", "unwind", "record_execution", "complete",
                  "route_failure"}
      \/ pc' = "tool" /\ stage' = "execution"
      \/ pc' = "idle" /\ result' = NoResult
      \/ pc' = "idle" /\ \E cause : result' = StoppedAt("execution", cause)
      \/ pc' = "idle" /\ result' = Completed
      \/ /\ pc' = "idle" /\ result' = StoppedAt("authority", "refused")
         /\ caseStatus' = "human_review"
  <2> USE DEF GoTo, Call, Raise, Executing, InCall
  <2>1. CASE GrantAuthority \/ AuthorityRaises \/ ObtainOperation \/ StartExecution \/ RecordExecution
    BY <2>1 DEF GrantAuthority, AuthorityRaises, ObtainOperation, StartExecution, RecordExecution
  <2>2. CASE BlockForAuthority
    BY <2>2, ReturnKeepsCorrectable DEF BlockForAuthority, C!BlockRefundExecutionForAuthority
  <2>3. CASE ExecutionAttempt \/ Unwind \/ ExecutionRefused \/ ExecutionReturns \/ ExecutionErrs
             \/ ExecutionRaises
    BY <2>3 DEF ExecutionAttempt, Unwind, ExecutionRefused, ExecutionReturns, ExecutionErrs,
       ExecutionRaises, unmoved
  <2>4. CASE CompleteExecution \/ RouteFailure
    BY <2>4, ReturnKeepsCorrectable DEF CompleteExecution, RouteFailure
  <2> QED
    BY <2>1, <2>2, <2>3, <2>4
<1> QED
  BY <1>1, <1>2, <1>3 DEF OrderIsTold, NoOrderYet, ClosedByChoice, StageTells, AtCall,
     StoppedAtOrderLookup, NoResult, StoppedAt, Completed

LEMMA OrderIsToldStep ==
    ASSUME OrderIsTold, Stages, Located, RunTypeOK, RunsBegin, [Next]_vars PROVE OrderIsTold'
<1> USE DEF OrderIsTold, NoOrderYet, ClosedByChoice, StageTells, AtCall, StoppedAtOrderLookup
<1>1. CASE UNCHANGED vars
  BY <1>1 DEF vars, caseVars, runVars
<1>2. CASE NewRun
  BY <1>2 DEF NewRun
<1>3. CASE NewCorrection
  <2>1. runs \in Nat /\ runs # 0 /\ runs' = runs + 1
    BY <1>3 DEF NewCorrection, Correctable, RunsBegin, RunTypeOK
  <2>2. ~(runs' <= 1)
    BY <2>1
  <2> QED
    BY <1>3, <2>2 DEF NewCorrection, Correctable, Call, caseVars
<1> HIDE DEF OrderIsTold, NoOrderYet, ClosedByChoice, StageTells, AtCall, StoppedAtOrderLookup
<1> QED
  BY <1>1, <1>2, <1>3, LookupTells, EarlyTells, ChoiceTells, CommittedTells
     DEF Next, RunStep, NoMoreRuns

\* Only an execution acts, on the operation of the run.
LEMMA FirstEffectStep ==
    ASSUME FirstEffect, IInv, Located, RunTypeOK, RunsBegin, [Next]_vars PROVE FirstEffect'
<1>1. runs \in Nat
  BY DEF RunTypeOK
<1>2. CASE UNCHANGED vars
  BY <1>2 DEF FirstEffect, vars, caseVars, runVars, Key
<1>3. CASE NewRun \/ NewCorrection
  <2>1. runs' = runs + 1 /\ UNCHANGED effects
    BY <1>3 DEF NewRun, NewCorrection
  <2>2. runs = 0 => \A k \in Op!Keys : effects[k] = 0
    BY DEF RunsBegin
  <2> QED
    BY <1>1, <2>1, <2>2 DEF FirstEffect
<1>4. CASE RunStep /\ runs <= 1
  <2>1. pc # "idle" /\ runs' = runs
    BY <1>4, RunStepIsUnderWay
  <2>2. (\E k \in Op!Keys : effects[k] # 0) =>
           /\ pc \in {"record_execution", "complete"}
           /\ operations[Key].status = "succeeded"
           /\ \A k \in Op!Keys : effects[k] # 0 => k = Key
    BY <1>4, <2>1 DEF FirstEffect
  <2>3. CASE RecordExecution
    BY <1>4, <2>1, <2>2, <2>3 DEF FirstEffect, RecordExecution, GoTo, notCase,
       C!RecordExecutionStatus, Key
  <2>4. CASE CompleteExecution
    BY <1>4, <2>1, <2>2, <2>4 DEF FirstEffect, CompleteExecution, Return, notCase,
       C!CompleteExecution, C!CanCompleteExecution, Key
  <2>5. CASE ExecutionReturns \/ ExecutionRaises
    <3>1. /\ pc = "tool" /\ \A k \in Op!Keys : effects[k] = 0
      BY <2>2, <2>5 DEF ExecutionReturns, ExecutionRaises, Executing, InCall
    <3>2. Key \in Op!Keys /\ Key' = Key
      BY <2>5, CommittedHasAKey DEF ExecutionReturns, ExecutionRaises, Committed, caseVars, Key
    <3>3. /\ effects \in [Op!Keys -> Nat]
          /\ operations \in [Op!Keys -> [status : Op!OperationStatus \cup {"absent"},
                                         attempts : Nat]]
      BY DEF IInv, StoreTyped
    <3>4. \A k \in Op!Keys : effects'[k] # 0 => k = Key
      BY <2>5, <3>1, <3>2, <3>3 DEF ExecutionReturns, ExecutionRaises
    <3>5. CASE ExecutionReturns
      <4>1. UNCHANGED effects \/ operations'[Key].status = "succeeded"
        BY <3>2, <3>3, <3>5 DEF ExecutionReturns, Op!RecordSuccess, Op!Finish
      <4> QED
        BY <3>1, <3>2, <3>4, <3>5, <4>1 DEF FirstEffect, ExecutionReturns, GoTo
    <3>6. CASE ExecutionRaises
      BY <3>2, <3>4, <3>6 DEF FirstEffect, ExecutionRaises, Raise
    <3> QED
      BY <2>5, <3>5, <3>6
  <2>6. CASE pc \notin {"record_execution", "complete"} /\ UNCHANGED effects
    BY <2>2, <2>6 DEF FirstEffect
  <2>7. CASE \/ BeginCall \/ LookupAttempt \/ LookupRetry \/ LookupReturns \/ LookupStops
             \/ LookupRaises \/ GrantAuthority \/ AuthorityRaises \/ ObtainOperation
             \/ ExecutionAttempt \/ Unwind \/ ExecutionRefused \/ ExecutionErrs
    BY <2>6, <2>7 DEF BeginCall, LookupAttempt, LookupRetry, LookupReturns, LookupStops,
       LookupRaises, GrantAuthority, AuthorityRaises, ObtainOperation, ExecutionAttempt,
       Unwind, ExecutionRefused, ExecutionErrs, Looking, Executing, InCall, notCase
  <2>8. CASE \/ RecordReport \/ FailIntake \/ RequestCorrection \/ ApplyCorrection \/ Link
             \/ AttachShipment \/ GatherEvidence \/ AttachEvidence \/ RecordAddress
             \/ EnterPolicy \/ EvaluatePolicy \/ OpenReview \/ Decide \/ SelectDisposition
             \/ BlockForAuthority \/ StartExecution \/ RouteFailure
    BY <2>6, <2>8 DEF RecordReport, FailIntake, RequestCorrection, ApplyCorrection, Link,
       AttachShipment, GatherEvidence, AttachEvidence, RecordAddress, EnterPolicy,
       EvaluatePolicy, OpenReview, Decide, SelectDisposition, BlockForAuthority,
       StartExecution, RouteFailure, notCase
  <2> QED
    BY <1>4, <2>3, <2>4, <2>5, <2>7, <2>8 DEF RunStep
<1>5. CASE RunStep /\ ~(runs <= 1)
  BY <1>5, RunStepIsUnderWay DEF FirstEffect
<1> QED
  BY <1>2, <1>3, <1>4, <1>5 DEF Next, NoMoreRuns

LEMMA FirstRunInvariant == Spec => [](RunsBegin /\ OrderIsTold /\ FirstEffect)
<1>1. Init => RunsBegin /\ OrderIsTold /\ FirstEffect
  BY DEF Init, C!Init, RunsBegin, OrderIsTold, NoOrderYet, AtCall, ClosedByChoice, StageTells,
     StoppedAtOrderLookup, NoResult, FirstEffect
<1>2. /\ RunsBegin /\ OrderIsTold /\ FirstEffect
      /\ IInv /\ Stages /\ Located /\ RunTypeOK /\ [Next]_vars
      => RunsBegin' /\ OrderIsTold' /\ FirstEffect'
  BY RunsBeginStep, OrderIsToldStep, FirstEffectStep
<1> QED
  BY <1>1, <1>2, Invariant, StagesInvariant, LocatedInvariant, RunTypeInvariant, PTL DEF Spec

\* Where a demo run hands its case back: a refund was carried out exactly when
\* the execution succeeded, and the case is then closed.
LEMMA RefundIsClosed ==
    ASSUME IInv, Stages, OrderIsTold, FirstEffect, C!SafetyInv,
           pc = "idle", result # NoResult, InDemo
    PROVE  /\ Refunded <=> executionStatus = "succeeded" /\ closedAt
           /\ caseStatus = "closed" => executionStatus = "succeeded" /\ closedAt
<1> DEFINE refund == Op!IdempotencyKey(Case, "approve_refund")
<1>1. closedAt <=> caseStatus = "closed"
  BY DEF C!SafetyInv, C!ClosedAtMatchesStatus
<1>2. caseStatus = "closed" => executionStatus = "succeeded" /\ closedAt
  BY <1>1 DEF InDemo, OrderIsTold, ClosedByChoice, C!RefundOrReplacement, IInv,
     ClosedOnlyWhenExecuted, C!ApprovalIsNotExecution
<1>3. executionStatus = "succeeded" =>
         /\ disposition = "approve_refund" /\ Key = refund /\ refund \in Op!Keys
         /\ operations[Key].status = "succeeded"
  BY DEF IInv, OutcomeIsKnown, InDemo, C!ExecutableDispositions, C!RefundOrReplacement, Key,
     Op!IdempotencyKey, Op!Keys
<1>4. executionStatus = "succeeded" => effects[refund] = 1
  BY <1>3 DEF IInv, EffectsAreKnown
<1>5. executionStatus = "succeeded" => caseStatus = "closed"
  <2>1. executionStatus = "succeeded" =>
           caseStatus \in {"executing", "closed", "awaiting_external_follow_up"}
    BY DEF IInv, OutcomeIsKnown
  <2>2. caseStatus # "executing"
    BY DEF Stages, StatusIsPlaced, Committed, Executing, InCall
  <2>3. caseStatus = "awaiting_external_follow_up" => disposition = "open_carrier_inquiry"
    BY DEF Stages, StatusIsPlaced, C!SafetyInv, C!PendingFollowUpIsFiled
  <2> QED
    BY <1>3, <2>1, <2>2, <2>3
<1>6. Refunded => executionStatus = "succeeded"
  <2>1. refund \in Op!Keys /\ effects \in [Op!Keys -> Nat]
    BY DEF Op!IdempotencyKey, Op!Keys, C!ExecutableDispositions, C!RefundOrReplacement, IInv,
       StoreTyped
  <2>2. runs <= 1
    BY DEF InDemo
  <2>3. Refunded => effects[refund] # 0
    BY <2>1 DEF Refunded
  <2> QED
    BY <2>1, <2>2, <2>3 DEF FirstEffect
<1>7. executionStatus = "succeeded" => Refunded
  BY <1>4 DEF Refunded
<1> QED
  BY <1>1, <1>2, <1>5, <1>6, <1>7

\* Whatever the demo shows at the end of a run is so: a refund is shown as
\* processed exactly when it was carried out, a failure and a block are in
\* review, and an order is not found or found as the case says (demo.py 336-354).
THEOREM CustomersHearTheTruth == Spec => []CustomerIsToldTheTruth
<1>1. ASSUME IInv, Stages, RunsBegin, OrderIsTold, FirstEffect, C!SafetyInv
      PROVE  CustomerIsToldTheTruth
  <2> SUFFICES ASSUME pc = "idle", result # NoResult, InDemo
               PROVE  CustomerIsToldTheTruth
    BY DEF CustomerIsToldTheTruth
  <2>1. /\ Refunded <=> executionStatus = "succeeded" /\ closedAt
        /\ caseStatus = "closed" => executionStatus = "succeeded" /\ closedAt
    BY <1>1, RefundIsClosed
  <2>2. executionStatus = "failed" => disposition = "approve_refund" /\ caseStatus = "human_review"
    BY <1>1 DEF IInv, OutcomeIsKnown, InDemo, C!ExecutableDispositions,
       C!RefundOrReplacement, Stages, StatusIsPlaced, Committed, Executing, InCall
  <2>3. /\ caseStatus = "awaiting_customer_action" =>
             (orderRef = NoOrder <=> StoppedAtOrderLookup(result))
        /\ result.stage = "authority" => caseStatus = "human_review"
    BY <1>1 DEF OrderIsTold, StageTells, InDemo
  <2> QED
    BY <2>1, <2>2, <2>3, Zenon DEF CustomerIsToldTheTruth, Outcome
<1> QED
  BY <1>1, Invariant, StagesInvariant, FirstRunInvariant, RunsKeepTheCaseSafe, PTL

--------------------------------------------------------------------------------
(***************************************************************************)
(* No call of a run is rejected that it does not expect to be              *)
(***************************************************************************)

\* What a place of a run is the first to write has not been written.
FirstWrites ==
    /\ orderRef = NoOrder => addressMatch = "unrecorded"
    /\ pc = "report" => ~customerReport
    /\ (pc = "attach_shipment" \/ AtCall("shipment_lookup")) => shipments = {}
    /\ (\/ pc \in {"attach_shipment", "gather_evidence", "attach_evidence", "record_address"}
        \/ AtCall("shipment_lookup") \/ AtCall("carrier_evidence_lookup")
        \/ AtCall("address_comparison")) => addressMatch = "unrecorded"
    /\ (\/ pc \in {"attach_shipment", "gather_evidence", "attach_evidence", "record_address",
                   "enter_policy", "evaluate"}
        \/ AtCall("shipment_lookup") \/ AtCall("carrier_evidence_lookup")
        \/ AtCall("address_comparison")) => evaluations = <<>>

\* The execution status of the case at each place of a committed run.
ExecutionIsPlaced ==
    /\ pc \in {"authorize", "obtain", "start_execution"} => executionStatus = "not_started"
    /\ pc = "authorize" => disposition = "approve_refund"
    /\ (pc \in {"unwind", "record_execution"} \/ AtCall("execution"))
          => executionStatus = "in_progress"
    /\ pc = "route_failure" => executionStatus = "failed"

\* Where a run calls the aggregate or the registry and does not look whether the
\* call is rejected, its guard holds; and a call of a dependency can be entered.
CallsAreAccepted ==
    /\ pc = "report" => C!CanRecordCustomerReport
    /\ pc = "fail_intake" => C!CanFailIntake
    /\ pc = "request_correction" => C!CanRequestCorrection("matched")
    /\ pc = "link" => \A id \in Orders : C!CanLink("matched", [id |-> id, outcome |-> "matched"])
    /\ pc = "attach_shipment" => \A s \in C!ShipmentRef : C!CanAttachShipment(s)
    /\ pc = "gather_evidence" => C!CanTransition("evidence_gathering")
    /\ pc = "record_address" => C!CanRecordAddressMatch
    /\ pc = "enter_policy" => C!CanTransition("policy_review")
    /\ pc = "evaluate" => \A e \in C!PolicyEvaluation : C!CanRecordEvaluation(e)
    /\ pc = "select" =>
          \A d \in C!Disposition \ {"none_selected"} : C!CanSelectDisposition(d, TRUE)
    /\ pc = "authorize" => C!CanBlockRefund
    /\ pc = "start_execution" => C!CanRecordExecution("in_progress")
    /\ pc = "record_execution" => C!CanRecordExecution("succeeded") /\ C!CanRecordExecution("failed")
    /\ pc = "complete" => C!CanCompleteExecution
    /\ pc = "route_failure" => C!CanRouteFailure
    /\ (Executing /\ phase = "calling") => Op!CanFinish(Key)
    /\ (pc = "tool" /\ phase = "idle") => outcome \notin T!Failures
    /\ pc = "unwind" => phase = "calling"

LEMMA LookupWrites ==
    ASSUME FirstWrites, ExecutionIsPlaced,
           LookupAttempt \/ LookupRetry \/ LookupReturns \/ LookupStops \/ LookupRaises
    PROVE  FirstWrites' /\ ExecutionIsPlaced'
<1> USE DEF FirstWrites, ExecutionIsPlaced, AtCall, Looking, InCall, caseVars, runVars, unmoved
<1>1. pc = "tool" /\ stage # "execution" /\ UNCHANGED caseVars
  BY DEF LookupAttempt, LookupRetry, LookupReturns, LookupStops, LookupRaises
<1>2. UNCHANGED <<pc, stage>> \/ pc' = "idle" \/ AfterResult
  <2>1. CASE LookupAttempt \/ LookupRetry
    BY <2>1 DEF LookupAttempt, LookupRetry
  <2>2. CASE LookupReturns \/ LookupStops \/ LookupRaises
    BY <2>2 DEF LookupReturns, LookupStops, LookupRaises, Raise, Return
  <2> QED
    BY <2>1, <2>2
<1>3. CASE UNCHANGED <<pc, stage>> \/ pc' = "idle"
  BY <1>1, <1>3
<1>4. CASE AfterResult
  BY <1>1, <1>4 DEF AfterResult, Call, GoTo
<1> QED
  BY <1>2, <1>3, <1>4

LEMMA EarlyWrites ==
    ASSUME FirstWrites, ExecutionIsPlaced, Stages, OrderIsTold,
           \/ RecordReport \/ FailIntake \/ RequestCorrection \/ ApplyCorrection
           \/ Link \/ AttachShipment \/ GatherEvidence \/ AttachEvidence
           \/ RecordAddress \/ EnterPolicy \/ EvaluatePolicy \/ OpenReview
    PROVE  FirstWrites' /\ ExecutionIsPlaced'
<1> USE DEF FirstWrites, ExecutionIsPlaced, AtCall, Call, GoTo, Raise, Return, C!Reject, C!vars,
            C!statusVars, C!linkVars, C!evidenceVars, C!reviewVars, Stages, Unlinked
<1>1. CASE RecordReport \/ FailIntake \/ RequestCorrection
  BY <1>1 DEF RecordReport, C!RecordCustomerReport, FailIntake, C!FailIntake,
     RequestCorrection, C!RequestOrderIdentifierCorrection
<1>2. CASE ApplyCorrection
  BY <1>2 DEF ApplyCorrection, C!ApplyOrderIdentifierCorrection, C!CanApplyCorrection
<1>3. CASE Link
  BY <1>3 DEF Link, C!Link, OrderIsTold, NoOrderYet
<1>4. CASE AttachShipment \/ GatherEvidence \/ AttachEvidence
  BY <1>4 DEF AttachShipment, C!AttachShipment, GatherEvidence, C!TransitionTo,
     AttachEvidence, C!AttachCarrierEvidence
<1>5. CASE RecordAddress
  BY <1>5 DEF RecordAddress, C!RecordAddressMatchResult
<1>6. CASE EnterPolicy
  BY <1>6 DEF EnterPolicy, C!TransitionTo
<1>7. CASE EvaluatePolicy
  BY <1>7 DEF EvaluatePolicy, C!RecordPolicyEvaluation
<1>8. CASE OpenReview
  BY <1>8 DEF OpenReview, C!OpenHumanReview
<1> QED
  BY <1>1, <1>2, <1>3, <1>4, <1>5, <1>6, <1>7, <1>8

LEMMA ChoiceWrites ==
    ASSUME Stages, Decide \/ SelectDisposition PROVE FirstWrites' /\ ExecutionIsPlaced'
<1>1. orderRef # NoOrder /\ UNCHANGED orderRef
  BY DEF Decide, SelectDisposition, Stages, Unlinked, C!RecordHumanReviewDecision,
     C!SelectDisposition, C!linkVars, C!Reject, C!vars
<1>2. \/ pc' = "idle"
      \/ /\ pc' \in {"authorize", "obtain"} /\ executionStatus' = "not_started"
         /\ pc' = "authorize" => disposition' = "approve_refund"
  <2>1. ASSUME NEW d \in C!Disposition, C!ApplyDispositionPath(d), AfterDisposition,
               caseStatus' = "executing"
        PROVE  executionStatus' = "not_started"
    BY <2>1 DEF C!ApplyDispositionPath, C!NextStatus, C!NextExecution, C!Disposition,
       C!ExecutableDispositions, C!RefundOrReplacement, C!CustomerActionDispositions
  <2>2. AfterDisposition =>
           \/ pc' = "idle"
           \/ /\ pc' \in {"authorize", "obtain"} /\ caseStatus' = "executing"
              /\ pc' = "authorize" => disposition' = "approve_refund"
    BY DEF AfterDisposition, GoTo, Return
  <2>3. CASE Decide
    BY <2>1, <2>2, <2>3 DEF Decide, C!RecordHumanReviewDecision, C!ReviewDecision, Raise
  <2>4. CASE SelectDisposition
    BY <2>1, <2>2, <2>4 DEF SelectDisposition, C!SelectDisposition
  <2> QED
    BY <2>3, <2>4
<1> QED
  BY <1>1, <1>2 DEF FirstWrites, ExecutionIsPlaced, AtCall

LEMMA CommittedWrites ==
    ASSUME ExecutionIsPlaced, Stages,
           \/ GrantAuthority \/ BlockForAuthority \/ AuthorityRaises
           \/ ObtainOperation \/ StartExecution \/ ExecutionAttempt \/ Unwind
           \/ ExecutionRefused \/ ExecutionReturns \/ ExecutionErrs \/ ExecutionRaises
           \/ RecordExecution \/ CompleteExecution \/ RouteFailure
    PROVE  FirstWrites' /\ ExecutionIsPlaced'
<1>1. orderRef # NoOrder /\ UNCHANGED orderRef
  BY DEF Stages, Unlinked, Executing, InCall, GrantAuthority, BlockForAuthority,
     AuthorityRaises, ObtainOperation, StartExecution, ExecutionAttempt, Unwind,
     ExecutionRefused, ExecutionReturns, ExecutionErrs, ExecutionRaises, RecordExecution,
     CompleteExecution, RouteFailure, caseVars, C!BlockRefundExecutionForAuthority,
     C!RecordExecutionStatus, C!CompleteExecution, C!RouteExecutionFailureToReview, C!linkVars
<1> USE DEF FirstWrites, ExecutionIsPlaced, AtCall, GoTo, Call, Raise, Return, Executing, InCall,
            caseVars, unmoved
<1>2. CASE GrantAuthority \/ BlockForAuthority \/ AuthorityRaises \/ ObtainOperation
  BY <1>1, <1>2 DEF GrantAuthority, BlockForAuthority, AuthorityRaises, ObtainOperation
<1>3. CASE StartExecution
  BY <1>1, <1>3 DEF StartExecution, C!RecordExecutionStatus
<1>4. CASE ExecutionAttempt \/ Unwind \/ ExecutionRefused
  BY <1>1, <1>4 DEF ExecutionAttempt, Unwind, ExecutionRefused
<1>5. CASE ExecutionReturns \/ ExecutionErrs \/ ExecutionRaises
  BY <1>1, <1>5 DEF ExecutionReturns, ExecutionErrs, ExecutionRaises
<1>6. CASE RecordExecution
  BY <1>1, <1>6 DEF RecordExecution, C!RecordExecutionStatus
<1>7. CASE CompleteExecution \/ RouteFailure
  BY <1>1, <1>7 DEF CompleteExecution, RouteFailure
<1> QED
  BY <1>2, <1>3, <1>4, <1>5, <1>6, <1>7

LEMMA WritesInvariant == Spec => [](FirstWrites /\ ExecutionIsPlaced)
<1>1. Init => FirstWrites /\ ExecutionIsPlaced
  BY DEF Init, C!Init, FirstWrites, ExecutionIsPlaced, AtCall
<1>2. ASSUME FirstWrites, ExecutionIsPlaced, Stages, OrderIsTold, [Next]_vars
      PROVE  FirstWrites' /\ ExecutionIsPlaced'
  <2>1. CASE UNCHANGED vars \/ BeginCall
    BY <1>2, <2>1 DEF vars, BeginCall, caseVars, runVars, FirstWrites, ExecutionIsPlaced, AtCall
  <2>2. CASE NewRun \/ NewCorrection
    BY <1>2, <2>2 DEF NewRun, NewCorrection, Correctable, Call, caseVars, FirstWrites,
       ExecutionIsPlaced, AtCall
  <2> QED
    BY <1>2, <2>1, <2>2, LookupWrites, EarlyWrites, ChoiceWrites, CommittedWrites
       DEF Next, RunStep, NoMoreRuns
<1> QED
  BY <1>1, <1>2, StagesInvariant, FirstRunInvariant, PTL DEF Spec

\* The orchestrator never makes a call that raises TransitionRejected or
\* ValueError except where it is ready for it: a correction, a piece of evidence,
\* a review and its decision, and an attempt on an operation in progress
\* (workflow.py 816-1525).
THEOREM NoCallIsRejected == Spec => []CallsAreAccepted
<1>1. ASSUME IInv, Stages, Located, OrderIsTold, FirstWrites, ExecutionIsPlaced
      PROVE  CallsAreAccepted
  <2> USE <1>1
  <2>1. /\ pc = "report" => C!CanRecordCustomerReport
        /\ pc = "fail_intake" => C!CanFailIntake
        /\ pc = "request_correction" => C!CanRequestCorrection("matched")
        /\ pc = "link" =>
              \A id \in Orders : C!CanLink("matched", [id |-> id, outcome |-> "matched"])
    BY DEF FirstWrites, Located, StatusOfThePlace, OrderIsTold, NoOrderYet,
       C!CanRecordCustomerReport, C!CanFailIntake, C!CanRequestCorrection, C!CanLink
  <2>2. /\ pc = "attach_shipment" => \A s \in C!ShipmentRef : C!CanAttachShipment(s)
        /\ pc = "record_address" => C!CanRecordAddressMatch
        /\ pc = "evaluate" => \A e \in C!PolicyEvaluation : C!CanRecordEvaluation(e)
    BY DEF FirstWrites, Located, StatusOfThePlace, C!CanAttachShipment, C!CanRecordAddressMatch,
       C!CanRecordEvaluation
  <2>3. /\ pc = "gather_evidence" => C!CanTransition("evidence_gathering")
        /\ pc = "enter_policy" => C!CanTransition("policy_review")
    BY DEF Located, StatusOfThePlace, C!CanTransition, C!SimpleTransitions, C!CaseStatus
  <2>4. pc = "select" =>
           \A d \in C!Disposition \ {"none_selected"} : C!CanSelectDisposition(d, TRUE)
    BY DEF Located, StatusOfThePlace, C!CanSelectDisposition, C!CanSelect
  <2>5. /\ pc = "authorize" => C!CanBlockRefund
        /\ pc = "start_execution" => C!CanRecordExecution("in_progress")
        /\ pc = "record_execution" =>
              C!CanRecordExecution("succeeded") /\ C!CanRecordExecution("failed")
        /\ pc = "route_failure" => C!CanRouteFailure
    BY DEF Located, CommitmentIsKnown, Committed, ExecutionIsPlaced, C!CanBlockRefund,
       C!CanRecordExecution, C!ExecutionProgressions, C!ExecutionStatus, C!CanRouteFailure
  <2>6. pc = "complete" => C!CanCompleteExecution
    BY DEF Located, CommitmentIsKnown, Committed, IInv, CommittedIsAuthorized,
       C!CanCompleteExecution
  <2>7. /\ (Executing /\ phase = "calling") => Op!CanFinish(Key)
        /\ (pc = "tool" /\ phase = "idle") => outcome \notin T!Failures
        /\ pc = "unwind" => phase = "calling"
    BY DEF IInv, AttemptIsFresh, CallsAreAwaited, Op!CanFinish, Stages, OutcomeIsPlaced,
       T!Failures
  <2> QED
    BY <2>1, <2>2, <2>3, <2>4, <2>5, <2>6, <2>7 DEF CallsAreAccepted
<1> QED
  BY <1>1, Invariant, StagesInvariant, LocatedInvariant, FirstRunInvariant, WritesInvariant, PTL

--------------------------------------------------------------------------------
(***************************************************************************)
(* What a run that raised leaves behind                                    *)
(***************************************************************************)

\* The authority is asked for once an order is linked and a refund is chosen.
AuthorityIsUnasked ==
    /\ (pc # "idle" /\ ~Committed) \/ pc = "authorize" => authority = "unasked"
    /\ orderRef = NoOrder => authority = "unasked"

\* A run executes an operation the registry has, and raises over one in progress.
OperationIsKnown ==
    /\ pc = "start_execution" \/ Executing => operations[Key].status # "absent"
    /\ pc = "unwind" => operations[Key].status = "in_progress"

Abandoned ==
    /\ AuthorityIsUnasked /\ OperationIsKnown
    /\ pc = "idle" => AbandonedCaseIsUndecided

\* A run hands nothing back only where it raises.
LEMMA WhereRunsRaise ==
    ASSUME Stages, RunTypeOK, RunStep, pc' = "idle", result' = NoResult
    PROVE  \/ LookupRaises \/ AuthorityRaises \/ Unwind \/ ExecutionRaises
           \/ /\ pc \in {"apply_correction", "attach_evidence", "open_review", "decide"}
              /\ C!Reject /\ UNCHANGED notCase
<1>1. /\ Completed # NoResult
      /\ \A s, cause : cause # "none" => StoppedAt(s, cause) # NoResult
  BY DEF Completed, NoResult, StoppedAt
<1> USE DEF GoTo, Call, Return
<1>2. CASE BeginCall \/ LookupAttempt \/ LookupRetry \/ ExecutionAttempt
  BY <1>2 DEF BeginCall, LookupAttempt, LookupRetry, ExecutionAttempt, runVars, Looking,
     Executing, InCall
<1>3. CASE LookupReturns \/ LookupStops
  <2>1. outcome' # "none"
    BY <1>3 DEF LookupReturns, LookupStops, T!Return, T!AttemptRefused, T!FailForGood,
       T!ExhaustRetries, T!RetryRefused, T!End
  <2> QED
    BY <1>1, <1>3, <2>1 DEF LookupReturns, LookupStops, AfterResult
<1>4. CASE \/ RecordReport \/ FailIntake \/ RequestCorrection \/ Link \/ AttachShipment
           \/ GatherEvidence \/ RecordAddress \/ EnterPolicy \/ EvaluatePolicy
  BY <1>1, <1>4 DEF RecordReport, FailIntake, RequestCorrection, Link, AttachShipment,
     GatherEvidence, RecordAddress, EnterPolicy, EvaluatePolicy
<1>5. CASE ApplyCorrection \/ AttachEvidence \/ OpenReview
  BY <1>1, <1>5 DEF ApplyCorrection, AttachEvidence, OpenReview
<1>6. CASE Decide \/ SelectDisposition
  BY <1>1, <1>6 DEF Decide, SelectDisposition, AfterDisposition
<1>7. CASE GrantAuthority \/ BlockForAuthority \/ ObtainOperation \/ StartExecution
  BY <1>1, <1>7 DEF GrantAuthority, BlockForAuthority, ObtainOperation, StartExecution
<1>8. CASE ExecutionRefused \/ ExecutionReturns \/ ExecutionErrs \/ RecordExecution
  BY <1>8 DEF ExecutionRefused, ExecutionReturns, ExecutionErrs, RecordExecution
<1>9. CASE CompleteExecution \/ RouteFailure
  <2>1. outcome # "none"
    BY <1>9 DEF CompleteExecution, RouteFailure, Stages, OutcomeIsPlaced, RunTypeOK, Cause
  <2> QED
    BY <1>1, <1>9, <2>1 DEF CompleteExecution, RouteFailure
<1> QED
  BY <1>2, <1>3, <1>4, <1>5, <1>6, <1>7, <1>8, <1>9 DEF RunStep

\* Wherever it raises, the case stands where a decision or an outcome is awaited.
LEMMA RaisingLeavesUndecided ==
    ASSUME IInv, Stages, Located, RunTypeOK, ExecutionIsPlaced, AuthorityIsUnasked,
           OperationIsKnown, RunStep, pc' = "idle", result' = NoResult
    PROVE  AbandonedCaseIsUndecided'
<1>1. CASE LookupRaises
  <2>1. /\ pc = "tool" /\ stage \in ToolStage \ {"execution"} /\ UNCHANGED caseVars
    BY <1>1 DEF LookupRaises, Looking, InCall, RunTypeOK, PlaceIsKnown
  <2>2. /\ caseStatus \in {"intake", "awaiting_customer_action", "linked",
                           "evidence_gathering", "human_review"}
        /\ disposition = "none_selected" /\ executionStatus = "not_applicable"
    BY <2>1 DEF ToolStage, Located, StatusOfThePlace, CommitmentIsKnown, AtCall, Committed,
       Executing, Stages, StatusIsPlaced
  <2> QED
    BY <2>1, <2>2 DEF caseVars, AbandonedCaseIsUndecided
<1>2. CASE /\ pc \in {"apply_correction", "attach_evidence", "open_review", "decide"}
           /\ C!Reject /\ UNCHANGED notCase
  <2>1. /\ caseStatus \in {"awaiting_customer_action", "evidence_gathering", "human_review"}
        /\ disposition = "none_selected" /\ executionStatus = "not_applicable"
    BY <1>2 DEF Located, StatusOfThePlace, CommitmentIsKnown, Committed, Executing, InCall,
       Stages, StatusIsPlaced
  <2> QED
    BY <1>2, <2>1 DEF C!Reject, C!vars, C!statusVars, AbandonedCaseIsUndecided
<1>3. CASE AuthorityRaises
  <2>1. /\ caseStatus = "executing" /\ executionStatus = "not_started"
        /\ disposition = "approve_refund" /\ authority = "unasked"
    BY <1>3 DEF AuthorityRaises, Located, CommitmentIsKnown, Committed, ExecutionIsPlaced,
       AuthorityIsUnasked
  <2> QED
    BY <1>3, <2>1 DEF AuthorityRaises, caseVars, notCase, unmoved, AbandonedCaseIsUndecided
<1>4. CASE Unwind \/ ExecutionRaises
  <2>1. UNCHANGED <<caseVars, operations>> /\ (pc = "unwind" \/ (Executing /\ phase = "calling"))
    BY <1>4 DEF Unwind, ExecutionRaises, T!Propagate
  <2>2. operations[Key].status = "in_progress"
    BY <2>1 DEF OperationIsKnown, IInv, AttemptIsFresh
  <2>3. caseStatus = "executing" /\ executionStatus = "in_progress"
    BY <2>1 DEF Located, CommitmentIsKnown, Committed, ExecutionIsPlaced, AtCall, Executing,
       InCall
  <2> QED
    BY <2>1, <2>2, <2>3 DEF caseVars, Key, AbandonedCaseIsUndecided
<1> QED
  BY <1>1, <1>2, <1>3, <1>4, WhereRunsRaise

LEMMA AuthorityIsUnaskedStep ==
    ASSUME Stages, AuthorityIsUnasked, [Next]_vars PROVE AuthorityIsUnasked'
<1> USE DEF AuthorityIsUnasked, Committed, Executing, InCall
<1>1. CASE UNCHANGED vars
  BY <1>1 DEF vars, caseVars, runVars
<1>2. CASE NewRun \/ NewCorrection
  BY <1>2 DEF NewRun, NewCorrection, Correctable, Call, caseVars
<1>3. CASE /\ pc # "idle" /\ UNCHANGED authority
           /\ orderRef' = NoOrder => orderRef = NoOrder
           /\ Committed => pc' = "idle" \/ (Committed' /\ pc' # "authorize")
  BY <1>3
<1>4. CASE GrantAuthority
  BY <1>4 DEF GrantAuthority, GoTo, caseVars, Stages, Unlinked
<1>5. CASE BeginCall \/ LookupAttempt \/ LookupRetry \/ LookupReturns \/ LookupStops \/ LookupRaises
  BY <1>3, <1>5 DEF BeginCall, LookupAttempt, LookupRetry, LookupReturns, LookupStops,
     LookupRaises, Looking, caseVars, runVars, unmoved
<1>6. CASE \/ RecordReport \/ FailIntake \/ RequestCorrection \/ ApplyCorrection
           \/ Link \/ AttachShipment \/ GatherEvidence \/ AttachEvidence
           \/ RecordAddress \/ EnterPolicy \/ EvaluatePolicy \/ OpenReview
  BY <1>3, <1>6 DEF RecordReport, C!RecordCustomerReport, FailIntake, C!FailIntake,
     RequestCorrection, C!RequestOrderIdentifierCorrection, ApplyCorrection,
     C!ApplyOrderIdentifierCorrection, Link, C!Link, AttachShipment, C!AttachShipment,
     GatherEvidence, EnterPolicy, C!TransitionTo, AttachEvidence, C!AttachCarrierEvidence,
     RecordAddress, C!RecordAddressMatchResult, EvaluatePolicy, C!RecordPolicyEvaluation,
     OpenReview, C!OpenHumanReview, C!Reject, C!vars, C!linkVars, C!OrderRef,
     NoOrderAssumption, notCase, unmoved
<1>7. CASE Decide \/ SelectDisposition
  BY <1>7 DEF Decide, SelectDisposition, C!RecordHumanReviewDecision, C!SelectDisposition,
     C!Reject, C!vars, C!linkVars, notCase, unmoved
<1>8. CASE \/ BlockForAuthority \/ AuthorityRaises \/ ObtainOperation \/ StartExecution
           \/ ExecutionAttempt \/ Unwind \/ ExecutionRefused \/ ExecutionReturns
           \/ ExecutionErrs \/ ExecutionRaises \/ RecordExecution \/ CompleteExecution
           \/ RouteFailure
  BY <1>3, <1>8 DEF BlockForAuthority, C!BlockRefundExecutionForAuthority, AuthorityRaises,
     ObtainOperation, StartExecution, C!RecordExecutionStatus, ExecutionAttempt, Unwind,
     ExecutionRefused, ExecutionReturns, ExecutionErrs, ExecutionRaises, RecordExecution,
     CompleteExecution, C!CompleteExecution, RouteFailure, C!RouteExecutionFailureToReview,
     C!linkVars, caseVars, notCase, unmoved, GoTo, Call, Raise, Return
<1> QED
  BY <1>1, <1>2, <1>4, <1>5, <1>6, <1>7, <1>8 DEF Next, RunStep, NoMoreRuns

LEMMA OperationIsKnownStep ==
    ASSUME IInv, Stages, OperationIsKnown, [Next]_vars PROVE OperationIsKnown'
<1> USE DEF OperationIsKnown, Executing, InCall
<1>1. CASE UNCHANGED vars
  BY <1>1 DEF vars, caseVars, runVars, Key
<1>2. CASE pc' \notin {"start_execution", "unwind"} /\ ~Executing'
  BY <1>2
<1>3. CASE NewRun \/ NewCorrection \/ RecordReport \/ FailIntake \/ RequestCorrection
           \/ ApplyCorrection \/ Link \/ AttachShipment \/ GatherEvidence \/ AttachEvidence
           \/ RecordAddress \/ EnterPolicy \/ EvaluatePolicy \/ OpenReview \/ Decide
           \/ SelectDisposition \/ GrantAuthority \/ BlockForAuthority \/ AuthorityRaises
  BY <1>2, <1>3 DEF NewRun, NewCorrection, RecordReport, FailIntake, RequestCorrection,
     ApplyCorrection, Link, AttachShipment, GatherEvidence, AttachEvidence, RecordAddress,
     EnterPolicy, EvaluatePolicy, OpenReview, Decide, SelectDisposition, AfterDisposition,
     GrantAuthority, BlockForAuthority, AuthorityRaises, GoTo, Call, Return, Raise
<1>4. CASE LookupAttempt \/ LookupRetry \/ LookupReturns \/ LookupStops \/ LookupRaises
  BY <1>2, <1>4 DEF LookupAttempt, LookupRetry, LookupReturns, LookupStops, LookupRaises,
     Looking, AfterResult, GoTo, Call, Return, Raise, runVars
<1>5. CASE Unwind \/ ExecutionRefused \/ ExecutionReturns \/ ExecutionRaises
           \/ RecordExecution \/ CompleteExecution \/ RouteFailure
  BY <1>2, <1>5 DEF Unwind, ExecutionRefused, ExecutionReturns, ExecutionRaises,
     RecordExecution, CompleteExecution, RouteFailure, GoTo, Return, Raise
<1>6. CASE BeginCall
  BY <1>6 DEF BeginCall, caseVars, runVars, Key
<1>7. ASSUME ObtainOperation \/ StartExecution \/ ExecutionAttempt \/ ExecutionErrs
      PROVE  Committed /\ Key \in Op!Keys
  BY <1>7, CommittedHasAKey DEF ObtainOperation, StartExecution, ExecutionAttempt,
     ExecutionErrs, Committed
<1>8. CASE ObtainOperation
  <2>1. Key' = Key /\ pc' = "start_execution"
    BY <1>8 DEF ObtainOperation, GoTo, caseVars, Key
  <2>2. operations'[Key].status # "absent"
    BY <1>7, <1>8 DEF ObtainOperation, Op!GetOrCreate, Op!IsCreated, IInv, StoreTyped
  <2> QED
    BY <2>1, <2>2
<1>9. CASE StartExecution
  BY <1>9 DEF StartExecution, C!RecordExecutionStatus, notCase, GoTo, Call, Key
<1>10. CASE ExecutionAttempt
  <2>1. Key' = Key /\ pc' \in {"tool", "unwind"} /\ stage' = stage
    BY <1>10 DEF ExecutionAttempt, caseVars, Key
  <2>2. CASE Op!StartAttempt(Key) /\ UNCHANGED pc
    <3>1. operations'[Key].status = "in_progress"
      BY <1>7, <1>10, <2>2 DEF Op!StartAttempt, IInv, StoreTyped
    <3> QED
      BY <2>1, <3>1
  <2>3. CASE ~Op!CanStartAttempt(Key) /\ UNCHANGED operations /\ pc' = "unwind"
    <3>1. operations[Key].status \in Op!OperationStatus \cup {"absent"}
      BY <1>7, <1>10 DEF IInv, StoreTyped
    <3>2. operations[Key].status = "in_progress"
      BY <1>10, <2>3, <3>1 DEF ExecutionAttempt, Op!CanStartAttempt, Op!OperationStatus,
         Stages, OutcomeIsPlaced
    <3> QED
      BY <2>1, <2>3, <3>2
  <2> QED
    BY <1>10, <2>2, <2>3 DEF ExecutionAttempt
<1>11. CASE ExecutionErrs
  <2>1. Key' = Key /\ pc' \in {"tool", "record_execution"}
    BY <1>11 DEF ExecutionErrs, GoTo, caseVars, Key
  <2>2. operations'[Key].status = "failed"
    BY <1>7, <1>11 DEF ExecutionErrs, Op!RecordFailure, Op!Finish, IInv, StoreTyped
  <2> QED
    BY <2>1, <2>2
<1> QED
  BY <1>1, <1>3, <1>4, <1>5, <1>6, <1>8, <1>9, <1>10, <1>11 DEF Next, RunStep, NoMoreRuns

LEMMA AbandonedStep ==
    ASSUME IInv, Stages, Located, RunTypeOK, ExecutionIsPlaced, Abandoned, [Next]_vars
    PROVE  Abandoned'
<1>1. AuthorityIsUnasked' /\ OperationIsKnown'
  BY AuthorityIsUnaskedStep, OperationIsKnownStep DEF Abandoned
<1>2. ASSUME pc' = "idle" PROVE AbandonedCaseIsUndecided'
  <2>1. CASE UNCHANGED vars
    BY <1>2, <2>1 DEF Abandoned, AbandonedCaseIsUndecided, vars, caseVars, runVars, Key
  <2>2. CASE NewRun \/ NewCorrection
    BY <1>2, <2>2 DEF NewRun, NewCorrection, Call
  <2>3. CASE RunStep
    <3>1. CASE result' = NoResult
      BY <1>2, <2>3, <3>1, RaisingLeavesUndecided DEF Abandoned
    <3>2. CASE result' # NoResult
      BY <3>2 DEF AbandonedCaseIsUndecided, NoResult
    <3> QED
      BY <3>1, <3>2
  <2> QED
    BY <2>1, <2>2, <2>3 DEF Next, NoMoreRuns
<1> QED
  BY <1>1, <1>2 DEF Abandoned

LEMMA AbandonedInvariant == Spec => []Abandoned
<1>1. Init => Abandoned
  BY DEF Init, C!Init, Abandoned, AuthorityIsUnasked, OperationIsKnown,
     AbandonedCaseIsUndecided, Committed, Executing, InCall
<1>2. IInv /\ Stages /\ Located /\ RunTypeOK /\ ExecutionIsPlaced /\ Abandoned /\ [Next]_vars
        => Abandoned'
  BY AbandonedStep
<1> QED
  BY <1>1, <1>2, Invariant, StagesInvariant, LocatedInvariant, RunTypeInvariant,
     WritesInvariant, PTL DEF Spec

\* A run that hands back a result leaves its case where it can be moved, and one
\* that raises leaves it undecided, with nothing done that the registry does not
\* know of (workflow.py 594-614, 1228-1271, 1393).
THEOREM CasesCanGoOn == Spec => []NoCaseIsStranded
<1>1. ASSUME Stages, pc = "idle", result # NoResult, caseStatus # "closed"
      PROVE  /\ caseStatus \notin {"policy_review", "disposition_selection", "executing"}
             /\ \/ \E s \in C!CaseStatus : C!CanTransition(s)
                \/ C!CanFailIntake
                \/ \E answer \in C!FollowUpResults : C!CanRecordFollowUp(answer)
  <2>1. /\ caseStatus \in C!CaseStatus
        /\ caseStatus \notin {"policy_review", "disposition_selection", "executing"}
        /\ caseStatus = "awaiting_external_follow_up" => followUpStatus = "pending"
    BY <1>1 DEF Stages, StatusIsPlaced, Committed, Executing, InCall
  <2>2. CASE caseStatus = "intake"
    BY <2>2 DEF C!CanFailIntake
  <2>3. CASE caseStatus = "awaiting_external_follow_up"
    BY <2>1, <2>3 DEF C!CanRecordFollowUp, C!FollowUpResults
  <2>4. CASE caseStatus = "intake_failed"
    BY <2>4 DEF C!CanTransition, C!SimpleTransitions, C!CaseStatus
  <2>5. CASE caseStatus = "linked"
    BY <2>5 DEF C!CanTransition, C!SimpleTransitions, C!CaseStatus
  <2>6. CASE caseStatus = "evidence_gathering"
    BY <2>6 DEF C!CanTransition, C!SimpleTransitions, C!CaseStatus
  <2>7. CASE caseStatus = "awaiting_customer_action"
    BY <2>7 DEF C!CanTransition, C!SimpleTransitions, C!CaseStatus
  <2>8. CASE caseStatus = "human_review"
    BY <2>8 DEF C!CanTransition, C!SimpleTransitions, C!CaseStatus
  <2> QED
    BY <1>1, <2>1, <2>2, <2>3, <2>4, <2>5, <2>6, <2>7, <2>8 DEF C!CaseStatus
<1>2. Stages /\ Abandoned => NoCaseIsStranded
  BY <1>1 DEF NoCaseIsStranded, ReturnedCaseGoesOn, Abandoned
<1> QED
  BY <1>2, StagesInvariant, AbandonedInvariant, PTL

--------------------------------------------------------------------------------
(***************************************************************************)
(* Reviews                                                                 *)
(***************************************************************************)

\* A review is opened of a case that was evaluated, and requests come after that.
ReviewsFollowEvaluation ==
    /\ (pc \in {"open_review", "decide"} \/ AtCall("human_review")) => evaluations # <<>>
    /\ evaluations = <<>> => requests = {}

ReviewsAreOnTheLastEvaluation == \A r \in requests : r.policies \subseteq C!LatestUnresolved

LEMMA ReviewsFollowStep ==
    ASSUME FirstWrites, ReviewsFollowEvaluation, [Next]_vars PROVE ReviewsFollowEvaluation'
<1> USE DEF ReviewsFollowEvaluation, AtCall
<1>1. CASE UNCHANGED vars
  BY <1>1 DEF vars, caseVars, runVars
<1>2. CASE NewRun \/ NewCorrection
  BY <1>2 DEF NewRun, NewCorrection, Call, caseVars
<1>3. CASE /\ UNCHANGED <<evaluations, requests>>
           /\ pc' \notin {"tool", "open_review", "decide"} \/ (pc' = "tool" /\ stage' # "human_review")
  BY <1>3
<1>4. CASE \/ BeginCall \/ LookupAttempt \/ LookupRetry \/ LookupReturns \/ LookupStops
           \/ LookupRaises
  BY <1>4 DEF BeginCall, LookupAttempt, LookupRetry, LookupReturns, LookupStops, LookupRaises,
     AfterResult, Looking, InCall, GoTo, Call, Return, Raise, caseVars, runVars
<1>5. CASE \/ RecordReport \/ FailIntake \/ RequestCorrection \/ ApplyCorrection
           \/ Link \/ AttachShipment \/ GatherEvidence \/ AttachEvidence
           \/ RecordAddress \/ EnterPolicy
  BY <1>3, <1>5 DEF RecordReport, C!RecordCustomerReport, FailIntake, C!FailIntake,
     RequestCorrection, C!RequestOrderIdentifierCorrection, ApplyCorrection,
     C!ApplyOrderIdentifierCorrection, Link, C!Link, AttachShipment, C!AttachShipment,
     GatherEvidence, EnterPolicy, C!TransitionTo, AttachEvidence, C!AttachCarrierEvidence,
     RecordAddress, C!RecordAddressMatchResult, C!Reject, C!vars, C!reviewVars,
     GoTo, Call, Return, Raise
<1>6. CASE EvaluatePolicy
  <2>1. PICK record \in C!EvaluationRecord : evaluations' = Append(evaluations, record)
    BY <1>6 DEF EvaluatePolicy, C!RecordPolicyEvaluation, C!EvaluationRecord
  <2>2. evaluations = <<>> /\ evaluations \in Seq(C!EvaluationRecord)
    BY <1>6 DEF EvaluatePolicy, FirstWrites
  <2>3. evaluations' # <<>>
    BY <2>1, <2>2
  <2> QED
    BY <1>6, <2>3 DEF EvaluatePolicy, C!RecordPolicyEvaluation
<1>7. CASE OpenReview
  BY <1>7 DEF OpenReview, C!OpenHumanReview, C!Reject, C!vars, C!reviewVars, GoTo, Raise
<1>8. CASE Decide \/ SelectDisposition
  BY <1>3, <1>8 DEF Decide, SelectDisposition, AfterDisposition, C!RecordHumanReviewDecision,
     C!SelectDisposition, C!Reject, C!vars, C!reviewVars, GoTo, Return, Raise
<1>9. CASE \/ GrantAuthority \/ BlockForAuthority \/ AuthorityRaises \/ ObtainOperation
           \/ StartExecution \/ ExecutionAttempt \/ Unwind \/ ExecutionRefused
           \/ ExecutionReturns \/ ExecutionErrs \/ ExecutionRaises \/ RecordExecution
           \/ CompleteExecution \/ RouteFailure
  BY <1>3, <1>9 DEF GrantAuthority, BlockForAuthority, C!BlockRefundExecutionForAuthority,
     AuthorityRaises, ObtainOperation, StartExecution, C!RecordExecutionStatus,
     ExecutionAttempt, Unwind, ExecutionRefused, ExecutionReturns, ExecutionErrs,
     ExecutionRaises, RecordExecution, CompleteExecution, C!CompleteExecution, RouteFailure,
     C!RouteExecutionFailureToReview, C!reviewVars, caseVars, Executing, InCall, GoTo, Call,
     Return, Raise
<1> QED
  BY <1>1, <1>2, <1>4, <1>5, <1>6, <1>7, <1>8, <1>9 DEF Next, RunStep, NoMoreRuns

\* What a step does to the requests, and where it evaluates.
LEMMA RequestsStep ==
    ASSUME [Next]_vars
    PROVE  \/ UNCHANGED <<evaluations, requests>>
           \/ requests' = {}
           \/ pc = "evaluate" /\ UNCHANGED requests
           \/ \E request \in C!ReviewRequest : C!OpenHumanReview(request)
<1>1. CASE UNCHANGED vars \/ NewRun \/ NewCorrection
  BY <1>1 DEF vars, caseVars, NewRun, NewCorrection
<1>2. CASE \/ BeginCall \/ LookupAttempt \/ LookupRetry \/ LookupReturns \/ LookupStops
           \/ LookupRaises
  BY <1>2 DEF BeginCall, LookupAttempt, LookupRetry, LookupReturns, LookupStops, LookupRaises,
     caseVars
<1>3. CASE \/ RecordReport \/ FailIntake \/ RequestCorrection \/ ApplyCorrection
           \/ Link \/ AttachShipment \/ GatherEvidence \/ AttachEvidence
           \/ RecordAddress \/ EnterPolicy
  BY <1>3 DEF RecordReport, C!RecordCustomerReport, FailIntake, C!FailIntake,
     RequestCorrection, C!RequestOrderIdentifierCorrection, ApplyCorrection,
     C!ApplyOrderIdentifierCorrection, Link, C!Link, AttachShipment, C!AttachShipment,
     GatherEvidence, EnterPolicy, C!TransitionTo, AttachEvidence, C!AttachCarrierEvidence,
     RecordAddress, C!RecordAddressMatchResult, C!Reject, C!vars, C!reviewVars
<1>4. CASE EvaluatePolicy \/ OpenReview
  BY <1>4 DEF EvaluatePolicy, C!RecordPolicyEvaluation, OpenReview, C!Reject, C!vars,
     C!reviewVars
<1>5. CASE Decide \/ SelectDisposition
  BY <1>5 DEF Decide, SelectDisposition, C!RecordHumanReviewDecision, C!SelectDisposition,
     C!Reject, C!vars, C!reviewVars
<1>6. CASE \/ GrantAuthority \/ BlockForAuthority \/ AuthorityRaises \/ ObtainOperation
           \/ StartExecution \/ ExecutionAttempt \/ Unwind \/ ExecutionRefused
           \/ ExecutionReturns \/ ExecutionErrs \/ ExecutionRaises \/ RecordExecution
           \/ CompleteExecution \/ RouteFailure
  BY <1>6 DEF GrantAuthority, BlockForAuthority, C!BlockRefundExecutionForAuthority,
     AuthorityRaises, ObtainOperation, StartExecution, C!RecordExecutionStatus,
     ExecutionAttempt, Unwind, ExecutionRefused, ExecutionReturns, ExecutionErrs,
     ExecutionRaises, RecordExecution, CompleteExecution, C!CompleteExecution, RouteFailure,
     C!RouteExecutionFailureToReview, C!reviewVars, caseVars
<1> QED
  BY <1>1, <1>2, <1>3, <1>4, <1>5, <1>6 DEF Next, RunStep, NoMoreRuns

\* The aggregate lets a review be decided on policies that a newer evaluation has
\* settled (domain.py 834 compares only the identifier).  The orchestrator leaves
\* no review behind in that way: every request of its case is on the policies that
\* the last evaluation left unresolved.
THEOREM ReviewsAreCurrent == Spec => []ReviewsAreOnTheLastEvaluation
<1> USE DEF ReviewsAreOnTheLastEvaluation, ReviewsFollowEvaluation
<1>1. Init => ReviewsFollowEvaluation /\ ReviewsAreOnTheLastEvaluation
  BY DEF Init, C!Init, AtCall
<1>2. ASSUME FirstWrites, ReviewsFollowEvaluation, ReviewsAreOnTheLastEvaluation, [Next]_vars
      PROVE  ReviewsFollowEvaluation' /\ ReviewsAreOnTheLastEvaluation'
  <2>1. ReviewsFollowEvaluation'
    BY <1>2, ReviewsFollowStep
  <2>2. CASE UNCHANGED <<evaluations, requests>>
    BY <1>2, <2>1, <2>2 DEF C!LatestUnresolved
  <2>3. CASE requests' = {}
    BY <2>1, <2>3
  <2>4. CASE pc = "evaluate" /\ UNCHANGED requests
    BY <1>2, <2>1, <2>4 DEF FirstWrites
  <2>5. ASSUME NEW request \in C!ReviewRequest, C!OpenHumanReview(request)
        PROVE  ReviewsAreOnTheLastEvaluation'
    <3>1. /\ UNCHANGED evaluations /\ requests' = requests \cup {request}
          /\ request.policies \subseteq C!LatestUnresolved
      BY <2>5 DEF C!OpenHumanReview, C!CanOpenReview
    <3> QED
      BY <1>2, <3>1 DEF C!LatestUnresolved
  <2> QED
    BY <1>2, <2>1, <2>2, <2>3, <2>4, <2>5, RequestsStep
<1> QED
  BY <1>1, <1>2, WritesInvariant, PTL DEF Spec

--------------------------------------------------------------------------------
(***************************************************************************)
(* Every step of a run brings it nearer to its end                         *)
(***************************************************************************)

\* Where a run is: the dependency it calls, or the next thing it does.
Place == IF pc = "tool" THEN stage ELSE pc

\* At most so many places of a run follow.
PlacesAhead(place) ==
    CASE place = "report" -> 22
      [] place = "customer_lookup" -> 21
      [] place = "order_lookup" -> 20
      [] place \in {"link", "apply_correction", "request_correction", "fail_intake"} -> 19
      [] place = "shipment_lookup" -> 18
      [] place = "attach_shipment" -> 17
      [] place = "gather_evidence" -> 16
      [] place = "carrier_evidence_lookup" -> 15
      [] place = "attach_evidence" -> 14
      [] place = "address_comparison" -> 13
      [] place = "record_address" -> 12
      [] place = "enter_policy" -> 11
      [] place = "evaluate" -> 10
      [] place = "human_review" -> 9
      [] place = "open_review" -> 8
      [] place \in {"decide", "select"} -> 7
      [] place = "authorize" -> 6
      [] place = "obtain" -> 5
      [] place = "start_execution" -> 4
      [] place = "execution" -> 3
      [] place \in {"unwind", "record_execution"} -> 2
      [] place \in {"complete", "route_failure"} -> 1
      [] OTHER -> 0

\* A call is entered, and each attempt is begun and ends.
StepsOfACall == 2 * MaxAttempts + 2

CallStepsAhead ==
    CASE pc = "tool" /\ phase = "idle" -> 2 * MaxAttempts + 1
      [] pc = "tool" /\ phase = "starting" -> 2 * (MaxAttempts - attempt)
      [] pc = "tool" /\ phase = "calling" -> 2 * (MaxAttempts - attempt) - 1
      [] OTHER -> 0

\* At most so many steps of a run follow, whatever its dependencies do.
StepsAhead == PlacesAhead(Place) * StepsOfACall + CallStepsAhead

LEMMA AttemptsAreNumbers == MaxAttempts \in Nat /\ MaxAttempts # 0
BY LoopAssumption DEF T!BudgetAssumption

\* The numbers are those of the places and of the attempts the policy allows.
StepsAreBounded ==
    /\ PlacesAhead(Place) \in 0 .. 22 /\ (PlacesAhead(Place) = 0 <=> pc = "idle")
    /\ CallStepsAhead \in 0 .. 2 * MaxAttempts + 1

LEMMA StepsBound ==
    ASSUME T!TypeOK, PlaceIsKnown PROVE StepsAreBounded
<1>1. attempt \in Nat /\ attempt <= MaxAttempts - 1
  BY AttemptsAreNumbers DEF T!TypeOK
<1>2. /\ 2 * MaxAttempts + 1 \in 0 .. 2 * MaxAttempts + 1
      /\ 2 * (MaxAttempts - attempt) \in 0 .. 2 * MaxAttempts + 1
      /\ 2 * (MaxAttempts - attempt) - 1 \in 0 .. 2 * MaxAttempts + 1
      /\ 0 \in 0 .. 2 * MaxAttempts + 1
  BY <1>1, AttemptsAreNumbers
<1>3. CallStepsAhead \in 0 .. 2 * MaxAttempts + 1
  BY <1>2 DEF CallStepsAhead
<1>4. PlacesAhead(Place) \in 0 .. 22 /\ (PlacesAhead(Place) = 0 <=> pc = "idle")
  BY DEF PlaceIsKnown, ToolStage, Place, PlacesAhead
<1> QED
  BY <1>3, <1>4 DEF StepsAreBounded

\* A later place outweighs the steps of a call.
LEMMA LaterPlaceIsNearer ==
    ASSUME NEW n \in Nat, NEW m \in Nat, n < m, NEW c \in Nat,
           NEW i \in 0 .. c + 1, NEW j \in 0 .. c + 1
    PROVE  n * (c + 2) + i < m * (c + 2) + j
<1>1. PICK d \in Nat : m = n + 1 + d
  <2>1. m - n - 1 \in Nat /\ m = n + 1 + (m - n - 1)
    OBVIOUS
  <2> QED
    BY <2>1
<1>2. m * (c + 2) = n * (c + 2) + (c + 2) + d * (c + 2)
  BY <1>1
<1>3. d * (c + 2) \in Nat /\ n * (c + 2) \in Nat
  OBVIOUS
<1> QED
  BY <1>2, <1>3

\* A step goes on with the loop of the call, or to a later place.
GoesOn == PlacesAhead(Place') < PlacesAhead(Place)

InTheCall ==
    pc = "tool" /\ UNCHANGED <<pc, stage>>
    /\ ((\E c \in CallCosts : T!BeginCall(c)) \/ T!StartAttempt \/ \E l \in Latencies : T!Retry(l))

LEMMA LookupGoesOn ==
    ASSUME PlaceIsKnown,
           \/ BeginCall \/ LookupAttempt \/ LookupRetry \/ LookupReturns \/ LookupStops \/ LookupRaises
    PROVE  InTheCall \/ GoesOn
<1> USE DEF Looking, InCall, runVars
<1>1. CASE BeginCall \/ LookupAttempt \/ LookupRetry
  BY <1>1 DEF BeginCall, LookupAttempt, LookupRetry, InTheCall
<1>2. CASE pc = "tool" /\ pc' = "idle"
  BY <1>2 DEF GoesOn, Place, PlacesAhead, PlaceIsKnown, ToolStage
<1>3. CASE pc = "tool" /\ AfterResult
  BY <1>3 DEF GoesOn, Place, PlacesAhead, AfterResult, Call, GoTo
<1>4. CASE LookupReturns \/ LookupStops \/ LookupRaises
  BY <1>2, <1>3, <1>4 DEF LookupReturns, LookupStops, LookupRaises, Return, Raise
<1> QED
  BY <1>1, <1>4

LEMMA EarlyGoesOn ==
    ASSUME \/ RecordReport \/ FailIntake \/ RequestCorrection \/ ApplyCorrection
           \/ Link \/ AttachShipment \/ GatherEvidence \/ AttachEvidence
           \/ RecordAddress \/ EnterPolicy \/ EvaluatePolicy \/ OpenReview
    PROVE  GoesOn
<1> USE DEF GoesOn, Place, PlacesAhead, Call, GoTo, Return, Raise
<1>1. CASE RecordReport \/ FailIntake \/ RequestCorrection \/ ApplyCorrection \/ Link
  BY <1>1 DEF RecordReport, FailIntake, RequestCorrection, ApplyCorrection, Link
<1>2. CASE AttachShipment \/ GatherEvidence \/ AttachEvidence \/ RecordAddress
  BY <1>2 DEF AttachShipment, GatherEvidence, AttachEvidence, RecordAddress
<1>3. CASE EnterPolicy \/ EvaluatePolicy \/ OpenReview
  BY <1>3 DEF EnterPolicy, EvaluatePolicy, OpenReview
<1> QED
  BY <1>1, <1>2, <1>3

LEMMA LateGoesOn ==
    ASSUME \/ Decide \/ SelectDisposition
           \/ GrantAuthority \/ BlockForAuthority \/ AuthorityRaises
           \/ ObtainOperation \/ StartExecution \/ ExecutionAttempt \/ Unwind
           \/ ExecutionRefused \/ ExecutionReturns \/ ExecutionErrs \/ ExecutionRaises
           \/ RecordExecution \/ CompleteExecution \/ RouteFailure
    PROVE  InTheCall \/ GoesOn
<1> USE DEF GoesOn, Place, PlacesAhead, Call, GoTo, Return, Raise, Executing, InCall
<1>1. CASE Decide \/ SelectDisposition
  <2>1. pc \in {"decide", "select"} /\ pc' \in {"idle", "authorize", "obtain"}
    BY <1>1 DEF Decide, SelectDisposition, AfterDisposition
  <2> QED
    BY <2>1
<1>2. CASE GrantAuthority \/ BlockForAuthority \/ AuthorityRaises \/ ObtainOperation
  BY <1>2 DEF GrantAuthority, BlockForAuthority, AuthorityRaises, ObtainOperation
<1>3. CASE StartExecution \/ Unwind \/ ExecutionRefused \/ ExecutionReturns \/ ExecutionRaises
  BY <1>3 DEF StartExecution, Unwind, ExecutionRefused, ExecutionReturns, ExecutionRaises
<1>4. CASE ExecutionAttempt
  BY <1>4 DEF ExecutionAttempt, InTheCall
<1>5. CASE ExecutionErrs
  BY <1>5 DEF ExecutionErrs, InTheCall
<1>6. CASE RecordExecution \/ CompleteExecution \/ RouteFailure
  BY <1>6 DEF RecordExecution, CompleteExecution, RouteFailure
<1> QED
  BY <1>1, <1>2, <1>3, <1>4, <1>5, <1>6

\* The loop of a call ends: it is entered once, and retried while attempts are
\* left.
LEMMA LoopGoesOn ==
    ASSUME T!TypeOK, InTheCall PROVE CallStepsAhead' < CallStepsAhead
<1>1. attempt \in Nat /\ MaxAttempts \in Nat
  BY AttemptsAreNumbers DEF T!TypeOK
<1> USE DEF InTheCall, CallStepsAhead
<1>2. ASSUME NEW c \in CallCosts, T!BeginCall(c) PROVE CallStepsAhead' < CallStepsAhead
  BY <1>1, <1>2 DEF T!BeginCall
<1>3. CASE T!StartAttempt
  BY <1>1, <1>3 DEF T!StartAttempt
<1>4. ASSUME NEW l \in Latencies, T!Retry(l) PROVE CallStepsAhead' < CallStepsAhead
  BY <1>1, <1>4 DEF T!Retry
<1> QED
  BY <1>2, <1>3, <1>4

\* A run that has not ended has steps ahead, and every step it takes leaves it
\* fewer, whatever its dependencies return or raise and however often they are
\* retried: a run has at most 23 * (2 * MaxAttempts + 2) steps.
THEOREM RunsWindDown ==
    Spec => /\ []((StepsAhead \in Nat) /\ (StepsAhead = 0 <=> pc = "idle"))
            /\ [][RunStep => StepsAhead' < StepsAhead]_vars
<1>1. T!TypeOK /\ RunTypeOK => StepsAreBounded
  BY StepsBound DEF RunTypeOK
<1>2. ASSUME StepsAreBounded
      PROVE  StepsAhead \in Nat /\ (StepsAhead = 0 <=> pc = "idle")
  <2>1. /\ PlacesAhead(Place) \in 0 .. 22 /\ (PlacesAhead(Place) = 0 <=> pc = "idle")
        /\ CallStepsAhead \in 0 .. 2 * MaxAttempts + 1
    BY <1>2 DEF StepsAreBounded
  <2>2. pc = "idle" => CallStepsAhead = 0
    BY DEF CallStepsAhead
  <2>3. StepsOfACall \in Nat /\ StepsOfACall > 0
    BY AttemptsAreNumbers DEF StepsOfACall
  <2>4. PlacesAhead(Place) # 0 => PlacesAhead(Place) * StepsOfACall > 0
    BY <2>1, <2>3
  <2>5. PlacesAhead(Place) * StepsOfACall \in Nat /\ 0 * StepsOfACall = 0
    BY <2>1, <2>3
  <2> QED
    BY <2>1, <2>2, <2>4, <2>5, AttemptsAreNumbers DEF StepsAhead
<1>3. ASSUME T!TypeOK, RunTypeOK, StepsAreBounded, StepsAreBounded', RunStep
      PROVE  StepsAhead' < StepsAhead
  <2> DEFINE c == 2 * MaxAttempts
             n == PlacesAhead(Place)
             m == PlacesAhead(Place')
  <2>1. n \in Nat /\ m \in Nat /\ c \in Nat
    BY <1>3, AttemptsAreNumbers DEF StepsAreBounded
  <2>2. CallStepsAhead \in 0 .. c + 1 /\ CallStepsAhead' \in 0 .. c + 1
    BY <1>3 DEF StepsAreBounded
  <2>3. /\ StepsAhead = n * (c + 2) + CallStepsAhead
        /\ StepsAhead' = m * (c + 2) + CallStepsAhead'
    BY DEF StepsAhead, StepsOfACall
  <2>4. InTheCall \/ m < n
    BY <1>3, LookupGoesOn, EarlyGoesOn, LateGoesOn DEF RunStep, RunTypeOK, GoesOn
  <2> HIDE DEF c, n, m
  <2>5. CASE m < n
    BY <2>1, <2>2, <2>3, <2>5, LaterPlaceIsNearer
  <2>6. CASE InTheCall
    <3>1. Place' = Place
      BY <2>6 DEF InTheCall, Place
    <3>2. m = n
      BY <3>1 DEF m, n
    <3>3. CallStepsAhead' < CallStepsAhead
      BY <1>3, <2>6, LoopGoesOn
    <3>4. n * (c + 2) \in Nat
      BY <2>1
    <3> QED
      BY <2>2, <2>3, <3>2, <3>3, <3>4
  <2> QED
    BY <2>4, <2>5, <2>6
<1> QED
  BY <1>1, <1>2, <1>3, RunsAreBudgeted, RunTypeInvariant, PTL

================================================================================
