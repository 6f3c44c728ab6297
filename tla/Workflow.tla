-------------------------------- MODULE Workflow --------------------------------
(***************************************************************************)
(* _run_synthetic_support_case and correct_unmatched_order_identifier      *)
(* (workflow.py 563-1586): the orchestrator that drives one SupportCase    *)
(* through its stages, calls every dependency through the bounded retry    *)
(* loop, and keeps the outcome of the consequential action in a registry   *)
(* that outlives the run.  Runs on one case identifier follow one another: *)
(* a correction goes on with the stopped case, a rerun starts a new case   *)
(* and meets the registry as the earlier runs left it.                     *)
(*                                                                         *)
(* A run is sequential, so one call of the aggregate is one step, and the  *)
(* value a dependency returned is chosen where the run first looks at it.  *)
(* The configuration is consulted once per run and is chosen there too.    *)
(***************************************************************************)
EXTENDS Naturals

CONSTANTS
    Case,                                            \* the case identifier
    MaxRuns,                                         \* bound: runs of the case
    Orders, Shipments, Snapshots, Evaluations, Reviews, Policies, NoOrder,
    MaxToolCalls, MaxRetries, MaxElapsed, MaxCost,
    MaxAttempts, InitialBackoff, BackoffMultiplier, MaxBackoff,
    Latencies, CallCosts

VARIABLES
    caseStatus, disposition, executionStatus, followUpStatus, closedAt,
    customerReport, customerRef, orderRef, awaitingCorrection,
    shipments, evidence, addressMatch, evaluations, requests, decisions,
    toolCalls, retries, elapsed, cost, exhausted, callCost, attempt, phase, outcome,
    operations,
    pc,           \* the next thing the run does
    stage,        \* the dependency it calls, or called last
    correcting,   \* correction_run
    result,       \* the WorkflowResult of the last run, or NoResult
    correctable,  \* has a run of this case returned a result stopped at order_lookup?
    authority,    \* was the refund of this run within the autonomous limit?
    effects,      \* how often the adapter carried out each operation
    runs          \* number of runs begun

C == INSTANCE SupportCase
T == INSTANCE ToolCall
P == INSTANCE StructuralPolicy
Op == INSTANCE ExecutionRegistry
        WITH Cases <- {Case}, Dispositions <- C!ExecutableDispositions

ASSUME NoOrderAssumption == NoOrder \notin C!OrderRef

\* the limits and the retry policy are what ToolCall asks of them
ASSUME LoopAssumption == T!BudgetAssumption /\ T!BackoffAssumption

ASSUME MaxRunsAssumption == MaxRuns \in Nat

caseVars == <<caseStatus, disposition, executionStatus, followUpStatus, closedAt,
              customerReport, customerRef, orderRef, awaitingCorrection, shipments,
              evidence, addressMatch, evaluations, requests, decisions>>
budgetVars == <<toolCalls, retries, elapsed, cost, exhausted, callCost, attempt,
                phase, outcome>>
runVars == <<pc, stage, correcting, result, correctable, authority, runs>>
vars == <<caseVars, budgetVars, operations, runVars, effects>>

ToolStage == {"customer_lookup", "order_lookup", "shipment_lookup",
              "carrier_evidence_lookup", "address_comparison", "human_review",
              "execution"}

Cause == {"refused", "operational_error", "retry_exhausted", "budget_exceeded"}

\* failure_stage is the stage alone for a refusal or an operational error; the
\* other causes put a suffix to it (_retry, _budget)
Result == [completed : {TRUE}, stage : {"none"}, cause : {"none"}]
    \cup [completed : {FALSE}, stage : ToolStage \cup {"authority"}, cause : Cause]
NoResult == [completed |-> FALSE, stage |-> "none", cause |-> "none"]

Completed == [completed |-> TRUE, stage |-> "none", cause |-> "none"]
StoppedAt(s, cause) == [completed |-> FALSE, stage |-> s, cause |-> cause]

Key == Op!IdempotencyKey(Case, disposition)

Init ==
    /\ C!Init /\ T!Init /\ Op!RegistryInit
    /\ pc = "idle" /\ stage = "order_lookup" /\ correcting = FALSE
    /\ result = NoResult
    /\ correctable = FALSE
    /\ authority = "unasked"
    /\ effects = [k \in Op!Keys |-> 0]
    /\ runs = 0

(***************************************************************************)
(* How a run moves and ends                                                *)
(***************************************************************************)
GoTo(next) == pc' = next /\ UNCHANGED <<stage, result, correctable>>

Call(s) == pc' = "tool" /\ stage' = s /\ UNCHANGED <<result, correctable>>

\* failure_stage is "order_lookup", without a suffix
StoppedAtOrderLookup(r) ==
    r.stage = "order_lookup" /\ r.cause \in {"refused", "operational_error"}

\* Mutant: only the last result says whether the case can be corrected
ReturnLatest(r) ==
    /\ pc' = "idle"
    /\ result' = r
    /\ correctable' = StoppedAtOrderLookup(r)
    /\ UNCHANGED stage

\* the checks of a correction read the case itself, so any result of this case
\* that stopped at order_lookup serves, not only the last
Return(r) ==
    /\ pc' = "idle"
    /\ result' = r
    /\ correctable' = (correctable \/ StoppedAtOrderLookup(r))
    /\ UNCHANGED stage

\* Mutant: an exception is turned into a result
RaiseAsResult ==
    /\ pc' = "idle"
    /\ result' = [completed |-> FALSE, stage |-> stage, cause |-> "raised"]
    /\ UNCHANGED <<stage, correctable>>

\* TransitionRejected, ValueError, TypeError or an exception of a dependency
Raise == pc' = "idle" /\ result' = NoResult /\ UNCHANGED <<stage, correctable>>

unmoved == <<correcting, authority, runs>>
notCase == <<budgetVars, operations, effects, unmoved>>

\* run_synthetic_support_case: a new SupportCase and a new budget tracker
NewRun ==
    /\ pc = "idle" /\ runs < MaxRuns
    /\ caseStatus' = "intake" /\ disposition' = "none_selected"
    /\ executionStatus' = "not_applicable" /\ followUpStatus' = "not_applicable"
    /\ closedAt' = FALSE /\ customerReport' = FALSE
    /\ customerRef' = "none" /\ orderRef' = NoOrder /\ awaitingCorrection' = FALSE
    /\ shipments' = {} /\ evidence' = {} /\ addressMatch' = "unrecorded"
    /\ evaluations' = <<>> /\ requests' = {} /\ decisions' = {}
    /\ T!NewRun
    /\ pc' = "report" /\ stage' = "customer_lookup"
    /\ correcting' = FALSE
    /\ result' = NoResult /\ correctable' = FALSE
    /\ authority' = "unasked"
    /\ runs' = runs + 1
    /\ UNCHANGED <<operations, effects>>

Correctable ==
    /\ correctable
    /\ caseStatus = "awaiting_customer_action"
    /\ orderRef = NoOrder
    /\ awaitingCorrection

\* correct_unmatched_order_identifier: the same case, a new budget tracker
NewCorrection ==
    /\ pc = "idle" /\ runs < MaxRuns
    /\ Correctable
    /\ T!NewRun
    /\ Call("order_lookup")
    /\ correcting' = TRUE
    /\ runs' = runs + 1
    /\ UNCHANGED <<caseVars, operations, effects, authority>>

(***************************************************************************)
(* Calls of dependencies                                                   *)
(***************************************************************************)
InCall == pc = "tool"
Looking == InCall /\ stage # "execution"

BeginCall ==
    /\ InCall
    /\ \E c \in CallCosts : T!BeginCall(c)
    /\ UNCHANGED <<caseVars, operations, effects, runVars>>

\* what the run does with a result, by what the dependency returned
AfterResult ==
    \/ stage = "customer_lookup" /\ (Call("order_lookup") \/ GoTo("fail_intake"))
    \/ /\ stage = "order_lookup" /\ ~correcting
       /\ GoTo("link") \/ GoTo("request_correction") \/ GoTo("fail_intake")
    \/ stage = "order_lookup" /\ correcting /\ GoTo("apply_correction")
    \/ stage = "shipment_lookup" /\ GoTo("attach_shipment")
    \/ /\ stage = "carrier_evidence_lookup"
       /\ GoTo("attach_evidence") \/ Call("address_comparison")
    \/ stage = "address_comparison" /\ GoTo("record_address")
    \/ stage = "human_review" /\ GoTo("open_review")

LookupAttempt ==
    /\ Looking
    /\ T!StartAttempt
    /\ UNCHANGED <<caseVars, operations, effects, runVars>>

LookupRetry ==
    /\ Looking
    /\ \E l \in Latencies : T!Retry(l)
    /\ UNCHANGED <<caseVars, operations, effects, runVars>>

LookupReturns ==
    /\ Looking
    /\ \E l \in Latencies : T!Return(l)
    /\ IF outcome' = "result" THEN AfterResult ELSE Return(StoppedAt(stage, outcome'))
    /\ UNCHANGED <<caseVars, operations, effects, unmoved>>

\* Mutant: a run whose budget is used up waits for more
LookupWaitsForBudget ==
    \/ Looking /\ ENABLED T!AttemptRefused /\ UNCHANGED vars
    \/ /\ Looking
       /\ \E l \in Latencies : T!FailForGood(l) \/ T!ExhaustRetries(l) \/ T!RetryRefused(l)
       /\ Return(StoppedAt(stage, outcome'))
       /\ UNCHANGED <<caseVars, operations, effects, unmoved>>

\* operational_stop: the case stays as it is
LookupStops ==
    /\ Looking
    /\ \/ T!AttemptRefused
       \/ \E l \in Latencies : T!FailForGood(l) \/ T!ExhaustRetries(l) \/ T!RetryRefused(l)
    /\ Return(StoppedAt(stage, outcome'))
    /\ UNCHANGED <<caseVars, operations, effects, unmoved>>

LookupRaises ==
    /\ Looking
    /\ T!Propagate
    /\ Raise
    /\ UNCHANGED <<caseVars, operations, effects, unmoved>>

(***************************************************************************)
(* Intake, evidence and policy.  A call the aggregate rejects raises.      *)
(***************************************************************************)
RecordReport ==
    /\ pc = "report"
    /\ C!RecordCustomerReport
    /\ Call("customer_lookup")
    /\ UNCHANGED notCase

FailIntake ==
    /\ pc = "fail_intake"
    /\ C!FailIntake
    /\ Return(StoppedAt(stage, "refused"))
    /\ UNCHANGED notCase

RequestCorrection ==
    /\ pc = "request_correction"
    /\ C!RequestOrderIdentifierCorrection("matched")
    /\ Return(StoppedAt("order_lookup", "refused"))
    /\ UNCHANGED notCase

\* Mutant: the run goes on with an order that is still unmatched
ApplyCorrectionAndGoOn ==
    /\ pc = "apply_correction"
    /\ \E corrected \in Orders, order \in C!OrderRef :
          \/ C!ApplyOrderIdentifierCorrection(corrected, order) /\ Call("shipment_lookup")
          \/ ~C!CanApplyCorrection(corrected, order) /\ C!Reject /\ Raise
    /\ UNCHANGED notCase

ApplyCorrection ==
    /\ pc = "apply_correction"
    /\ \E corrected \in Orders, order \in C!OrderRef :
          \/ /\ C!ApplyOrderIdentifierCorrection(corrected, order)
             /\ IF order.outcome = "matched" THEN Call("shipment_lookup")
                ELSE Return(StoppedAt("order_lookup", "refused"))
          \/ /\ ~C!CanApplyCorrection(corrected, order)
             /\ C!Reject
             /\ Raise
    /\ UNCHANGED notCase

Link ==
    /\ pc = "link"
    /\ \E id \in Orders : C!Link("matched", [id |-> id, outcome |-> "matched"])
    /\ Call("shipment_lookup")
    /\ UNCHANGED notCase

AttachShipment ==
    /\ pc = "attach_shipment"
    /\ \E s \in C!ShipmentRef : C!AttachShipment(s)
    /\ GoTo("gather_evidence")
    /\ UNCHANGED notCase

GatherEvidence ==
    /\ pc = "gather_evidence"
    /\ C!TransitionTo("evidence_gathering")
    /\ Call("carrier_evidence_lookup")
    /\ UNCHANGED notCase

AttachEvidence ==
    /\ pc = "attach_evidence"
    /\ \E e \in C!Evidence :
          \/ C!AttachCarrierEvidence(e) /\ Call("address_comparison")
          \/ ~C!CanAttachEvidence(e) /\ C!Reject /\ Raise
    /\ UNCHANGED notCase

RecordAddress ==
    /\ pc = "record_address"
    /\ \E a \in C!AddressMatch \ {"unrecorded"} : C!RecordAddressMatchResult(a)
    /\ GoTo("enter_policy")
    /\ UNCHANGED notCase

EnterPolicy ==
    /\ pc = "enter_policy"
    /\ C!TransitionTo("policy_review")
    /\ GoTo("evaluate")
    /\ UNCHANGED notCase

RetrievalOf(lookup) ==
    IF lookup = "none" THEN "none" ELSE IF lookup = "failure" THEN "failure" ELSE "success"

Facts(unresolved) ==
    [report |-> customerReport, customer |-> RetrievalOf(customerRef),
     order |-> IF orderRef = NoOrder THEN "none" ELSE RetrievalOf(orderRef.outcome),
     shipments |-> {s.retrieval : s \in shipments},
     evidence |-> {e.retrieval : e \in evidence},
     address |-> addressMatch, unresolved |-> unresolved]

EvaluatePolicy ==
    /\ pc = "evaluate"
    /\ \E id \in Evaluations, unresolved \in SUBSET Policies :
          C!RecordPolicyEvaluation([id |-> id, route |-> P!Route(Facts(unresolved)),
                                    unresolved |-> unresolved])
    /\ \/ caseStatus' = "awaiting_customer_action" /\ Return(Completed)
       \/ caseStatus' = "human_review" /\ Call("human_review")
       \/ caseStatus' = "human_review" /\ Return(StoppedAt("human_review", "refused"))
       \/ caseStatus' = "disposition_selection" /\ GoTo("select")
    /\ UNCHANGED notCase

(***************************************************************************)
(* Disposition and authority                                               *)
(***************************************************************************)
OpenReview ==
    /\ pc = "open_review"
    /\ \E request \in C!ReviewRequest :
          \/ C!OpenHumanReview(request) /\ GoTo("decide")
          \/ ~C!CanOpenReview(request) /\ C!Reject /\ Raise
    /\ UNCHANGED notCase

\* Mutant: the autonomous limit is not looked at
AfterDispositionUnlimited ==
    \/ caseStatus' # "executing" /\ Return(Completed)
    \/ caseStatus' = "executing" /\ GoTo("obtain")

AfterDisposition ==
    \/ caseStatus' # "executing" /\ Return(Completed)
    \/ caseStatus' = "executing" /\ disposition' = "approve_refund" /\ GoTo("authorize")
    \/ caseStatus' = "executing" /\ disposition' # "approve_refund" /\ GoTo("obtain")

Decide ==
    /\ pc = "decide"
    /\ \E decision \in C!ReviewDecision :
          \/ C!RecordHumanReviewDecision(decision, TRUE) /\ AfterDisposition
          \/ ~C!CanDecide(decision, TRUE) /\ C!Reject /\ Raise
    /\ UNCHANGED notCase

\* the configured disposition, or the one derived from the evidence
SelectDisposition ==
    /\ pc = "select"
    /\ \E d \in C!Disposition : C!SelectDisposition(d, TRUE)
    /\ AfterDisposition
    /\ UNCHANGED notCase

GrantAuthority ==
    /\ pc = "authorize"
    /\ authority' = "granted"
    /\ GoTo("obtain")
    /\ UNCHANGED <<caseVars, budgetVars, operations, effects, correcting, runs>>

\* over the limit, or in another currency; a human approval changes nothing
BlockForAuthority ==
    /\ pc = "authorize"
    /\ C!BlockRefundExecutionForAuthority
    /\ Return(StoppedAt("authority", "refused"))
    /\ UNCHANGED notCase

\* no refund inputs are configured: None <= None raises TypeError
AuthorityRaises ==
    /\ pc = "authorize"
    /\ Raise
    /\ UNCHANGED <<caseVars, notCase>>

(***************************************************************************)
(* Execution.  The registry hears of an attempt before the adapter is      *)
(* called, and of its outcome before the budget is asked again.            *)
(***************************************************************************)
ObtainOperation ==
    /\ pc = "obtain"
    /\ Op!GetOrCreate(Key)
    /\ GoTo("start_execution")
    /\ UNCHANGED <<caseVars, budgetVars, effects, unmoved>>

\* a success of an earlier run is reused and the adapter is not called
StartExecution ==
    /\ pc = "start_execution"
    /\ C!RecordExecutionStatus("in_progress")
    /\ \/ operations[Key].status = "succeeded" /\ GoTo("record_execution")
       \/ operations[Key].status # "succeeded" /\ Call("execution")
    /\ UNCHANGED notCase

Executing == InCall /\ stage = "execution"

\* start_attempt of the registry raises when an earlier run left the operation
\* in progress; the budget has counted the attempt by then
ExecutionAttempt ==
    /\ Executing
    /\ T!StartAttempt
    /\ \/ Op!StartAttempt(Key) /\ UNCHANGED pc
       \/ ~Op!CanStartAttempt(Key) /\ UNCHANGED operations /\ pc' = "unwind"
    /\ UNCHANGED <<caseVars, effects, stage, result, correctable, unmoved>>

Unwind ==
    /\ pc = "unwind"
    /\ T!Propagate
    /\ Raise
    /\ UNCHANGED <<caseVars, operations, effects, unmoved>>

ExecutionRefused ==
    /\ Executing
    /\ T!AttemptRefused
    /\ GoTo("record_execution")
    /\ UNCHANGED <<caseVars, operations, effects, unmoved>>

ExecutionReturns ==
    /\ Executing
    /\ \E l \in Latencies : T!Return(l)
    /\ \/ Op!RecordSuccess(Key) /\ effects' = [effects EXCEPT ![Key] = @ + 1]
       \/ Op!RecordFailure(Key) /\ UNCHANGED effects
    /\ GoTo("record_execution")
    /\ UNCHANGED <<caseVars, unmoved>>

\* a SyntheticOperationalError stands for an action that did not happen
ExecutionErrs ==
    /\ Executing
    /\ Op!RecordFailure(Key)
    /\ \E l \in Latencies :
          \/ T!Retry(l) /\ GoTo("tool")
          \/ /\ T!FailForGood(l) \/ T!ExhaustRetries(l) \/ T!RetryRefused(l)
             /\ GoTo("record_execution")
    /\ UNCHANGED <<caseVars, effects, unmoved>>

\* any other exception leaves the operation in progress; the action may have
\* happened
ExecutionRaises ==
    /\ Executing
    /\ T!Propagate
    /\ Raise
    /\ \/ UNCHANGED effects
       \/ effects' = [effects EXCEPT ![Key] = @ + 1]
    /\ UNCHANGED <<caseVars, operations, unmoved>>

\* Mutant: an exhausted budget is recorded as a failed execution
RecordByOutcome ==
    /\ pc = "record_execution"
    /\ \/ /\ operations[Key].status = "succeeded" /\ outcome = "result"
          /\ C!RecordExecutionStatus("succeeded")
          /\ GoTo("complete")
       \/ /\ operations[Key].status # "succeeded" \/ outcome # "result"
          /\ C!RecordExecutionStatus("failed")
          /\ GoTo("route_failure")
    /\ UNCHANGED notCase

RecordExecution ==
    /\ pc = "record_execution"
    /\ \/ /\ operations[Key].status = "succeeded"
          /\ C!RecordExecutionStatus("succeeded")
          /\ GoTo("complete")
       \/ /\ operations[Key].status # "succeeded"
          /\ C!RecordExecutionStatus("failed")
          /\ GoTo("route_failure")
    /\ UNCHANGED notCase

\* a success whose attempt used up the budget completes the case and not the run
CompleteExecution ==
    /\ pc = "complete"
    /\ C!CompleteExecution
    /\ Return(IF outcome = "result" THEN Completed ELSE StoppedAt("execution", outcome))
    /\ UNCHANGED notCase

\* Mutant: a run that its budget stopped does not route the failure
RouteUnlessExhausted ==
    /\ pc = "route_failure"
    /\ IF outcome = "budget_exceeded" THEN UNCHANGED caseVars ELSE C!RouteExecutionFailureToReview
    /\ Return(StoppedAt("execution", IF outcome = "result" THEN "refused" ELSE outcome))
    /\ UNCHANGED notCase

\* Mutant: the failure is routed to review and reported as completed
RouteAsCompleted ==
    /\ pc = "route_failure"
    /\ C!RouteExecutionFailureToReview
    /\ Return(Completed)
    /\ UNCHANGED notCase

RouteFailure ==
    /\ pc = "route_failure"
    /\ C!RouteExecutionFailureToReview
    /\ Return(StoppedAt("execution", IF outcome = "result" THEN "refused" ELSE outcome))
    /\ UNCHANGED notCase

RunStep ==
    \/ BeginCall \/ LookupAttempt \/ LookupRetry \/ LookupReturns \/ LookupStops \/ LookupRaises
    \/ RecordReport \/ FailIntake \/ RequestCorrection \/ ApplyCorrection \/ Link
    \/ AttachShipment \/ GatherEvidence \/ AttachEvidence \/ RecordAddress
    \/ EnterPolicy \/ EvaluatePolicy \/ OpenReview \/ Decide \/ SelectDisposition
    \/ GrantAuthority \/ BlockForAuthority \/ AuthorityRaises
    \/ ObtainOperation \/ StartExecution \/ ExecutionAttempt \/ Unwind
    \/ ExecutionRefused \/ ExecutionReturns \/ ExecutionErrs \/ ExecutionRaises
    \/ RecordExecution \/ CompleteExecution \/ RouteFailure

\* the caller asks for no more runs than the bound
NoMoreRuns == pc = "idle" /\ runs = MaxRuns /\ UNCHANGED vars

Next == NewRun \/ NewCorrection \/ RunStep \/ NoMoreRuns

Spec == Init /\ [][Next]_vars

\* a run is a loop in one thread and its dependencies return or raise
FairSpec == Spec /\ WF_vars(RunStep)

--------------------------------------------------------------------------------
(***************************************************************************)
(* Properties                                                              *)
(***************************************************************************)

TypeOK ==
    /\ C!TypeOK /\ T!TypeOK
    /\ operations \in [Op!Keys -> Op!Operation]
    /\ pc \in {"idle", "tool", "report", "fail_intake", "request_correction",
               "apply_correction", "link", "attach_shipment", "gather_evidence",
               "attach_evidence", "record_address", "enter_policy", "evaluate",
               "open_review", "decide", "select", "authorize", "obtain",
               "start_execution", "unwind", "record_execution", "complete",
               "route_failure"}
    /\ stage \in ToolStage
    /\ correcting \in BOOLEAN /\ correctable \in BOOLEAN
    /\ result \in Result \cup {NoResult}
    /\ authority \in {"unasked", "granted"}
    /\ effects \in [Op!Keys -> Nat]
    /\ runs \in 0 .. MaxRuns

\* Through the workflow a refund or replacement closes a case only when it was
\* executed, although the aggregate alone would close it from a review.
ClosedOnlyWhenExecuted == C!ApprovalIsNotExecution

\* A case whose order could not be matched gets no evidence and no policy
\* evaluation before a correction has linked it.
NothingBeforeLinkage ==
    /\ C!NoEvidenceBeforeCorrection
    /\ orderRef = NoOrder =>
          /\ shipments = {} /\ evidence = {} /\ evaluations = <<>>
          /\ disposition = "none_selected"

\* Whatever a run reports, the external action of a case and disposition is
\* carried out once over all its reruns.
OneEffectPerOperation == \A k \in Op!Keys : effects[k] <= 1

\* What the case says of the execution is what the registry knows: a success
\* happened, and a failure did not, unless an earlier run was lost in mid-call
\* and the budget then refused this run its own attempt.
CaseAgreesWithStore ==
    /\ executionStatus = "succeeded" => effects[Key] = 1
    /\ (executionStatus = "failed" /\ effects[Key] = 1)
          => operations[Key].status = "in_progress" /\ exhausted # "none"

\* A case that a result hands back open is not left in the middle of a coupled
\* step, where only the run could have moved it, and a case that waits for the
\* carrier has a follow-up to be answered.  The aggregate alone can get stuck there
\* (domain.py 416 sets no follow-up to pending).
ReturnedCaseGoesOn ==
    (result # NoResult /\ caseStatus # "closed") =>
        /\ caseStatus \notin {"policy_review", "disposition_selection", "executing"}
        /\ \/ \E s \in C!CaseStatus : C!CanTransition(s)
           \/ C!CanFailIntake
           \/ \E answer \in C!FollowUpResults : C!CanRecordFollowUp(answer)

\* A case that a raised run leaves behind is undecided: nothing was selected, or a
\* refund was whose limit could not be checked, or an attempt was begun and the
\* registry, which the next run of the case meets, has it in progress as well.
AbandonedCaseIsUndecided ==
    result = NoResult =>
        /\ caseStatus \in {"intake", "awaiting_customer_action", "linked",
                           "evidence_gathering", "human_review", "executing"}
        /\ caseStatus # "executing" =>
              disposition = "none_selected" /\ executionStatus = "not_applicable"
        /\ caseStatus = "executing" =>
              \/ /\ executionStatus = "not_started"
                 /\ disposition = "approve_refund" /\ authority = "unasked"
              \/ executionStatus = "in_progress" /\ operations[Key].status = "in_progress"

\* No run strands its case, whether it hands back a result or raises.
NoCaseIsStranded == pc = "idle" => ReturnedCaseGoesOn /\ AbandonedCaseIsUndecided

\* A completed result is a case that waits for the customer or for the carrier
\* or is closed; a closed case is reported as not completed only when the
\* successful attempt used up the budget.
ResultAgreesWithCase ==
    (pc = "idle" /\ result # NoResult) =>
        /\ result.completed =>
              /\ caseStatus \in {"awaiting_customer_action", "closed",
                                 "awaiting_external_follow_up"}
              /\ executionStatus \in {"not_applicable", "succeeded"}
              /\ ~awaitingCorrection
        /\ (~result.completed /\ caseStatus \in {"closed", "awaiting_external_follow_up"})
              => result = StoppedAt("execution", "budget_exceeded")

\* docs/04-decision-log.md 331: the failure to match an order is not terminal.
\* A case that waits for a correction can be corrected, whatever became of the
\* corrections tried before.
CorrectionStaysPossible == (pc = "idle" /\ awaitingCorrection) => Correctable

\* A refund is carried out only in a run that found it within the limit, also
\* when a human reviewer approved it.
RefundNeedsAuthority ==
    [][LET k == Op!IdempotencyKey(Case, "approve_refund")
       IN  effects'[k] # effects[k] => authority = "granted"]_vars

\* Every run returns a result or raises.
RunEnds == pc # "idle" ~> pc = "idle"

================================================================================
