------------------------------ MODULE SupportCase ------------------------------
(***************************************************************************)
(* The SupportCase aggregate of support_agent/domain.py: one action per    *)
(* public operation, with its guard (Can...) and everything it assigns.    *)
(* Time stamps, details and free text are abstracted: closed_at is a flag, *)
(* a customer report is present or absent.  The audit trail and the        *)
(* integrity alerts are logs that no operation reads, and are left out.    *)
(***************************************************************************)
EXTENDS Sequences

CONSTANTS
    Orders,       \* order identifiers
    Shipments,    \* shipment identifiers
    Snapshots,    \* carrier evidence snapshot identifiers
    Evaluations,  \* policy evaluation identifiers
    Reviews,      \* human review identifiers
    Policies,     \* PolicyPlaceholder members in play
    NoOrder       \* "order_ref is None"

(***************************************************************************)
(* Vocabulary                                                              *)
(***************************************************************************)
CaseStatus == {"intake", "intake_failed", "linked", "evidence_gathering",
               "awaiting_customer_action", "policy_review", "human_review",
               "disposition_selection", "executing",
               "awaiting_external_follow_up", "closed"}

Disposition == {"none_selected", "request_more_info",
                "advise_self_check_or_wait", "open_carrier_inquiry",
                "approve_replacement", "approve_refund", "deny"}

ExecutionStatus == {"not_applicable", "not_started", "in_progress",
                    "succeeded", "failed"}

FollowUpResults == {"resolved_favorable", "resolved_unfavorable",
                    "expired", "rejected"}
FollowUpStatus == {"not_applicable", "pending"} \cup FollowUpResults

CustomerActionDispositions == {"request_more_info", "advise_self_check_or_wait"}
RefundOrReplacement == {"approve_refund", "approve_replacement"}
ExecutableDispositions == RefundOrReplacement \cup {"open_carrier_inquiry"}

(***************************************************************************)
(* A lookup is a retrieval status and a match status; a failed retrieval   *)
(* is never matched (the records refuse it), so four outcomes remain.      *)
(***************************************************************************)
LookupOutcome == {"matched", "ambiguous", "not_found", "failure"}
OrderRef == [id : Orders, outcome : LookupOutcome]
Retrieval == {"success", "failure"}
ShipmentRef == [id : Shipments, retrieval : Retrieval]
Evidence == [id : Snapshots, shipment : Shipments, retrieval : Retrieval]

\* "unrecorded" is the pair (UNKNOWN, not recorded) a new case starts with
AddressMatch == {"unrecorded", "match", "mismatch", "unknown"}

PolicyRoute == {"proceed_to_disposition", "request_more_information",
                "require_human_review"}
PolicyEvaluation == [id : Evaluations, route : PolicyRoute,
                     unresolved : SUBSET Policies]
\* what is kept of one: its route is spent in the step that records it
EvaluationRecord == [id : Evaluations, unresolved : SUBSET Policies]

\* a review request names at least one unresolved policy or evidence snapshot
ReviewRequest == {r \in [id : Reviews, policies : SUBSET Policies,
                         snapshots : SUBSET Snapshots] :
                    r.policies # {} \/ r.snapshots # {}}
ReviewDecision == [id : Reviews, disposition : Disposition \ {"none_selected"}]

ASSUME NoOrderAssumption == NoOrder \notin OrderRef

VARIABLES
    caseStatus, disposition, executionStatus, followUpStatus,
    closedAt,            \* is closed_at set?
    customerReport,      \* has a report been recorded?
    customerRef,         \* "none" or the outcome of the stored reference
    orderRef,            \* NoOrder or the stored reference
    awaitingCorrection,  \* _awaiting_order_identifier_correction
    shipments, evidence, addressMatch,
    evaluations,         \* policy evaluations, in order
    requests,            \* human review requests
    decisions            \* identifiers of the reviews that are decided

statusVars == <<caseStatus, disposition, executionStatus, followUpStatus, closedAt>>
linkVars == <<customerRef, orderRef, awaitingCorrection>>
evidenceVars == <<customerReport, shipments, evidence, addressMatch>>
reviewVars == <<evaluations, requests, decisions>>
vars == <<statusVars, linkVars, evidenceVars, reviewVars>>

Init ==
    /\ caseStatus = "intake"
    /\ disposition = "none_selected"
    /\ executionStatus = "not_applicable"
    /\ followUpStatus = "not_applicable"
    /\ closedAt = FALSE
    /\ customerReport = FALSE
    /\ customerRef = "none"
    /\ orderRef = NoOrder
    /\ awaitingCorrection = FALSE
    /\ shipments = {}
    /\ evidence = {}
    /\ addressMatch = "unrecorded"
    /\ evaluations = <<>>
    /\ requests = {}
    /\ decisions = {}

(***************************************************************************)
(* Intake and linkage                                                      *)
(***************************************************************************)
CanRecordCustomerReport == ~customerReport

RecordCustomerReport ==
    /\ CanRecordCustomerReport
    /\ customerReport' = TRUE
    /\ UNCHANGED <<statusVars, linkVars, shipments, evidence, addressMatch, reviewVars>>

\* Mutant: a second lookup may link again
CanLinkAgain(customer, order) ==
    caseStatus \in {"intake", "linked"} /\ customer = "matched" /\ order.outcome = "matched"

CanLink(customer, order) ==
    /\ caseStatus = "intake"
    /\ customer = "matched"
    /\ order.outcome = "matched"

Link(customer, order) ==
    /\ CanLink(customer, order)
    /\ customerRef' = customer
    /\ orderRef' = order
    /\ caseStatus' = "linked"
    /\ UNCHANGED <<disposition, executionStatus, followUpStatus, closedAt,
                   awaitingCorrection, evidenceVars, reviewVars>>

CanRequestCorrection(customer) ==
    /\ caseStatus = "intake"
    /\ customer = "matched"
    /\ orderRef = NoOrder

RequestOrderIdentifierCorrection(customer) ==
    /\ CanRequestCorrection(customer)
    /\ customerRef' = customer
    /\ awaitingCorrection' = TRUE
    /\ caseStatus' = "awaiting_customer_action"
    /\ UNCHANGED <<disposition, executionStatus, followUpStatus, closedAt,
                   orderRef, evidenceVars, reviewVars>>

CanApplyCorrection(corrected, order) ==
    /\ caseStatus = "awaiting_customer_action"
    /\ awaitingCorrection
    /\ orderRef = NoOrder
    /\ customerRef = "matched"
    /\ order.outcome = "matched" => order.id = corrected

\* an order that is still unmatched leaves a trace in the audit trail only
ApplyOrderIdentifierCorrection(corrected, order) ==
    /\ CanApplyCorrection(corrected, order)
    /\ \/ /\ order.outcome = "matched"
          /\ orderRef' = order
          /\ awaitingCorrection' = FALSE
          /\ caseStatus' = "linked"
       \/ /\ order.outcome # "matched"
          /\ UNCHANGED <<orderRef, awaitingCorrection, caseStatus>>
    /\ UNCHANGED <<disposition, executionStatus, followUpStatus, closedAt,
                   customerRef, evidenceVars, reviewVars>>

CanFailIntake == caseStatus = "intake"

FailIntake ==
    /\ CanFailIntake
    /\ caseStatus' = "intake_failed"
    /\ UNCHANGED <<disposition, executionStatus, followUpStatus, closedAt,
                   linkVars, evidenceVars, reviewVars>>

(***************************************************************************)
(* Evidence.  None of these operations looks at the case status.           *)
(***************************************************************************)
CanAttachShipment(shipment) == \A s \in shipments : s.id # shipment.id

AttachShipment(shipment) ==
    /\ CanAttachShipment(shipment)
    /\ shipments' = shipments \cup {shipment}
    /\ UNCHANGED <<statusVars, linkVars, customerReport, evidence, addressMatch, reviewVars>>

CanAttachEvidence(item) ==
    /\ \E s \in shipments : s.id = item.shipment
    /\ \A e \in evidence : e.id # item.id

AttachCarrierEvidence(item) ==
    /\ CanAttachEvidence(item)
    /\ evidence' = evidence \cup {item}
    /\ UNCHANGED <<statusVars, linkVars, customerReport, shipments, addressMatch, reviewVars>>

CanRecordAddressMatch == addressMatch = "unrecorded"

RecordAddressMatchResult(result) ==
    /\ CanRecordAddressMatch
    /\ addressMatch' = result
    /\ UNCHANGED <<statusVars, linkVars, customerReport, shipments, evidence, reviewVars>>

(***************************************************************************)
(* transition_to: the transitions with no other status to change           *)
(***************************************************************************)
SimpleTransitions ==
    [s \in CaseStatus |->
        CASE s = "intake_failed" -> {"human_review"}
          [] s = "linked" -> {"evidence_gathering"}
          [] s = "evidence_gathering" -> {"awaiting_customer_action", "policy_review"}
          [] s = "awaiting_customer_action" ->
                {"evidence_gathering", "policy_review", "closed"}
          [] s = "policy_review" -> {"human_review", "disposition_selection"}
          [] s = "human_review" ->
                {"linked", "awaiting_customer_action", "evidence_gathering",
                 "disposition_selection", "awaiting_external_follow_up", "closed"}
          [] OTHER -> {}]

\* Mutant: a closed case may be reopened for review
CanTransitionFromClosed(target) ==
    target \in SimpleTransitions[caseStatus] \/ (caseStatus = "closed" /\ target = "human_review")

CanTransition(target) == target \in SimpleTransitions[caseStatus]

TransitionTo(target) ==
    /\ CanTransition(target)
    /\ caseStatus' = target
    /\ closedAt' = (closedAt \/ target = "closed")
    /\ UNCHANGED <<disposition, executionStatus, followUpStatus,
                   linkVars, evidenceVars, reviewVars>>

(***************************************************************************)
(* Policy and human review                                                 *)
(***************************************************************************)
RouteStatus ==
    [proceed_to_disposition |-> "disposition_selection",
     request_more_information |-> "awaiting_customer_action",
     require_human_review |-> "human_review"]

CanRecordEvaluation(result) ==
    /\ caseStatus = "policy_review"
    /\ \A i \in DOMAIN evaluations : evaluations[i].id # result.id

RecordPolicyEvaluation(result) ==
    /\ CanRecordEvaluation(result)
    /\ evaluations' = Append(evaluations, [id |-> result.id, unresolved |-> result.unresolved])
    /\ caseStatus' = RouteStatus[result.route]
    /\ UNCHANGED <<disposition, executionStatus, followUpStatus, closedAt,
                   linkVars, evidenceVars, requests, decisions>>

LatestUnresolved ==
    IF evaluations = <<>> THEN {} ELSE evaluations[Len(evaluations)].unresolved

\* Mutant: a review need not name policies the last evaluation left unresolved
CanOpenAnyReview(request) ==
    /\ caseStatus = "human_review"
    /\ \A r \in requests : r.id # request.id
    /\ request.snapshots \subseteq {e.id : e \in evidence}

CanOpenReview(request) ==
    /\ caseStatus = "human_review"
    /\ \A r \in requests : r.id # request.id
    /\ request.policies \subseteq LatestUnresolved
    /\ request.snapshots \subseteq {e.id : e \in evidence}

OpenHumanReview(request) ==
    /\ CanOpenReview(request)
    /\ requests' = requests \cup {request}
    /\ UNCHANGED <<statusVars, linkVars, evidenceVars, evaluations, decisions>>

(***************************************************************************)
(* _validated_disposition_path and _apply_disposition_path.  follow_up is  *)
(* not touched: it keeps the result of an earlier inquiry.                 *)
(***************************************************************************)
CanSelect(d, dataPresent) ==
    /\ d # "none_selected"
    /\ d \in ExecutableDispositions => dataPresent

\* Mutant: an approval closes the case
NextStatusClosesApproved(d) ==
    IF d \in CustomerActionDispositions THEN "awaiting_customer_action"
    ELSE IF d = "open_carrier_inquiry" THEN "executing"
    ELSE "closed"

NextStatus(d) ==
    IF d \in CustomerActionDispositions THEN "awaiting_customer_action"
    ELSE IF d \in ExecutableDispositions THEN "executing"
    ELSE "closed"

\* Mutant: the status of an earlier attempt is kept
NextExecutionKept(d) == IF d \in ExecutableDispositions THEN "not_started" ELSE executionStatus

\* Mutant: the status is reset to None
NextExecutionUnset(d) == IF d \in ExecutableDispositions THEN "not_started" ELSE "None"

NextExecution(d) ==
    IF d \in ExecutableDispositions THEN "not_started" ELSE "not_applicable"

ApplyDispositionPath(d) ==
    /\ disposition' = d
    /\ caseStatus' = NextStatus(d)
    /\ executionStatus' = NextExecution(d)
    /\ closedAt' = (d = "deny")
    /\ UNCHANGED followUpStatus

\* Mutant: a decided review may be decided again
CanDecideAgain(decision, dataPresent) ==
    /\ caseStatus = "human_review"
    /\ \E r \in requests : r.id = decision.id
    /\ CanSelect(decision.disposition, dataPresent)

CanDecide(decision, dataPresent) ==
    /\ caseStatus = "human_review"
    /\ \E r \in requests : r.id = decision.id
    /\ decision.id \notin decisions
    /\ CanSelect(decision.disposition, dataPresent)

RecordHumanReviewDecision(decision, dataPresent) ==
    /\ CanDecide(decision, dataPresent)
    /\ ApplyDispositionPath(decision.disposition)
    /\ decisions' = decisions \cup {decision.id}
    /\ UNCHANGED <<linkVars, evidenceVars, evaluations, requests>>

CanSelectDisposition(d, dataPresent) ==
    /\ caseStatus = "disposition_selection"
    /\ CanSelect(d, dataPresent)

SelectDisposition(d, dataPresent) ==
    /\ CanSelectDisposition(d, dataPresent)
    /\ ApplyDispositionPath(d)
    /\ UNCHANGED <<linkVars, evidenceVars, reviewVars>>

(***************************************************************************)
(* Execution and external follow-up                                        *)
(***************************************************************************)
ExecutionProgressions ==
    [s \in ExecutionStatus |->
        CASE s = "not_started" -> {"in_progress", "succeeded", "failed"}
          [] s = "in_progress" -> {"succeeded", "failed"}
          [] OTHER -> {}]

\* Mutant: a failed execution is retried in place, from wherever the case is
CanRecordRetry(status) ==
    \/ caseStatus = "executing" /\ status \in ExecutionProgressions[executionStatus]
    \/ executionStatus = "failed" /\ status = "in_progress"

CanRecordExecution(status) ==
    /\ caseStatus = "executing"
    /\ status \in ExecutionProgressions[executionStatus]

RecordExecutionStatus(status) ==
    /\ CanRecordExecution(status)
    /\ executionStatus' = status
    /\ UNCHANGED <<caseStatus, disposition, followUpStatus, closedAt,
                   linkVars, evidenceVars, reviewVars>>

\* Mutant: the execution is completed before its success is recorded
CanCompleteUnrecorded == caseStatus = "executing" /\ disposition \in ExecutableDispositions

CanCompleteExecution ==
    /\ caseStatus = "executing"
    /\ executionStatus = "succeeded"
    /\ disposition \in ExecutableDispositions

\* Mutant: the case waits for the carrier and no follow-up is pending
CompleteUnfiled ==
    /\ CanCompleteExecution
    /\ \/ disposition \in RefundOrReplacement /\ caseStatus' = "closed" /\ closedAt' = TRUE
       \/ /\ disposition = "open_carrier_inquiry"
          /\ caseStatus' = "awaiting_external_follow_up"
          /\ UNCHANGED closedAt
    /\ UNCHANGED <<disposition, executionStatus, followUpStatus,
                   linkVars, evidenceVars, reviewVars>>

CompleteExecution ==
    /\ CanCompleteExecution
    /\ \/ /\ disposition \in RefundOrReplacement
          /\ caseStatus' = "closed"
          /\ closedAt' = TRUE
          /\ UNCHANGED followUpStatus
       \/ /\ disposition = "open_carrier_inquiry"
          /\ caseStatus' = "awaiting_external_follow_up"
          /\ followUpStatus' = "pending"
          /\ UNCHANGED closedAt
    /\ UNCHANGED <<disposition, executionStatus, linkVars, evidenceVars, reviewVars>>

\* Mutant: any finished execution goes to review
CanRouteFinished == caseStatus = "executing" /\ executionStatus \in {"succeeded", "failed"}

CanRouteFailure == caseStatus = "executing" /\ executionStatus = "failed"

RouteExecutionFailureToReview ==
    /\ CanRouteFailure
    /\ caseStatus' = "human_review"
    /\ UNCHANGED <<disposition, executionStatus, followUpStatus, closedAt,
                   linkVars, evidenceVars, reviewVars>>

\* Mutant: a refund is blocked while its attempt is under way
CanBlockAnyRefund == caseStatus = "executing" /\ disposition = "approve_refund"

CanBlockRefund ==
    /\ caseStatus = "executing"
    /\ disposition = "approve_refund"
    /\ executionStatus = "not_started"

BlockRefundExecutionForAuthority ==
    /\ CanBlockRefund
    /\ caseStatus' = "human_review"
    /\ UNCHANGED <<disposition, executionStatus, followUpStatus, closedAt,
                   linkVars, evidenceVars, reviewVars>>

CanRecordFollowUp(result) ==
    /\ caseStatus = "awaiting_external_follow_up"
    /\ followUpStatus = "pending"
    /\ result \in FollowUpResults

RecordFollowUpResult(result) ==
    /\ CanRecordFollowUp(result)
    /\ followUpStatus' = result
    /\ caseStatus' = "human_review"
    /\ UNCHANGED <<disposition, executionStatus, closedAt,
                   linkVars, evidenceVars, reviewVars>>

(***************************************************************************)
(* _reject: a call whose guard fails records an event and an alert, raises *)
(* TransitionRejected and leaves the case as it was.  Some call is         *)
(* rejected in every state: to select none_selected, for one.              *)
(***************************************************************************)
Reject == UNCHANGED vars

Next ==
    \/ RecordCustomerReport
    \/ \E c \in LookupOutcome, o \in OrderRef : Link(c, o)
    \/ \E c \in LookupOutcome : RequestOrderIdentifierCorrection(c)
    \/ \E id \in Orders, o \in OrderRef : ApplyOrderIdentifierCorrection(id, o)
    \/ FailIntake
    \/ \E s \in ShipmentRef : AttachShipment(s)
    \/ \E e \in Evidence : AttachCarrierEvidence(e)
    \/ \E a \in AddressMatch \ {"unrecorded"} : RecordAddressMatchResult(a)
    \/ \E t \in CaseStatus : TransitionTo(t)
    \/ \E r \in PolicyEvaluation : RecordPolicyEvaluation(r)
    \/ \E r \in ReviewRequest : OpenHumanReview(r)
    \/ \E d \in ReviewDecision, p \in BOOLEAN : RecordHumanReviewDecision(d, p)
    \/ \E d \in Disposition, p \in BOOLEAN : SelectDisposition(d, p)
    \/ \E s \in ExecutionStatus : RecordExecutionStatus(s)
    \/ CompleteExecution
    \/ RouteExecutionFailureToReview
    \/ BlockRefundExecutionForAuthority
    \/ \E r \in FollowUpStatus : RecordFollowUpResult(r)
    \/ Reject

Spec == Init /\ [][Next]_vars

--------------------------------------------------------------------------------
(***************************************************************************)
(* Properties                                                              *)
(***************************************************************************)

\* Every field holds a value its class allows (domain.py 11-67, 430-450).
TypeOK ==
    /\ caseStatus \in CaseStatus
    /\ disposition \in Disposition
    /\ executionStatus \in ExecutionStatus
    /\ followUpStatus \in FollowUpStatus
    /\ closedAt \in BOOLEAN
    /\ customerReport \in BOOLEAN
    /\ customerRef \in LookupOutcome \cup {"none"}
    /\ orderRef \in OrderRef \cup {NoOrder}
    /\ awaitingCorrection \in BOOLEAN
    /\ shipments \subseteq ShipmentRef
    /\ evidence \subseteq Evidence
    /\ addressMatch \in AddressMatch
    /\ evaluations \in Seq(EvaluationRecord)
    /\ requests \subseteq ReviewRequest
    /\ decisions \subseteq Reviews

\* The closing time is there exactly while the case is closed, although three
\* operations close a case and one (_apply_disposition_path) assigns None.
ClosedAtMatchesStatus == closedAt <=> (caseStatus = "closed")

\* The execution status is live exactly for executable dispositions, so a
\* later decision never leaves an attempt of the earlier disposition behind.
ExecutionFollowsDisposition ==
    (executionStatus # "not_applicable") <=> (disposition \in ExecutableDispositions)

\* An attempt whose outcome is unknown holds the case in executing: no
\* transition, review or block takes the case elsewhere meanwhile.
AttemptHoldsCase ==
    /\ executionStatus = "in_progress" => caseStatus = "executing"
    /\ caseStatus = "executing" => disposition \in ExecutableDispositions

\* A refund or replacement that succeeded is settled: the case is completing
\* or closed, and no path leads back to a review that could compensate again.
CompensationIsSettled ==
    (disposition \in RefundOrReplacement /\ executionStatus = "succeeded")
        => caseStatus \in {"executing", "closed"}

\* A follow-up is pending only for an inquiry that was filed, in the one
\* status that can still receive its result.
PendingFollowUpIsFiled ==
    followUpStatus = "pending" =>
        /\ caseStatus = "awaiting_external_follow_up"
        /\ disposition = "open_carrier_inquiry"
        /\ executionStatus = "succeeded"

\* An order is stored only when matched, beside a matched customer; a case
\* that waits for a corrected identifier has the customer and no order.
LinkageIsMatched ==
    /\ orderRef # NoOrder => orderRef.outcome = "matched" /\ customerRef = "matched"
    /\ awaitingCorrection => orderRef = NoOrder /\ customerRef = "matched"

\* Every review was opened on policies some evaluation left unresolved and on
\* evidence of the case, and every decided review was opened.
ReviewsAreGrounded ==
    /\ \A r \in requests :
          /\ r.policies \subseteq UNION {evaluations[i].unresolved : i \in DOMAIN evaluations}
          /\ r.snapshots \subseteq {e.id : e \in evidence}
    /\ decisions \subseteq {r.id : r \in requests}

SafetyInv ==
    /\ ClosedAtMatchesStatus /\ ExecutionFollowsDisposition /\ AttemptHoldsCase
    /\ CompensationIsSettled /\ PendingFollowUpIsFiled /\ LinkageIsMatched

\* A closed case is final: no operation changes any of its statuses again.
ClosedIsFinal == [][caseStatus = "closed" => UNCHANGED statusVars]_vars

\* Linkage is permanent: no retry, correction or review replaces the order or
\* the customer once stored.
LinkageIsPermanent ==
    [][ /\ orderRef # NoOrder => orderRef' = orderRef
        /\ customerRef # "none" => customerRef' = customerRef ]_vars

\* A recorded success is forgotten only when the inquiry it filed has been
\* answered; a recorded failure only by a new decision on the case.
OutcomeIsNotOverwritten ==
    [][ /\ (executionStatus = "succeeded" /\ executionStatus' # "succeeded")
              => followUpStatus \in FollowUpResults
        /\ (executionStatus = "failed" /\ executionStatus' # "failed")
              => caseStatus \in {"human_review", "disposition_selection"} ]_vars

\* Under review the disposition and the execution status change only by the
\* decision of an open review, and a review decides at most once.
ReviewDecidesOnce ==
    [][ (caseStatus = "human_review"
          /\ <<disposition, executionStatus>>' # <<disposition, executionStatus>>)
        => \E r \in requests : r.id \notin decisions
                              /\ decisions' = decisions \cup {r.id} ]_vars

\* docs/03-system-boundaries.md 130: "A refund or replacement cannot close the
\* case until execution succeeds".  transition_to closes a case from
\* human_review whatever its disposition and execution status are.
ApprovalIsNotExecution ==
    (disposition \in RefundOrReplacement /\ caseStatus = "closed")
        => executionStatus = "succeeded"

\* docs/04-decision-log.md 330: while a corrected identifier is awaited, do not
\* "continue to evidence gathering or policy".  transition_to does not look
\* at the flag.
NoEvidenceBeforeCorrection ==
    awaitingCorrection => caseStatus \notin {"evidence_gathering", "policy_review"}

================================================================================
