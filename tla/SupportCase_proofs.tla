--------------------------- MODULE SupportCase_proofs ---------------------------
(***************************************************************************)
(* Proofs about the SupportCase aggregate, for any sets of orders,         *)
(* shipments, evidence, evaluations, reviews and policies.                 *)
(***************************************************************************)
EXTENDS SupportCase, SequenceTheorems, TLAPS

(***************************************************************************)
(* The tables of domain.py, as facts the proofs cite.                      *)
(***************************************************************************)

\* No transition of the table enters or leaves intake, executing or closed
\* except the two that close a case (domain.py 395-419).
LEMMA TransitionTable ==
    ASSUME NEW s \in CaseStatus, NEW t \in SimpleTransitions[s]
    PROVE  /\ t \in CaseStatus
           /\ t \notin {"intake", "intake_failed", "executing"}
           /\ s \notin {"intake", "executing", "awaiting_external_follow_up", "closed"}
BY DEF SimpleTransitions, CaseStatus

\* A disposition leads to a status of the case, and to executing exactly when
\* it is executable (_validated_disposition_path, domain.py 930-944).
LEMMA DispositionPath ==
    ASSUME NEW d \in Disposition
    PROVE  /\ NextStatus(d) \in {"awaiting_customer_action", "executing", "closed"}
           /\ NextExecution(d) \in {"not_applicable", "not_started"}
           /\ NextStatus(d) = "executing" <=> d \in ExecutableDispositions
           /\ NextExecution(d) = "not_started" <=> d \in ExecutableDispositions
           /\ NextStatus(d) = "closed" <=> d \in {"deny", "none_selected"}
BY DEF NextStatus, NextExecution, Disposition, ExecutableDispositions,
       CustomerActionDispositions, RefundOrReplacement

(***************************************************************************)
(* Type correctness                                                        *)
(***************************************************************************)
StatusTypeOK ==
    /\ caseStatus \in CaseStatus
    /\ disposition \in Disposition
    /\ executionStatus \in ExecutionStatus
    /\ followUpStatus \in FollowUpStatus
    /\ closedAt \in BOOLEAN

LinkTypeOK ==
    /\ customerRef \in LookupOutcome \cup {"none"}
    /\ orderRef \in OrderRef \cup {NoOrder}
    /\ awaitingCorrection \in BOOLEAN

EvidenceTypeOK ==
    /\ customerReport \in BOOLEAN
    /\ shipments \subseteq ShipmentRef
    /\ evidence \subseteq Evidence
    /\ addressMatch \in AddressMatch

ReviewTypeOK ==
    /\ evaluations \in Seq(EvaluationRecord)
    /\ requests \subseteq ReviewRequest
    /\ decisions \subseteq Reviews

LEMMA TypeParts == TypeOK <=> StatusTypeOK /\ LinkTypeOK /\ EvidenceTypeOK /\ ReviewTypeOK
BY DEF TypeOK, StatusTypeOK, LinkTypeOK, EvidenceTypeOK, ReviewTypeOK

LEMMA InitTypeOK == Init => TypeOK
BY EmptySeq DEF Init, TypeOK, CaseStatus, Disposition, ExecutionStatus, FollowUpStatus,
   AddressMatch

LEMMA StatusTypeStep == TypeOK /\ [Next]_vars => StatusTypeOK'
<1> SUFFICES ASSUME TypeOK, [Next]_vars PROVE StatusTypeOK'
  OBVIOUS
<1> USE DEF TypeOK, StatusTypeOK
<1>1. CASE RecordCustomerReport
  BY <1>1 DEF RecordCustomerReport, statusVars
<1>2. ASSUME NEW c \in LookupOutcome, NEW o \in OrderRef, Link(c, o) PROVE StatusTypeOK'
  BY <1>2 DEF Link, CaseStatus
<1>3. ASSUME NEW c \in LookupOutcome, RequestOrderIdentifierCorrection(c) PROVE StatusTypeOK'
  BY <1>3 DEF RequestOrderIdentifierCorrection, CaseStatus
<1>4. ASSUME NEW id \in Orders, NEW o \in OrderRef, ApplyOrderIdentifierCorrection(id, o)
      PROVE StatusTypeOK'
  BY <1>4 DEF ApplyOrderIdentifierCorrection, CaseStatus
<1>5. CASE FailIntake
  BY <1>5 DEF FailIntake, CaseStatus
<1>6. ASSUME NEW s \in ShipmentRef, AttachShipment(s) PROVE StatusTypeOK'
  BY <1>6 DEF AttachShipment, statusVars
<1>7. ASSUME NEW e \in Evidence, AttachCarrierEvidence(e) PROVE StatusTypeOK'
  BY <1>7 DEF AttachCarrierEvidence, statusVars
<1>8. ASSUME NEW a \in AddressMatch \ {"unrecorded"}, RecordAddressMatchResult(a)
      PROVE StatusTypeOK'
  BY <1>8 DEF RecordAddressMatchResult, statusVars
<1>9. ASSUME NEW t \in CaseStatus, TransitionTo(t) PROVE StatusTypeOK'
  BY <1>9 DEF TransitionTo
<1>10. ASSUME NEW r \in PolicyEvaluation, RecordPolicyEvaluation(r) PROVE StatusTypeOK'
  BY <1>10 DEF RecordPolicyEvaluation, RouteStatus, PolicyEvaluation, PolicyRoute, CaseStatus
<1>11. ASSUME NEW r \in ReviewRequest, OpenHumanReview(r) PROVE StatusTypeOK'
  BY <1>11 DEF OpenHumanReview, statusVars
<1>12. ASSUME NEW d \in ReviewDecision, NEW p \in BOOLEAN, RecordHumanReviewDecision(d, p)
       PROVE StatusTypeOK'
  <2>1. d.disposition \in Disposition
    BY DEF ReviewDecision
  <2> QED
    BY <1>12, <2>1, DispositionPath DEF RecordHumanReviewDecision, ApplyDispositionPath,
       CaseStatus, ExecutionStatus
<1>13. ASSUME NEW d \in Disposition, NEW p \in BOOLEAN, SelectDisposition(d, p)
       PROVE StatusTypeOK'
  BY <1>13, DispositionPath DEF SelectDisposition, ApplyDispositionPath,
     CaseStatus, ExecutionStatus
<1>14. ASSUME NEW s \in ExecutionStatus, RecordExecutionStatus(s) PROVE StatusTypeOK'
  BY <1>14 DEF RecordExecutionStatus
<1>15. CASE CompleteExecution
  BY <1>15 DEF CompleteExecution, CaseStatus, FollowUpStatus
<1>16. CASE RouteExecutionFailureToReview
  BY <1>16 DEF RouteExecutionFailureToReview, CaseStatus
<1>17. CASE BlockRefundExecutionForAuthority
  BY <1>17 DEF BlockRefundExecutionForAuthority, CaseStatus
<1>18. ASSUME NEW r \in FollowUpStatus, RecordFollowUpResult(r) PROVE StatusTypeOK'
  BY <1>18 DEF RecordFollowUpResult, CaseStatus
<1>19. CASE UNCHANGED vars
  BY <1>19 DEF vars, statusVars
<1> QED
  BY <1>1, <1>2, <1>3, <1>4, <1>5, <1>6, <1>7, <1>8, <1>9, <1>10, <1>11, <1>12, <1>13,
     <1>14, <1>15, <1>16, <1>17, <1>18, <1>19 DEF Next, Reject

(***************************************************************************)
(* Which operations write which fields                                     *)
(***************************************************************************)
Intake ==
    \/ \E c \in LookupOutcome, o \in OrderRef : Link(c, o)
    \/ \E c \in LookupOutcome : RequestOrderIdentifierCorrection(c)
    \/ \E id \in Orders, o \in OrderRef : ApplyOrderIdentifierCorrection(id, o)

Gathering ==
    \/ RecordCustomerReport
    \/ \E s \in ShipmentRef : AttachShipment(s)
    \/ \E e \in Evidence : AttachCarrierEvidence(e)
    \/ \E a \in AddressMatch \ {"unrecorded"} : RecordAddressMatchResult(a)

Reviewing ==
    \/ \E r \in PolicyEvaluation : RecordPolicyEvaluation(r)
    \/ \E r \in ReviewRequest : OpenHumanReview(r)
    \/ \E d \in ReviewDecision, p \in BOOLEAN : RecordHumanReviewDecision(d, p)

Moving ==
    \/ FailIntake
    \/ \E t \in CaseStatus : TransitionTo(t)
    \/ \E d \in Disposition, p \in BOOLEAN : SelectDisposition(d, p)
    \/ \E s \in ExecutionStatus : RecordExecutionStatus(s)
    \/ CompleteExecution
    \/ RouteExecutionFailureToReview
    \/ BlockRefundExecutionForAuthority
    \/ \E r \in FollowUpStatus : RecordFollowUpResult(r)

LEMMA NextParts == [Next]_vars <=> Intake \/ Gathering \/ Reviewing \/ Moving \/ UNCHANGED vars
BY DEF Next, Intake, Gathering, Reviewing, Moving, Reject

LEMMA GatheringFrame == Gathering => UNCHANGED <<statusVars, linkVars, reviewVars>>
BY DEF Gathering, RecordCustomerReport, AttachShipment, AttachCarrierEvidence,
   RecordAddressMatchResult

LEMMA MovingFrame == Moving => UNCHANGED <<linkVars, evidenceVars, reviewVars>>
BY DEF Moving, FailIntake, TransitionTo, SelectDisposition, RecordExecutionStatus,
   CompleteExecution, RouteExecutionFailureToReview, BlockRefundExecutionForAuthority,
   RecordFollowUpResult

LEMMA ReviewingFrame == Reviewing => UNCHANGED <<linkVars, evidenceVars>>
BY DEF Reviewing, RecordPolicyEvaluation, OpenHumanReview, RecordHumanReviewDecision

LEMMA IntakeFrame ==
    Intake => UNCHANGED <<disposition, executionStatus, followUpStatus, closedAt,
                          evidenceVars, reviewVars>>
BY DEF Intake, Link, RequestOrderIdentifierCorrection, ApplyOrderIdentifierCorrection

LEMMA StutterFrame == UNCHANGED vars => UNCHANGED <<statusVars, linkVars, evidenceVars, reviewVars>>
BY DEF vars

LEMMA LinkTypeStep == TypeOK /\ [Next]_vars => LinkTypeOK'
<1> SUFFICES ASSUME TypeOK, [Next]_vars PROVE LinkTypeOK'
  OBVIOUS
<1> USE DEF TypeOK, LinkTypeOK
<1>1. CASE UNCHANGED linkVars
  BY <1>1 DEF linkVars
<1>2. CASE Intake
  BY <1>2 DEF Intake, Link, RequestOrderIdentifierCorrection, CanRequestCorrection,
     ApplyOrderIdentifierCorrection
<1> QED
  BY <1>1, <1>2, NextParts, GatheringFrame, MovingFrame, ReviewingFrame, StutterFrame

LEMMA EvidenceTypeStep == TypeOK /\ [Next]_vars => EvidenceTypeOK'
<1> SUFFICES ASSUME TypeOK, [Next]_vars PROVE EvidenceTypeOK'
  OBVIOUS
<1> USE DEF TypeOK, EvidenceTypeOK
<1>1. CASE UNCHANGED evidenceVars
  BY <1>1 DEF evidenceVars
<1>2. CASE Gathering
  BY <1>2 DEF Gathering, RecordCustomerReport, AttachShipment, AttachCarrierEvidence,
     RecordAddressMatchResult
<1> QED
  BY <1>1, <1>2, NextParts, IntakeFrame, MovingFrame, ReviewingFrame, StutterFrame

LEMMA ReviewTypeStep == TypeOK /\ [Next]_vars => ReviewTypeOK'
<1> SUFFICES ASSUME TypeOK, [Next]_vars PROVE ReviewTypeOK'
  OBVIOUS
<1> USE DEF TypeOK, ReviewTypeOK
<1>1. CASE UNCHANGED reviewVars
  BY <1>1 DEF reviewVars
<1>2. ASSUME NEW r \in PolicyEvaluation, RecordPolicyEvaluation(r) PROVE ReviewTypeOK'
  <2>1. [id |-> r.id, unresolved |-> r.unresolved] \in EvaluationRecord
    BY DEF PolicyEvaluation, EvaluationRecord
  <2> QED
    BY <1>2, <2>1, AppendProperties DEF RecordPolicyEvaluation
<1>3. ASSUME NEW r \in ReviewRequest, OpenHumanReview(r) PROVE ReviewTypeOK'
  BY <1>3 DEF OpenHumanReview
<1>4. ASSUME NEW d \in ReviewDecision, NEW p \in BOOLEAN, RecordHumanReviewDecision(d, p)
      PROVE ReviewTypeOK'
  BY <1>4 DEF RecordHumanReviewDecision, ReviewDecision
<1> QED
  BY <1>1, <1>2, <1>3, <1>4, NextParts, IntakeFrame, GatheringFrame, MovingFrame,
     StutterFrame DEF Reviewing

\* Every reachable case is well-typed (TypeOK), whatever calls are made on it.
THEOREM TypeCorrect == Spec => []TypeOK
<1>1. Init => TypeOK
  BY InitTypeOK
<1>2. TypeOK /\ [Next]_vars => TypeOK'
  <2> SUFFICES ASSUME TypeOK, [Next]_vars PROVE TypeOK'
    OBVIOUS
  <2>1. StatusTypeOK' /\ LinkTypeOK' /\ EvidenceTypeOK' /\ ReviewTypeOK'
    BY StatusTypeStep, LinkTypeStep, EvidenceTypeStep, ReviewTypeStep
  <2> QED
    BY <2>1 DEF TypeOK, StatusTypeOK, LinkTypeOK, EvidenceTypeOK, ReviewTypeOK
<1> QED
  BY <1>1, <1>2, PTL DEF Spec

(***************************************************************************)
(* Safety.  SafetyInv is not inductive: it rests on a case in intake being *)
(* neither linked nor asked for a correction, so that Link neither         *)
(* overwrites an order nor keeps the flag.  That an inquiry which left     *)
(* executing has a follow-up is added for OutcomeIsNotOverwritten.         *)
(***************************************************************************)
IntakeIsFresh ==
    caseStatus = "intake" => ~awaitingCorrection /\ orderRef = NoOrder /\ customerRef = "none"

InquiryIsAwaited ==
    (disposition = "open_carrier_inquiry" /\ executionStatus = "succeeded"
       /\ caseStatus # "executing") => followUpStatus # "not_applicable"

StatusInv ==
    /\ ClosedAtMatchesStatus /\ ExecutionFollowsDisposition /\ AttemptHoldsCase
    /\ CompensationIsSettled /\ PendingFollowUpIsFiled /\ InquiryIsAwaited

LinkInv == LinkageIsMatched /\ IntakeIsFresh

IInv == TypeOK /\ StatusInv /\ LinkInv

LEMMA InitIInv == Init => IInv
<1> SUFFICES ASSUME Init PROVE IInv
  OBVIOUS
<1>1. StatusInv
  BY DEF Init, StatusInv, ClosedAtMatchesStatus, ExecutionFollowsDisposition,
     AttemptHoldsCase, CompensationIsSettled, PendingFollowUpIsFiled, InquiryIsAwaited,
     ExecutableDispositions, RefundOrReplacement
<1>2. LinkInv
  BY DEF Init, LinkInv, LinkageIsMatched, IntakeIsFresh
<1> QED
  BY <1>1, <1>2, InitTypeOK DEF IInv

\* What a decision does to the statuses: the step the invariant is hardest on,
\* since five fields change together (domain.py 947-956).
LEMMA DispositionKeepsStatusInv ==
    ASSUME NEW d \in Disposition, d # "none_selected", TypeOK, StatusInv,
           caseStatus \in {"human_review", "disposition_selection"}, ApplyDispositionPath(d)
    PROVE  StatusInv'
<1>1. /\ caseStatus' = NextStatus(d) /\ executionStatus' = NextExecution(d)
      /\ disposition' = d /\ closedAt' = (d = "deny") /\ followUpStatus' = followUpStatus
  BY DEF ApplyDispositionPath
<1>2. ClosedAtMatchesStatus'
  BY <1>1, DispositionPath DEF ClosedAtMatchesStatus
<1>3. ExecutionFollowsDisposition'
  BY <1>1, DispositionPath DEF ExecutionFollowsDisposition
<1>4. AttemptHoldsCase'
  BY <1>1, DispositionPath DEF AttemptHoldsCase
<1>5. CompensationIsSettled'
  BY <1>1, DispositionPath DEF CompensationIsSettled
<1>6. PendingFollowUpIsFiled'
  BY <1>1 DEF StatusInv, PendingFollowUpIsFiled
<1>7. InquiryIsAwaited'
  BY <1>1, DispositionPath DEF InquiryIsAwaited
<1> QED
  BY <1>2, <1>3, <1>4, <1>5, <1>6, <1>7 DEF StatusInv

LEMMA StatusInvStep == IInv /\ [Next]_vars => StatusInv'
<1> SUFFICES ASSUME IInv, [Next]_vars PROVE StatusInv'
  OBVIOUS
<1>0. TypeOK /\ StatusInv
  BY DEF IInv
<1> USE DEF ClosedAtMatchesStatus, ExecutionFollowsDisposition, AttemptHoldsCase,
            CompensationIsSettled, PendingFollowUpIsFiled, InquiryIsAwaited
<1>1. CASE UNCHANGED statusVars
  BY <1>0, <1>1 DEF StatusInv, statusVars
<1>2. ASSUME caseStatus \notin {"executing", "closed", "awaiting_external_follow_up"},
             caseStatus' \notin {"executing", "closed"},
             UNCHANGED <<disposition, executionStatus, followUpStatus, closedAt>>
      PROVE  StatusInv'
  BY <1>0, <1>2 DEF StatusInv
<1>3. CASE Intake
  <2>1. caseStatus \in {"intake", "awaiting_customer_action"}
    BY <1>3 DEF Intake, Link, CanLink, RequestOrderIdentifierCorrection,
       CanRequestCorrection, ApplyOrderIdentifierCorrection, CanApplyCorrection
  <2>2. caseStatus' \in {"linked", "awaiting_customer_action"}
    BY <1>3, <2>1 DEF Intake, Link, RequestOrderIdentifierCorrection,
       ApplyOrderIdentifierCorrection, CanApplyCorrection
  <2> QED
    BY <1>2, <1>3, <2>1, <2>2, IntakeFrame
<1>4. CASE FailIntake
  BY <1>2, <1>4 DEF FailIntake, CanFailIntake
<1>5. ASSUME NEW t \in CaseStatus, TransitionTo(t) PROVE StatusInv'
  <2>1. /\ caseStatus \notin {"executing", "closed", "awaiting_external_follow_up"}
        /\ t # "executing"
    BY <1>0, <1>5, TransitionTable DEF TransitionTo, CanTransition, TypeOK
  <2> QED
    BY <1>0, <1>5, <2>1 DEF TransitionTo, TypeOK, StatusInv
<1>6. ASSUME NEW r \in PolicyEvaluation, RecordPolicyEvaluation(r) PROVE StatusInv'
  <2>1. caseStatus' \in {"disposition_selection", "awaiting_customer_action", "human_review"}
    BY <1>6 DEF RecordPolicyEvaluation, RouteStatus, PolicyEvaluation, PolicyRoute
  <2> QED
    BY <1>2, <1>6, <2>1 DEF RecordPolicyEvaluation, CanRecordEvaluation
<1>7. ASSUME NEW r \in ReviewRequest, OpenHumanReview(r) PROVE StatusInv'
  BY <1>1, <1>7 DEF OpenHumanReview
<1>8. ASSUME NEW d \in ReviewDecision, NEW p \in BOOLEAN, RecordHumanReviewDecision(d, p)
      PROVE StatusInv'
  <2>1. d.disposition \in Disposition /\ d.disposition # "none_selected"
    BY DEF ReviewDecision
  <2> QED
    BY <1>0, <1>8, <2>1, DispositionKeepsStatusInv DEF RecordHumanReviewDecision, CanDecide
<1>9. ASSUME NEW d \in Disposition, NEW p \in BOOLEAN, SelectDisposition(d, p)
      PROVE StatusInv'
  BY <1>0, <1>9, DispositionKeepsStatusInv DEF SelectDisposition, CanSelectDisposition,
     CanSelect
<1>10. ASSUME NEW s \in ExecutionStatus, RecordExecutionStatus(s) PROVE StatusInv'
  <2>1. /\ caseStatus = "executing" /\ caseStatus' = "executing"
        /\ executionStatus # "not_applicable" /\ executionStatus' # "not_applicable"
        /\ executionStatus # "succeeded"
        /\ UNCHANGED <<disposition, followUpStatus, closedAt>>
    BY <1>0, <1>10 DEF RecordExecutionStatus, CanRecordExecution, ExecutionProgressions, TypeOK
  <2> QED
    BY <1>0, <2>1 DEF StatusInv
<1>11. CASE CompleteExecution
  BY <1>0, <1>11 DEF CompleteExecution, CanCompleteExecution, StatusInv, RefundOrReplacement
<1>12. CASE RouteExecutionFailureToReview
  BY <1>0, <1>12 DEF RouteExecutionFailureToReview, CanRouteFailure, StatusInv
<1>13. CASE BlockRefundExecutionForAuthority
  BY <1>0, <1>13 DEF BlockRefundExecutionForAuthority, CanBlockRefund, StatusInv
<1>14. ASSUME NEW r \in FollowUpStatus, RecordFollowUpResult(r) PROVE StatusInv'
  BY <1>0, <1>14 DEF RecordFollowUpResult, CanRecordFollowUp, FollowUpResults, StatusInv,
     RefundOrReplacement
<1> QED
  BY <1>1, <1>3, <1>4, <1>5, <1>6, <1>7, <1>8, <1>9, <1>10, <1>11, <1>12, <1>13, <1>14,
     NextParts, GatheringFrame, StutterFrame DEF Reviewing, Moving

\* No operation takes a case back to intake.
LEMMA IntakeIsLeftForGood ==
    ASSUME TypeOK, [Next]_vars, caseStatus' = "intake"
    PROVE  caseStatus = "intake" /\ UNCHANGED linkVars
<1>1. CASE Gathering \/ UNCHANGED vars
  BY <1>1, GatheringFrame, StutterFrame DEF statusVars
<1>2. CASE Intake
  BY <1>2 DEF Intake, Link, RequestOrderIdentifierCorrection,
     ApplyOrderIdentifierCorrection, CanApplyCorrection
<1>3. CASE Reviewing
  <2>1. ASSUME NEW r \in PolicyEvaluation, RecordPolicyEvaluation(r) PROVE FALSE
    BY <2>1 DEF RecordPolicyEvaluation, RouteStatus, PolicyEvaluation, PolicyRoute
  <2>2. ASSUME NEW r \in ReviewRequest, OpenHumanReview(r) PROVE FALSE
    BY <2>2 DEF OpenHumanReview, CanOpenReview, statusVars
  <2>3. ASSUME NEW d \in ReviewDecision, NEW p \in BOOLEAN, RecordHumanReviewDecision(d, p)
        PROVE FALSE
    <3>1. d.disposition \in Disposition
      BY DEF ReviewDecision
    <3> QED
      BY <2>3, <3>1, DispositionPath DEF RecordHumanReviewDecision, ApplyDispositionPath
  <2> QED
    BY <1>3, <2>1, <2>2, <2>3 DEF Reviewing
<1>4. CASE Moving
  <2>1. ASSUME NEW t \in CaseStatus, TransitionTo(t) PROVE FALSE
    BY <2>1, TransitionTable DEF TransitionTo, CanTransition, TypeOK
  <2>2. ASSUME NEW d \in Disposition, NEW p \in BOOLEAN, SelectDisposition(d, p) PROVE FALSE
    BY <2>2, DispositionPath DEF SelectDisposition, ApplyDispositionPath
  <2>3. ASSUME NEW s \in ExecutionStatus, RecordExecutionStatus(s) PROVE FALSE
    BY <2>3 DEF RecordExecutionStatus, CanRecordExecution
  <2> QED
    BY <1>4, <2>1, <2>2, <2>3 DEF Moving, FailIntake, CompleteExecution,
       RouteExecutionFailureToReview, BlockRefundExecutionForAuthority, RecordFollowUpResult
<1> QED
  BY <1>1, <1>2, <1>3, <1>4, NextParts

LEMMA LinkInvStep == IInv /\ [Next]_vars => LinkInv'
<1> SUFFICES ASSUME IInv, [Next]_vars PROVE LinkInv'
  OBVIOUS
<1>0. TypeOK /\ LinkageIsMatched /\ IntakeIsFresh
  BY DEF IInv, LinkInv
<1>1. IntakeIsFresh'
  BY <1>0, IntakeIsLeftForGood DEF IntakeIsFresh, linkVars
<1>2. LinkageIsMatched'
  <2>1. CASE UNCHANGED linkVars
    BY <1>0, <2>1 DEF linkVars, LinkageIsMatched
  <2>2. ASSUME NEW c \in LookupOutcome, NEW o \in OrderRef, Link(c, o)
        PROVE LinkageIsMatched'
    BY <1>0, <2>2 DEF Link, CanLink, LinkageIsMatched, IntakeIsFresh
  <2>3. ASSUME NEW c \in LookupOutcome, RequestOrderIdentifierCorrection(c)
        PROVE LinkageIsMatched'
    BY <2>3 DEF RequestOrderIdentifierCorrection, CanRequestCorrection, LinkageIsMatched
  <2>4. ASSUME NEW id \in Orders, NEW o \in OrderRef, ApplyOrderIdentifierCorrection(id, o)
        PROVE LinkageIsMatched'
    BY <1>0, <2>4 DEF ApplyOrderIdentifierCorrection, CanApplyCorrection, LinkageIsMatched
  <2> QED
    BY <2>1, <2>2, <2>3, <2>4, NextParts, GatheringFrame, MovingFrame, ReviewingFrame,
       StutterFrame DEF Intake
<1> QED
  BY <1>1, <1>2 DEF LinkInv

LEMMA IInvStep == IInv /\ [Next]_vars => IInv'
<1> SUFFICES ASSUME IInv, [Next]_vars PROVE IInv'
  OBVIOUS
<1>1. TypeOK'
  BY StatusTypeStep, LinkTypeStep, EvidenceTypeStep, ReviewTypeStep DEF IInv, TypeOK,
     StatusTypeOK, LinkTypeOK, EvidenceTypeOK, ReviewTypeOK
<1> QED
  BY <1>1, StatusInvStep, LinkInvStep DEF IInv

THEOREM Invariance == Spec => []IInv
BY InitIInv, IInvStep, PTL DEF Spec

\* On every case, whatever calls are made on it: the closing time matches the
\* status, the execution status its disposition, an attempt under way holds the
\* case, a compensation that succeeded is settled, a pending follow-up was
\* filed, and a stored order is a matched one (SafetyInv).
THEOREM SafetyCorrect == Spec => []SafetyInv
<1>1. IInv => SafetyInv
  BY DEF IInv, StatusInv, LinkInv, SafetyInv
<1> QED
  BY <1>1, Invariance, PTL

\* The execution status of a case fits its disposition, in every reachable case.
THEOREM ExecutionFits == Spec => []ExecutionFollowsDisposition
<1>1. SafetyInv => ExecutionFollowsDisposition
  BY DEF SafetyInv
<1> QED
  BY <1>1, SafetyCorrect, PTL

\* A case does not leave executing while an attempt is under way.
THEOREM AttemptsHoldTheCase == Spec => []AttemptHoldsCase
<1>1. SafetyInv => AttemptHoldsCase
  BY DEF SafetyInv
<1> QED
  BY <1>1, SafetyCorrect, PTL

\* A compensation that was carried out is settled: its case is closed, or about
\* to be completed.
THEOREM CompensationsAreSettled == Spec => []CompensationIsSettled
<1>1. SafetyInv => CompensationIsSettled
  BY DEF SafetyInv
<1> QED
  BY <1>1, SafetyCorrect, PTL

\* A pending follow-up was filed with the carrier, and the case waits for it.
THEOREM FollowUpsAreFiled == Spec => []PendingFollowUpIsFiled
<1>1. SafetyInv => PendingFollowUpIsFiled
  BY DEF SafetyInv
<1> QED
  BY <1>1, SafetyCorrect, PTL

(***************************************************************************)
(* What no operation may do                                                *)
(***************************************************************************)

\* A closed case is final: no operation changes any of its statuses again
\* (ClosedIsFinal; the guards of every operation of domain.py).
THEOREM ClosedCasesAreFinal == Spec => ClosedIsFinal
<1>1. IInv /\ [Next]_vars => (caseStatus = "closed" => UNCHANGED statusVars)
  <2> SUFFICES ASSUME IInv, [Next]_vars, caseStatus = "closed" PROVE UNCHANGED statusVars
    OBVIOUS
  <2>1. CASE Intake
    BY <2>1 DEF Intake, Link, CanLink, RequestOrderIdentifierCorrection,
       CanRequestCorrection, ApplyOrderIdentifierCorrection, CanApplyCorrection
  <2>2. CASE Reviewing
    BY <2>2 DEF Reviewing, RecordPolicyEvaluation, CanRecordEvaluation, OpenHumanReview,
       CanOpenReview, RecordHumanReviewDecision, CanDecide
  <2>3. CASE Moving
    <3>1. ASSUME NEW t \in CaseStatus, TransitionTo(t) PROVE FALSE
      BY <3>1, TransitionTable DEF TransitionTo, CanTransition, IInv, TypeOK
    <3> QED
      BY <2>3, <3>1 DEF Moving, FailIntake, CanFailIntake, SelectDisposition,
         CanSelectDisposition, RecordExecutionStatus, CanRecordExecution, CompleteExecution,
         CanCompleteExecution, RouteExecutionFailureToReview, CanRouteFailure,
         BlockRefundExecutionForAuthority, CanBlockRefund, RecordFollowUpResult,
         CanRecordFollowUp
  <2> QED
    BY <2>1, <2>2, <2>3, NextParts, GatheringFrame, StutterFrame
<1> QED
  BY <1>1, Invariance, PTL DEF Spec, ClosedIsFinal

\* Linkage is permanent: nothing replaces the order or the customer once stored
\* (LinkageIsPermanent; link, domain.py 549-581, and the correction, 583-687).
THEOREM LinkageNeverChanges == Spec => LinkageIsPermanent
<1> DEFINE Kept == /\ orderRef # NoOrder => orderRef' = orderRef
                   /\ customerRef # "none" => customerRef' = customerRef
<1>1. IInv /\ [Next]_vars => Kept
  <2> SUFFICES ASSUME IInv, [Next]_vars PROVE Kept
    OBVIOUS
  <2>1. CASE UNCHANGED linkVars
    BY <2>1 DEF linkVars
  <2>2. CASE Intake
    BY <2>2 DEF Intake, Link, CanLink, RequestOrderIdentifierCorrection,
       CanRequestCorrection, ApplyOrderIdentifierCorrection, CanApplyCorrection,
       IInv, LinkInv, IntakeIsFresh
  <2> QED
    BY <2>1, <2>2, NextParts, GatheringFrame, MovingFrame, ReviewingFrame, StutterFrame
<1> QED
  BY <1>1, Invariance, PTL DEF Spec, LinkageIsPermanent

\* A decision is taken in human review or in disposition selection only, and it
\* is the one step that resets the execution status (domain.py 834-956).
LEMMA OnlyDecisionsReset ==
    ASSUME TypeOK, [Next]_vars, executionStatus' # executionStatus
    PROVE  \/ caseStatus \in {"human_review", "disposition_selection"}
           \/ /\ caseStatus = "executing"
              /\ executionStatus \in {"not_started", "in_progress"}
<1>1. CASE Intake \/ Gathering \/ UNCHANGED vars
  BY <1>1, IntakeFrame, GatheringFrame, StutterFrame DEF statusVars
<1>2. CASE Reviewing
  BY <1>2 DEF Reviewing, RecordPolicyEvaluation, OpenHumanReview, statusVars,
     RecordHumanReviewDecision, CanDecide
<1>3. CASE Moving
  <2>1. ASSUME NEW s \in ExecutionStatus, RecordExecutionStatus(s)
        PROVE  caseStatus = "executing" /\ executionStatus \in {"not_started", "in_progress"}
    BY <2>1 DEF RecordExecutionStatus, CanRecordExecution, ExecutionProgressions, TypeOK
  <2> QED
    BY <1>3, <2>1 DEF Moving, FailIntake, TransitionTo, SelectDisposition,
       CanSelectDisposition, CompleteExecution, RouteExecutionFailureToReview,
       BlockRefundExecutionForAuthority, RecordFollowUpResult
<1> QED
  BY <1>1, <1>2, <1>3, NextParts

\* A recorded success is forgotten only when the inquiry it filed has been
\* answered, a recorded failure only by a new decision (OutcomeIsNotOverwritten).
THEOREM OutcomesAreKept == Spec => OutcomeIsNotOverwritten
<1> DEFINE Kept ==
      /\ (executionStatus = "succeeded" /\ executionStatus' # "succeeded")
            => followUpStatus \in FollowUpResults
      /\ (executionStatus = "failed" /\ executionStatus' # "failed")
            => caseStatus \in {"human_review", "disposition_selection"}
<1>1. IInv /\ [Next]_vars => Kept
  <2> SUFFICES ASSUME IInv, [Next]_vars PROVE Kept
    OBVIOUS
  <2>1. ASSUME executionStatus = "failed", executionStatus' # "failed"
        PROVE  caseStatus \in {"human_review", "disposition_selection"}
    BY <2>1, OnlyDecisionsReset DEF IInv
  <2>2. ASSUME executionStatus = "succeeded", executionStatus' # "succeeded"
        PROVE  followUpStatus \in FollowUpResults
    <3>1. caseStatus \in {"human_review", "disposition_selection"}
      BY <2>2, OnlyDecisionsReset DEF IInv
    <3>2. disposition = "open_carrier_inquiry"
      BY <2>2, <3>1 DEF IInv, StatusInv, ExecutionFollowsDisposition, CompensationIsSettled,
         ExecutableDispositions
    <3>3. followUpStatus \notin {"not_applicable", "pending"}
      BY <2>2, <3>1, <3>2 DEF IInv, StatusInv, InquiryIsAwaited, PendingFollowUpIsFiled
    <3> QED
      BY <3>3 DEF IInv, TypeOK, FollowUpStatus
  <2> QED
    BY <2>1, <2>2
<1> QED
  BY <1>1, Invariance, PTL DEF Spec, OutcomeIsNotOverwritten

\* Under review the disposition and the execution status change only by the
\* decision of an open review that was not decided before (ReviewDecidesOnce).
THEOREM ReviewsDecideOnce == Spec => ReviewDecidesOnce
<1> DEFINE Decided == \E r \in requests : r.id \notin decisions
                                          /\ decisions' = decisions \cup {r.id}
           Same == <<disposition, executionStatus>>' = <<disposition, executionStatus>>
           Differ == <<disposition, executionStatus>>' # <<disposition, executionStatus>>
<1>1. IInv /\ [Next]_vars => (caseStatus = "human_review" /\ Differ => Decided)
  <2> SUFFICES ASSUME IInv, [Next]_vars, caseStatus = "human_review" PROVE Same \/ Decided
    OBVIOUS
  <2>1. CASE Intake \/ Gathering \/ UNCHANGED vars
    BY <2>1, IntakeFrame, GatheringFrame, StutterFrame DEF statusVars
  <2>2. ASSUME NEW d \in ReviewDecision, NEW p \in BOOLEAN, RecordHumanReviewDecision(d, p)
        PROVE  Decided
    BY <2>2 DEF RecordHumanReviewDecision, CanDecide
  <2>3. CASE Reviewing
    BY <2>2, <2>3 DEF Reviewing, RecordPolicyEvaluation, OpenHumanReview, statusVars
  <2>4. CASE Moving
    BY <2>4 DEF Moving, FailIntake, TransitionTo, SelectDisposition, CanSelectDisposition,
       RecordExecutionStatus, CanRecordExecution, CompleteExecution,
       RouteExecutionFailureToReview, BlockRefundExecutionForAuthority, RecordFollowUpResult
  <2> QED
    BY <2>1, <2>3, <2>4, NextParts
<1> QED
  BY <1>1, Invariance, PTL DEF Spec, ReviewDecidesOnce

(***************************************************************************)
(* Reviews are grounded: the policies a review names were left unresolved  *)
(* by an evaluation, its evidence is the case's.  Both sets only grow.     *)
(***************************************************************************)
EverUnresolved == UNION {evaluations[i].unresolved : i \in DOMAIN evaluations}
AttachedIds == {e.id : e \in evidence}

LEMMA LatestWasUnresolved == evaluations \in Seq(EvaluationRecord)
                                => LatestUnresolved \subseteq EverUnresolved
<1> SUFFICES ASSUME evaluations \in Seq(EvaluationRecord), evaluations # <<>>
             PROVE  evaluations[Len(evaluations)].unresolved \subseteq EverUnresolved
  BY DEF LatestUnresolved
<1>1. Len(evaluations) \in DOMAIN evaluations
  OBVIOUS
<1> QED
  BY <1>1 DEF EverUnresolved

LEMMA GroundsGrow ==
    ASSUME TypeOK, [Next]_vars
    PROVE  EverUnresolved \subseteq EverUnresolved' /\ AttachedIds \subseteq AttachedIds'
<1>1. EverUnresolved \subseteq EverUnresolved'
  <2>1. CASE UNCHANGED evaluations
    BY <2>1 DEF EverUnresolved
  <2>2. ASSUME NEW r \in PolicyEvaluation, RecordPolicyEvaluation(r)
        PROVE  EverUnresolved \subseteq EverUnresolved'
    <3>1. /\ DOMAIN evaluations \subseteq DOMAIN evaluations'
          /\ \A i \in DOMAIN evaluations : evaluations'[i] = evaluations[i]
      BY <2>2 DEF RecordPolicyEvaluation, TypeOK
    <3> QED
      BY <3>1 DEF EverUnresolved
  <2> QED
    BY <2>1, <2>2, NextParts, IntakeFrame, GatheringFrame, MovingFrame, StutterFrame
       DEF Reviewing, reviewVars, OpenHumanReview, RecordHumanReviewDecision
<1>2. AttachedIds \subseteq AttachedIds'
  <2>1. evidence \subseteq evidence'
    BY NextParts, IntakeFrame, MovingFrame, ReviewingFrame, StutterFrame
       DEF evidenceVars, Gathering, RecordCustomerReport, AttachShipment,
           AttachCarrierEvidence, RecordAddressMatchResult
  <2> QED
    BY <2>1 DEF AttachedIds
<1> QED
  BY <1>1, <1>2

\* Every review names policies that were left unresolved and evidence of the
\* case, and every decided review was opened (ReviewsAreGrounded).
THEOREM ReviewsRestOnTheCase == Spec => []ReviewsAreGrounded
<1> DEFINE Grounded(r) == r.policies \subseteq EverUnresolved /\ r.snapshots \subseteq AttachedIds
<1>1. ReviewsAreGrounded <=> /\ \A r \in requests : Grounded(r)
                             /\ decisions \subseteq {r.id : r \in requests}
  BY DEF ReviewsAreGrounded, EverUnresolved, AttachedIds
<1>2. Init => ReviewsAreGrounded
  BY DEF Init, ReviewsAreGrounded
<1>3. TypeOK /\ ReviewsAreGrounded /\ [Next]_vars => ReviewsAreGrounded'
  <2> SUFFICES ASSUME TypeOK, ReviewsAreGrounded, [Next]_vars PROVE ReviewsAreGrounded'
    OBVIOUS
  <2>1. \A r \in requests : Grounded(r)'
    BY <1>1, GroundsGrow
  <2>2. CASE UNCHANGED <<requests, decisions>>
    BY <2>1, <2>2, <1>1 DEF ReviewsAreGrounded, EverUnresolved, AttachedIds
  <2>3. ASSUME NEW q \in ReviewRequest, OpenHumanReview(q) PROVE ReviewsAreGrounded'
    <3>1. Grounded(q)
      BY <2>3, LatestWasUnresolved DEF OpenHumanReview, CanOpenReview, TypeOK, AttachedIds
    <3>2. Grounded(q)'
      BY <3>1, GroundsGrow
    <3>3. requests' = requests \cup {q} /\ decisions' = decisions
      BY <2>3 DEF OpenHumanReview
    <3> QED
      BY <2>1, <3>2, <3>3 DEF ReviewsAreGrounded, EverUnresolved, AttachedIds
  <2>4. ASSUME NEW d \in ReviewDecision, NEW p \in BOOLEAN, RecordHumanReviewDecision(d, p)
        PROVE  ReviewsAreGrounded'
    <3>1. requests' = requests /\ decisions' = decisions \cup {d.id}
      BY <2>4 DEF RecordHumanReviewDecision
    <3>2. d.id \in {r.id : r \in requests}
      BY <2>4 DEF RecordHumanReviewDecision, CanDecide
    <3> QED
      BY <2>1, <3>1, <3>2 DEF ReviewsAreGrounded, EverUnresolved, AttachedIds
  <2> QED
    BY <2>2, <2>3, <2>4, NextParts, IntakeFrame, GatheringFrame, MovingFrame, StutterFrame
       DEF Reviewing, reviewVars, RecordPolicyEvaluation
<1> QED
  BY <1>2, <1>3, TypeCorrect, PTL DEF Spec

================================================================================
