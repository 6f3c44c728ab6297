------------------------------- MODULE Trajectory -------------------------------
(***************************************************************************)
(* The trace a run writes (tracing.py, record and change of workflow.py    *)
(* 584-608) and the checks that read it (trajectory_evaluation.py,         *)
(* failures.py): every step of Workflow with the events it appends.        *)
(*                                                                         *)
(* The checks ask whether an event occurs and which came first, so the     *)
(* trace holds the event types in the order of their first occurrence.     *)
(* Events of the retry loop and of the run's start and end are left out.   *)
(* A run that raises hands no trace back.                                  *)
(***************************************************************************)
EXTENDS Workflow, Sequences

VARIABLES
    trace,      \* the collector's events
    traced,     \* state_after of the last event that has one
    resumable   \* [trace, traced] of the results of this case stopped at order_lookup

tvars == <<vars, trace, traced, resumable>>

Snapshot == <<caseStatus, disposition, executionStatus, followUpStatus, closedAt>>

Occurs(log, event) == \E i \in DOMAIN log : log[i] = event

Appended(log, event) == IF Occurs(log, event) THEN log ELSE Append(log, event)

(***************************************************************************)
(* Recording                                                               *)
(***************************************************************************)
\* record: an event without a snapshot
Record(event) == trace' = Appended(trace, event) /\ UNCHANGED traced

\* Mutant: the snapshot is taken before the operation
ChangeTooEarly(event) == trace' = Appended(trace, event) /\ traced' = Snapshot

\* change: a call of the aggregate, and an event with the snapshot after it
Change(event) == trace' = Appended(trace, event) /\ traced' = Snapshot'

Silent == UNCHANGED <<trace, traced>>

\* an exception leaves the run before the event is appended
Raised == pc' = "idle" /\ result' = NoResult

ChangeUnlessRaised(event) == IF Raised THEN Silent ELSE Change(event)

Quiet ==
    \/ BeginCall \/ LookupAttempt \/ LookupRetry \/ LookupReturns \/ LookupStops
    \/ LookupRaises \/ AuthorityRaises \/ Unwind \/ ExecutionRefused \/ ExecutionRaises

\* Mutant: a correction is recorded only while the order stays unmatched
TraceUnmatchedCorrection ==
    /\ ApplyCorrection
    /\ IF orderRef' = NoOrder THEN ChangeUnlessRaised("order_identifier_correction_recorded")
       ELSE traced' = Snapshot' /\ UNCHANGED trace

TraceCorrection ==
    ApplyCorrection /\ ChangeUnlessRaised("order_identifier_correction_recorded")

TraceIntake ==
    \/ RecordReport /\ Change("customer_report_recorded")
    \/ FailIntake /\ Change("intake_failed")
    \/ RequestCorrection /\ Change("customer_correction_requested")
    \/ Link /\ Change("linkage_completed")

TraceEvidence ==
    \/ AttachShipment /\ Change("shipment_attached")
    \/ GatherEvidence /\ Change("evidence_gathering_entered")
    \/ AttachEvidence /\ ChangeUnlessRaised("carrier_evidence_attached")
    \/ RecordAddress /\ Change("address_comparison_recorded")

TraceDecision ==
    \/ EnterPolicy /\ Change("policy_review_entered")
    \/ EvaluatePolicy /\ Change("policy_route_recorded")
    \/ OpenReview /\ ChangeUnlessRaised("human_review_opened")
    \/ Decide /\ ChangeUnlessRaised("human_review_decided")
    \/ SelectDisposition /\ Change("disposition_selected")
    \/ GrantAuthority /\ Record("execution_authority_granted")
    \/ BlockForAuthority /\ Change("execution_authority_blocked")

TraceObtained ==
    /\ ObtainOperation
    /\ IF operations' # operations THEN Record("execution_operation_created") ELSE Silent

TraceStarted ==
    /\ StartExecution
    /\ traced' = Snapshot'
    /\ LET started == Appended(trace, "execution_started")
       IN  trace' = IF pc' = "tool" THEN started
                    ELSE Appended(started, "duplicate_execution_suppressed")

\* the attempt is recorded by the registry first; the event says it was
TraceAttempt ==
    /\ ExecutionAttempt
    /\ IF pc' = "unwind" THEN Silent ELSE Record("execution_adapter_invoked")

TraceOutcome ==
    \/ /\ ExecutionReturns
       /\ Record(IF operations'[Key].status = "succeeded" THEN "successful_operation_recorded"
                 ELSE "failed_operation_recorded")
    \/ ExecutionErrs /\ Record("failed_operation_recorded")

TraceExecution ==
    \/ RecordExecution /\ Change("execution_result_recorded")
    \/ /\ CompleteExecution
       /\ Change(IF disposition = "open_carrier_inquiry" THEN "external_follow_up_entered"
                 ELSE "execution_completed")
    \/ RouteFailure /\ Change("execution_failure_routed")

TraceRun ==
    \/ Quiet /\ Silent
    \/ TraceCorrection \/ TraceIntake \/ TraceEvidence \/ TraceDecision
    \/ TraceObtained \/ TraceStarted \/ TraceAttempt \/ TraceOutcome \/ TraceExecution

(***************************************************************************)
(* Results keep the trace they were returned with                          *)
(***************************************************************************)
KeepResult ==
    resumable' = IF pc' = "idle" /\ StoppedAtOrderLookup(result')
                 THEN resumable \cup {[trace |-> trace', traced |-> traced']}
                 ELSE resumable

TraceNewRun ==
    /\ NewRun
    /\ trace' = <<>> /\ traced' = Snapshot' /\ resumable' = {}

\* the correction goes on with the trace of the result it is given, which need
\* not be the last one
TraceNewCorrection ==
    /\ NewCorrection
    /\ \E stopped \in resumable : trace' = stopped.trace /\ traced' = stopped.traced
    /\ UNCHANGED resumable

TInit == Init /\ trace = <<>> /\ traced = Snapshot /\ resumable = {}

TNext ==
    \/ TraceNewRun \/ TraceNewCorrection
    \/ TraceRun /\ KeepResult
    \/ NoMoreRuns /\ UNCHANGED tvars

TSpec == TInit /\ [][TNext]_tvars

--------------------------------------------------------------------------------
(***************************************************************************)
(* check_trajectory (trajectory_evaluation.py 42-127)                      *)
(***************************************************************************)
Preceded(log, later, earlier) ==
    \A j \in DOMAIN log : log[j] \in later => \E i \in 1 .. (j - 1) : log[i] \in earlier

LinkageEvents == {"linkage_completed", "order_identifier_correction_recorded"}
PolicyEvents == {"policy_review_entered", "policy_route_recorded"}
DispositionEvents == {"disposition_selected", "human_review_decided"}
DownstreamEvents == PolicyEvents \cup
    {"evidence_gathering_entered", "disposition_selected", "execution_started"}
ExecutionEvents ==
    {"execution_operation_created", "execution_started", "execution_adapter_invoked",
     "execution_result_recorded", "execution_completed"}

CheckTrajectory ==
    /\ Preceded(trace, DownstreamEvents, LinkageEvents)
    /\ Preceded(trace, PolicyEvents, {"evidence_gathering_entered"})
    /\ Preceded(trace, DispositionEvents, {"policy_route_recorded"})
    /\ Preceded(trace, {"execution_started"}, DispositionEvents)
    /\ ~(executionStatus = "failed" /\ caseStatus = "closed")
    /\ Occurs(trace, "execution_authority_blocked")
          => \A e \in ExecutionEvents : ~Occurs(trace, e)

(***************************************************************************)
(* The safe routes of the failure regression cases (failures.py 239-363)   *)
(***************************************************************************)
SafeRoute(failed) ==
    CASE failed = "customer_lookup" -> "intake"
      [] failed = "order_lookup" -> IF correcting THEN "awaiting_customer_action" ELSE "intake"
      [] failed = "shipment_lookup" -> "linked"
      [] failed \in {"carrier_evidence_lookup", "address_comparison"} -> "evidence_gathering"
      [] failed \in {"human_review", "execution"} -> "human_review"

ForbiddenEvents(failed) ==
    CASE failed = "customer_lookup" -> {"linkage_completed"}
      [] failed = "order_lookup" -> {"shipment_attached"}
      [] failed = "shipment_lookup" -> {"evidence_gathering_entered"}
      [] failed = "carrier_evidence_lookup" ->
            {"address_comparison_recorded", "policy_review_entered"}
      [] failed = "address_comparison" -> {"policy_review_entered"}
      [] failed = "human_review" -> {"human_review_decided"}
      [] failed = "execution" -> {"successful_operation_recorded"}

--------------------------------------------------------------------------------
HandedBack == pc = "idle" /\ result # NoResult

\* Every trace a run hands back passes the trajectory checks, also the trace
\* of a correction that went on with an older result.
TrajectoryIsAccepted == HandedBack => CheckTrajectory

\* The trace tells what became of the case: it ends in the snapshot the case
\* is in, during a run and in every result a correction may go on with.
TraceReplaysTheCase ==
    /\ pc # "idle" => traced = Snapshot
    /\ (pc = "idle" /\ Correctable) => \A stopped \in resumable : stopped.traced = Snapshot

\* A run that a dependency or the budget stopped leaves the case where the
\* regression cases of failures.py expect it and has done nothing that comes
\* later, whatever retries and corrections went before.  When an attempt that
\* succeeded uses up the budget the action stands and the case follows it.
StopsAreSafe ==
    (HandedBack /\ result.cause \in {"operational_error", "retry_exhausted", "budget_exceeded"}) =>
        \/ /\ result = StoppedAt("execution", "budget_exceeded")
           /\ executionStatus = "succeeded"
           /\ caseStatus \in {"closed", "awaiting_external_follow_up"}
           /\ Occurs(trace, "successful_operation_recorded")
        \/ /\ caseStatus = SafeRoute(result.stage)
           /\ executionStatus = IF result.stage = "execution" THEN "failed" ELSE "not_applicable"
           /\ result.stage = "execution" \/ disposition = "none_selected"
           /\ \A e \in ForbiddenEvents(result.stage) : ~Occurs(trace, e)

================================================================================
