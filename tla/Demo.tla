---------------------------------- MODULE Demo ----------------------------------
(***************************************************************************)
(* What the demo tells the customer (_customer_outcome, demo.py 336-354)   *)
(* of one workflow run.  run_demo builds a configuration with a registry   *)
(* of its own, no human reviewer and a disposition derived from the        *)
(* evidence, runs the workflow once and shows one of six outcomes; the     *)
(* wording is an outcome's name.                                           *)
(***************************************************************************)
EXTENDS Workflow

\* the configuration of the demo: one run on a registry of its own, a refund or a
\* question, decided without review
InDemo ==
    /\ runs = 1
    /\ disposition \in {"none_selected", "approve_refund", "request_more_info"}
    /\ requests = {}

\* Mutant: only a completed run has processed a refund
OutcomeOfCompletedRun ==
    CASE result.completed /\ executionStatus = "succeeded" -> "refund processed"
      [] executionStatus = "failed" -> "execution failed"
      [] caseStatus = "awaiting_customer_action" ->
            IF StoppedAtOrderLookup(result) THEN "order not found" ELSE "more evidence needed"
      [] result.stage = "authority" -> "authorized review"
      [] OTHER -> "case remains open"

\* the first test that holds decides
Outcome ==
    IF executionStatus = "succeeded" /\ closedAt THEN "refund processed"
    ELSE IF executionStatus = "failed" THEN "execution failed"
    ELSE IF caseStatus = "awaiting_customer_action"
         THEN IF StoppedAtOrderLookup(result) THEN "order not found" ELSE "more evidence needed"
    ELSE IF result.stage = "authority" THEN "authorized review"
    ELSE "case remains open"

\* the row of the structural gate in the projected trace (demo.py 306-332): a
\* fixed result text, and a status from the recorded event
GateRow(route) ==
    [result |-> "structural evidence complete",
     status |-> IF route = "proceed_to_disposition" THEN "passed" ELSE "stopped"]

Refunded == effects[Op!IdempotencyKey(Case, "approve_refund")] > 0

--------------------------------------------------------------------------------
\* The outcome says what happened: "processed successfully" exactly when the
\* adapter carried out the refund, also when the run then ran out of budget;
\* "your case remains open for human review", "we found order", "no refund was
\* executed" and "without completing an action" when that is so.
CustomerIsToldTheTruth ==
    (pc = "idle" /\ result # NoResult /\ InDemo) =>
        /\ Refunded <=> Outcome = "refund processed"
        /\ Outcome # "refund processed" => caseStatus # "closed"
        /\ Outcome = "execution failed" =>
              disposition = "approve_refund" /\ caseStatus = "human_review"
        /\ Outcome = "order not found" => orderRef = NoOrder
        /\ Outcome = "more evidence needed" => orderRef # NoOrder
        /\ Outcome = "authorized review" => caseStatus = "human_review"

\* docs/04-decision-log.md 65: the projection "exposes the real trace without
\* changing system behavior or inventing reasoning".  A run whose customer is told
\* that evidence is missing has no row that says it is complete.
GateRowIsGrounded ==
    (pc = "idle" /\ InDemo /\ Outcome = "more evidence needed") =>
        GateRow(P!Route(Facts({}))).result # "structural evidence complete"

================================================================================
