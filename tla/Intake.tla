--------------------------------- MODULE Intake ---------------------------------
(***************************************************************************)
(* From a customer message to a workflow run: extract_customer_message     *)
(* (extraction.py) asks a model for a proposal, validates it and never     *)
(* repairs it; route_customer_message_extraction (workflow.py 1589-1653)   *)
(* sends the validated extraction to one of four routes.  The model is     *)
(* free to answer anything.  A message is blank or has the identifiers     *)
(* that stand in it as whole tokens; that is all validation asks of it.    *)
(***************************************************************************)
EXTENDS Functions, Sequences

CONSTANT Ids   \* identifiers

OptionalId == Ids \cup {"null", "blank"}
Message == {m \in [blank : BOOLEAN, tokens : SUBSET Ids] : m.blank => m.tokens = {}}

Issue == {"delivered_not_received", "unknown"}
Field == {"order_identifier", "tracking_identifier"}
FieldList == {<<>>} \cup {<<f>> : f \in Field} \cup {<<f, g>> : f, g \in Field}

\* a payload with the right keys and types; "blank" is a string of blanks
Proposal == [echoed : BOOLEAN,                       \* original_message is the message
             issue : Issue,
             order : OptionalId, tracking : OptionalId,
             packageMissing : {"true", "false", "null"},
             missing : FieldList,
             needs : BOOLEAN,
             reason : {"null", "blank", "text"}]

\* what else a response can be: no JSON, no object, other keys, other types
Malformed == {"not_json", "not_object", "wrong_keys", "wrong_types"}

Status == {"complete", "needs_clarification", "invalid_model_output"}
Route == {"manual_intake_review_required", "clarification_required",
          "general_triage_required", "delivered_not_received_workflow"}

VARIABLES
    phase,       \* where the calls are; "raised" when an exception ended them
    message,
    response,    \* what the model answered: Malformed, "proposal" or "none"
    proposal,    \* the proposal, or NoProposal
    status,      \* ExtractionResult.status, or "none"
    route,       \* IntakeRoutingResult.route, or "none"
    workflowFor  \* the order identifier the workflow was started with, or "none"

vars == <<phase, message, response, proposal, status, route, workflowFor>>

NoProposal == [echoed |-> FALSE, issue |-> "unknown", order |-> "null", tracking |-> "null",
               packageMissing |-> "null", missing |-> <<>>, needs |-> FALSE, reason |-> "null"]

Init ==
    /\ phase = "received"
    /\ message \in Message
    /\ response = "none" /\ proposal = NoProposal /\ status = "none"
    /\ route = "none" /\ workflowFor = "none"

(***************************************************************************)
(* Extraction                                                              *)
(***************************************************************************)
Invalid ==
    /\ status' = "invalid_model_output"
    /\ phase' = "extracted"

\* no request can be built for a blank message, and no model is called
RefuseBlank ==
    /\ phase = "received" /\ message.blank
    /\ Invalid
    /\ UNCHANGED <<message, response, proposal, route, workflowFor>>

AskModel ==
    /\ phase = "received" /\ ~message.blank
    /\ phase' = "asked"
    /\ UNCHANGED <<message, response, proposal, status, route, workflowFor>>

ModelAnswers ==
    /\ phase = "asked"
    /\ \/ response' \in Malformed /\ UNCHANGED proposal
       \/ response' = "proposal" /\ proposal' \in Proposal
    /\ phase' = "answered"
    /\ UNCHANGED <<message, status, route, workflowFor>>

\* a provider failure passes extraction and stops before routing
ModelFails ==
    /\ phase = "asked"
    /\ phase' = "raised"
    /\ UNCHANGED <<message, response, proposal, status, route, workflowFor>>

\* _parse_response and _to_proposal
RejectMalformed ==
    /\ phase = "answered" /\ response \in Malformed
    /\ Invalid
    /\ UNCHANGED <<message, response, proposal, route, workflowFor>>

\* Mutant: an identifier may be a part of another token
GroundedLoosely(p, tokens) == \A id \in {p.order, p.tracking} : id = "null" \/ tokens # {}

\* _identifier_is_grounded, for each identifier that is there
Grounded(p, tokens) == \A id \in {p.order, p.tracking} : id = "null" \/ id \in tokens

\* Mutant: the flag is compared with the reason and not with the order
ConsistentReason(p) ==
    IF p.needs THEN p.reason = "text" /\ p.missing # <<>> ELSE p.reason = "null" /\ p.missing = <<>>

\* an absent order identifier, the missing fields, the flag and the reason
\* stand or fall together
ClarificationConsistent(p) ==
    /\ IF p.order = "null" THEN p.needs /\ "order_identifier" \in Range(p.missing)
       ELSE "order_identifier" \notin Range(p.missing)
    /\ IF p.needs THEN p.reason = "text" /\ p.missing # <<>>
       ELSE p.reason = "null" /\ p.missing = <<>>

\* _validate_proposal and _validate_values
Valid(p, tokens) ==
    /\ p.echoed
    /\ Grounded(p, tokens)
    /\ ~(p.issue = "delivered_not_received" /\ p.packageMissing = "false")
    /\ IsInjective(p.missing)
    /\ Range(p.missing) \subseteq {"order_identifier"}
    /\ ClarificationConsistent(p)

RejectProposal ==
    /\ phase = "answered" /\ response = "proposal"
    /\ ~Valid(proposal, message.tokens)
    /\ Invalid
    /\ UNCHANGED <<message, response, proposal, route, workflowFor>>

AcceptProposal ==
    /\ phase = "answered" /\ response = "proposal"
    /\ Valid(proposal, message.tokens)
    /\ status' = IF proposal.needs THEN "needs_clarification" ELSE "complete"
    /\ phase' = "extracted"
    /\ UNCHANGED <<message, response, proposal, route, workflowFor>>

(***************************************************************************)
(* Routing                                                                 *)
(***************************************************************************)
\* ExtractionResult carries the proposal as its extraction
HasExtraction == status \in {"complete", "needs_clarification"}

Complete(e) == ~e.needs /\ e.order # "null" /\ e.missing = <<>> /\ e.reason = "null"

\* Mutant: an unknown issue goes where the others go
RouteUnknownToo ==
    IF status = "invalid_model_output" THEN "manual_intake_review_required"
    ELSE IF status = "needs_clarification" THEN "clarification_required"
    ELSE "delivered_not_received_workflow"

ChosenRoute ==
    IF status = "invalid_model_output" THEN "manual_intake_review_required"
    ELSE IF status = "needs_clarification" THEN "clarification_required"
    ELSE IF proposal.issue = "unknown" THEN "general_triage_required"
    ELSE "delivered_not_received_workflow"

\* the checks that precede a route and those its IntakeRoutingResult makes; a
\* route that fails them would be a ValueError out of routing
RouteAccepted(r) ==
    \/ r = "manual_intake_review_required" /\ ~HasExtraction
    \/ /\ HasExtraction
       /\ \/ r = "clarification_required" /\ proposal.needs /\ proposal.missing # <<>>
          \/ /\ r = "general_triage_required"
             /\ proposal.issue = "unknown" /\ Complete(proposal)
          \/ /\ r = "delivered_not_received_workflow"
             /\ proposal.issue = "delivered_not_received" /\ Complete(proposal)

RouteAndStop ==
    /\ phase = "extracted"
    /\ ChosenRoute # "delivered_not_received_workflow"
    /\ RouteAccepted(ChosenRoute)
    /\ route' = ChosenRoute
    /\ phase' = "done"
    /\ UNCHANGED <<message, response, proposal, status, workflowFor>>

\* the workflow runs with the trusted identifiers and the extracted order
RunWorkflow ==
    /\ phase = "extracted"
    /\ ChosenRoute = "delivered_not_received_workflow"
    /\ proposal.order # "null"
    /\ workflowFor' = proposal.order
    /\ phase' = "running"
    /\ UNCHANGED <<message, response, proposal, status, route>>

ReturnRoute ==
    /\ phase = "running"
    /\ RouteAccepted(ChosenRoute)
    /\ route' = ChosenRoute
    /\ phase' = "done"
    /\ UNCHANGED <<message, response, proposal, status, workflowFor>>

WorkflowRaises ==
    /\ phase = "running"
    /\ phase' = "raised"
    /\ UNCHANGED <<message, response, proposal, status, route, workflowFor>>

\* the caller submits the next message, an answer to a clarification included
NextMessage ==
    /\ phase \in {"done", "raised"}
    /\ phase' = "received"
    /\ message' \in Message
    /\ response' = "none" /\ proposal' = NoProposal /\ status' = "none"
    /\ route' = "none" /\ workflowFor' = "none"

Next ==
    \/ RefuseBlank \/ AskModel \/ ModelAnswers \/ ModelFails
    \/ RejectMalformed \/ RejectProposal \/ AcceptProposal
    \/ RouteAndStop \/ RunWorkflow \/ ReturnRoute \/ WorkflowRaises
    \/ NextMessage

Spec == Init /\ [][Next]_vars

--------------------------------------------------------------------------------
(***************************************************************************)
(* Properties                                                              *)
(***************************************************************************)

TypeOK ==
    /\ phase \in {"received", "asked", "answered", "extracted", "running", "done", "raised"}
    /\ message \in Message
    /\ response \in Malformed \cup {"proposal", "none"}
    /\ proposal \in Proposal
    /\ status \in Status \cup {"none"}
    /\ route \in Route \cup {"none"}
    /\ workflowFor \in Ids \cup {"none"}

\* docs/04-decision-log.md 354: only a validated, complete, delivered-not-
\* received extraction enters the workflow, and the order it is run for stands
\* in the customer's own message, whatever the model answers.
OnlyGroundedOrdersEnter ==
    workflowFor # "none" =>
        /\ workflowFor \in message.tokens
        /\ response = "proposal" /\ proposal.echoed
        /\ proposal.issue = "delivered_not_received"
        /\ proposal.packageMissing # "false" /\ ~proposal.needs

\* The customer is asked for exactly one thing: clarification is required when
\* a valid extraction has no order identifier, and only then.
ClarifiesOnlyAMissingOrder ==
    (phase = "done" /\ HasExtraction) =>
        /\ (route = "clarification_required") <=> (proposal.order = "null")
        /\ route = "clarification_required" => proposal.missing = <<"order_identifier">>

\* Routing never contradicts extraction: none of the checks in routing or in
\* the record it returns rejects what extraction has validated.
RoutingNeverRejects == phase \in {"extracted", "running"} => RouteAccepted(ChosenRoute)

================================================================================
