------------------------------ MODULE Intake_proofs -----------------------------
(***************************************************************************)
(* Proofs about intake, for any set of identifiers, any message and any    *)
(* answer of the model.                                                    *)
(***************************************************************************)
EXTENDS Intake, TLAPS

(***************************************************************************)
(* What validation guarantees                                              *)
(***************************************************************************)

\* Validation lets the order identifier be the only missing field, once.
LEMMA OneFieldCanBeMissing ==
    ASSUME NEW m \in FieldList, IsInjective(m), Range(m) \subseteq {"order_identifier"},
           m # <<>>
    PROVE  m = <<"order_identifier">>
<1>1. CASE \E f \in Field : m = <<f>>
  <2>1. PICK f \in Field : m = <<f>>
    BY <1>1
  <2>2. m[1] \in Range(m)
    BY <2>1 DEF Range
  <2> QED
    BY <2>1, <2>2
<1>2. CASE \E f, g \in Field : m = <<f, g>>
  <2>1. PICK f \in Field, g \in Field : m = <<f, g>>
    BY <1>2
  <2>2. m[1] \in Range(m) /\ m[2] \in Range(m) /\ 1 \in DOMAIN m /\ 2 \in DOMAIN m
    BY <2>1 DEF Range
  <2>3. m[1] = m[2]
    BY <2>2
  <2> QED
    BY <2>2, <2>3 DEF IsInjective
<1> QED
  BY <1>1, <1>2 DEF FieldList

\* A valid proposal that needs no clarification is complete, and its order is
\* one of the message; one that does lacks the order and nothing else.
LEMMA ValidProposal ==
    ASSUME NEW p \in Proposal, NEW tokens, Valid(p, tokens)
    PROVE  /\ ~p.needs => Complete(p) /\ p.order \in tokens
           /\ p.needs => p.order = "null" /\ p.missing = <<"order_identifier">>
           /\ p.echoed
           /\ p.issue = "delivered_not_received" => p.packageMissing # "false"
<1>1. p.missing \in FieldList /\ p.needs \in BOOLEAN
  BY DEF Proposal
<1>2. Range(<<>>) = {}
  BY DEF Range
<1>3. ASSUME ~p.needs PROVE Complete(p) /\ p.order \in tokens
  <2>1. p.reason = "null" /\ p.missing = <<>>
    BY <1>3 DEF Valid, ClarificationConsistent
  <2>2. p.order # "null"
    BY <1>3, <2>1, <1>2 DEF Valid, ClarificationConsistent
  <2> QED
    BY <1>3, <2>1, <2>2 DEF Complete, Valid, Grounded
<1>4. ASSUME p.needs PROVE p.order = "null" /\ p.missing = <<"order_identifier">>
  <2>1. p.missing = <<"order_identifier">>
    <3>1. p.missing # <<>>
      BY <1>4 DEF Valid, ClarificationConsistent
    <3> QED
      BY <1>1, <3>1, OneFieldCanBeMissing DEF Valid
  <2>2. "order_identifier" \in Range(p.missing)
    BY <2>1 DEF Range
  <2> QED
    BY <2>1, <2>2 DEF Valid, ClarificationConsistent
<1> QED
  BY <1>3, <1>4 DEF Valid

(***************************************************************************)
(* The inductive invariant                                                 *)
(***************************************************************************)

\* Nothing is decided before the answer has been looked at, an extraction is
\* there only for a valid proposal, and the workflow runs only for the route
\* that names it.
StatusIsEarned ==
    /\ phase \in {"received", "asked", "answered"} => status = "none"
    /\ phase \in {"received", "asked", "answered", "extracted"} => workflowFor = "none"
    /\ phase \in {"extracted", "running", "done"} => status \in Status
    /\ HasExtraction =>
          /\ response = "proposal"
          /\ Valid(proposal, message.tokens)
          /\ (status = "needs_clarification") <=> proposal.needs
    /\ phase = "running" => ChosenRoute = "delivered_not_received_workflow"
    /\ phase = "done" => route = ChosenRoute

IInv == TypeOK /\ OnlyGroundedOrdersEnter /\ StatusIsEarned

LEMMA NoProposalIsTyped == NoProposal \in Proposal
BY DEF NoProposal, Proposal, OptionalId, FieldList, Issue

LEMMA InitIInv == Init => IInv
BY NoProposalIsTyped DEF Init, IInv, TypeOK, OnlyGroundedOrdersEnter, StatusIsEarned, HasExtraction

LEMMA RoutesAreRoutes == ChosenRoute \in Route
BY DEF ChosenRoute, Route

\* The workflow is chosen for a complete extraction about a missing delivery.
LEMMA WorkflowRoute ==
    ASSUME IInv, phase = "extracted", ChosenRoute = "delivered_not_received_workflow"
    PROVE  /\ HasExtraction /\ ~proposal.needs
           /\ proposal.issue = "delivered_not_received"
           /\ proposal.order \in message.tokens
           /\ message.tokens \subseteq Ids
           /\ response = "proposal" /\ proposal.echoed /\ proposal.packageMissing # "false"
<1>1. status = "complete" /\ HasExtraction /\ proposal.issue # "unknown"
  BY DEF ChosenRoute, IInv, StatusIsEarned, Status, HasExtraction
<1>2. Valid(proposal, message.tokens) /\ response = "proposal" /\ ~proposal.needs
  BY <1>1 DEF IInv, StatusIsEarned
<1>3. proposal \in Proposal /\ message \in Message
  BY DEF IInv, TypeOK
<1>4. proposal.issue = "delivered_not_received"
  BY <1>1, <1>3 DEF Proposal, Issue
<1>5. message.tokens \subseteq Ids
  BY <1>3 DEF Message
<1> QED
  BY <1>1, <1>2, <1>3, <1>4, <1>5, ValidProposal

LEMMA IInvStep == IInv /\ [Next]_vars => IInv'
<1> SUFFICES ASSUME IInv, [Next]_vars PROVE IInv'
  OBVIOUS
<1> USE DEF IInv, TypeOK, OnlyGroundedOrdersEnter, StatusIsEarned, HasExtraction, Status
<1>1. CASE RefuseBlank \/ RejectMalformed \/ RejectProposal
  BY <1>1 DEF RefuseBlank, RejectMalformed, RejectProposal, Invalid
<1>2. CASE AskModel
  BY <1>2 DEF AskModel
<1>3. CASE ModelAnswers
  BY <1>3 DEF ModelAnswers
<1>4. CASE ModelFails \/ WorkflowRaises
  BY <1>4 DEF ModelFails, WorkflowRaises
<1>5. CASE AcceptProposal
  BY <1>5 DEF AcceptProposal, Proposal
<1>6. CASE RouteAndStop
  BY <1>6, RoutesAreRoutes DEF RouteAndStop, ChosenRoute
<1>7. CASE RunWorkflow
  <2>1. /\ ~proposal.needs
        /\ proposal.issue = "delivered_not_received"
        /\ proposal.order \in message.tokens /\ message.tokens \subseteq Ids
        /\ response = "proposal" /\ proposal.echoed /\ proposal.packageMissing # "false"
    BY <1>7, WorkflowRoute DEF RunWorkflow
  <2> QED
    BY <1>7, <2>1 DEF RunWorkflow, ChosenRoute
<1>8. CASE ReturnRoute
  BY <1>8, RoutesAreRoutes DEF ReturnRoute, ChosenRoute
<1>9. CASE NextMessage
  BY <1>9, NoProposalIsTyped DEF NextMessage
<1>10. CASE UNCHANGED vars
  BY <1>10 DEF vars, ChosenRoute
<1> QED
  BY <1>1, <1>2, <1>3, <1>4, <1>5, <1>6, <1>7, <1>8, <1>9, <1>10 DEF Next

(***************************************************************************)
(* Theorems                                                                *)
(***************************************************************************)

THEOREM Invariance == Spec => []IInv
BY InitIInv, IInvStep, PTL DEF Spec

\* Whatever a model answers, the workflow is entered only for a validated,
\* complete extraction, with an order of the customer's own words.
THEOREM OnlyTheCustomersOrder == Spec => []OnlyGroundedOrdersEnter
<1>1. IInv => OnlyGroundedOrdersEnter
  BY DEF IInv
<1> QED
  BY <1>1, Invariance, PTL

\* Clarification is asked for exactly when a valid extraction has no order.
THEOREM OneQuestionToTheCustomer == Spec => []ClarifiesOnlyAMissingOrder
<1>1. ASSUME IInv PROVE ClarifiesOnlyAMissingOrder
  <2> SUFFICES ASSUME phase = "done", HasExtraction
               PROVE  /\ (route = "clarification_required") <=> (proposal.order = "null")
                      /\ route = "clarification_required"
                            => proposal.missing = <<"order_identifier">>
    BY DEF ClarifiesOnlyAMissingOrder
  <2>1. /\ proposal \in Proposal /\ Valid(proposal, message.tokens)
        /\ (status = "needs_clarification") <=> proposal.needs
        /\ route = ChosenRoute
    BY <1>1 DEF IInv, TypeOK, StatusIsEarned
  <2>2. (route = "clarification_required") <=> proposal.needs
    BY <2>1 DEF ChosenRoute, HasExtraction
  <2>3. proposal.needs => proposal.order = "null" /\ proposal.missing = <<"order_identifier">>
    BY <2>1, ValidProposal
  <2>4. ~proposal.needs => proposal.order # "null"
    BY <2>1, ValidProposal DEF Complete
  <2> QED
    BY <2>2, <2>3, <2>4
<1> QED
  BY <1>1, Invariance, PTL

\* No extraction that validation lets through is rejected by routing.
THEOREM RoutingAgreesWithExtraction == Spec => []RoutingNeverRejects
<1>1. ASSUME IInv PROVE RoutingNeverRejects
  <2> SUFFICES ASSUME phase \in {"extracted", "running"} PROVE RouteAccepted(ChosenRoute)
    BY DEF RoutingNeverRejects
  <2>1. status \in Status /\ proposal \in Proposal
    BY <1>1 DEF IInv, StatusIsEarned, TypeOK
  <2>2. CASE status = "invalid_model_output"
    BY <2>2 DEF RouteAccepted, ChosenRoute, HasExtraction
  <2>3. CASE HasExtraction
    <3>1. /\ Valid(proposal, message.tokens)
          /\ (status = "needs_clarification") <=> proposal.needs
      BY <1>1, <2>3 DEF IInv, StatusIsEarned
    <3>2. CASE proposal.needs
      <4>1. proposal.missing # <<>>
        BY <3>1, <3>2 DEF Valid, ClarificationConsistent
      <4>2. ChosenRoute = "clarification_required"
        BY <3>1, <3>2 DEF ChosenRoute
      <4> QED
        BY <2>3, <3>2, <4>1, <4>2 DEF RouteAccepted
    <3>3. CASE ~proposal.needs
      <4>1. Complete(proposal)
        BY <2>1, <3>1, <3>3, ValidProposal
      <4>2. status = "complete" /\ proposal.issue \in {"delivered_not_received", "unknown"}
        BY <2>1, <2>3, <3>1, <3>3 DEF HasExtraction, Proposal, Issue
      <4> QED
        BY <2>3, <4>1, <4>2 DEF RouteAccepted, ChosenRoute
    <3> QED
      BY <3>2, <3>3
  <2> QED
    BY <2>1, <2>2, <2>3 DEF Status, HasExtraction
<1> QED
  BY <1>1, Invariance, PTL

================================================================================
