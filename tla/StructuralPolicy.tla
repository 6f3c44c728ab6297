---------------------------- MODULE StructuralPolicy ----------------------------
(***************************************************************************)
(* evaluate_synthetic_structural_policy (domain.py 1095-1183): the route a *)
(* case takes, computed from the facts it holds.  The summary and the      *)
(* wording of the reasons are left out; which facts are missing and which  *)
(* retrievals failed is kept, because the route is decided from them.      *)
(***************************************************************************)

\* facts: [report, customer, order, shipments, evidence, address, unresolved]
\*   customer and order are "none" or the retrieval status of the reference,
\*   shipments and evidence the sets of retrieval statuses of what is attached.

\* Mutant: an address the customer has not confirmed counts as recorded
MissingButUnconfirmed(facts) ==
    {label \in {"report", "customer", "order", "shipment", "evidence", "address"} :
        \/ label = "report" /\ ~facts.report
        \/ label = "customer" /\ facts.customer = "none"
        \/ label = "order" /\ facts.order = "none"
        \/ label = "shipment" /\ facts.shipments = {}
        \/ label = "evidence" /\ facts.evidence = {}
        \/ label = "address" /\ facts.address = "unrecorded"}

Missing(facts) ==
    {label \in {"report", "customer", "order", "shipment", "evidence", "address"} :
        \/ label = "report" /\ ~facts.report
        \/ label = "customer" /\ facts.customer = "none"
        \/ label = "order" /\ facts.order = "none"
        \/ label = "shipment" /\ facts.shipments = {}
        \/ label = "evidence" /\ facts.evidence = {}
        \/ label = "address" /\ facts.address \in {"unrecorded", "unknown"}}

\* Mutant: a retrieval fails only when all of its kind failed
FailedWhenAllFailed(facts) ==
    {label \in {"shipment", "evidence"} :
        \/ label = "shipment" /\ facts.shipments = {"failure"}
        \/ label = "evidence" /\ facts.evidence = {"failure"}}

FailedRetrievals(facts) ==
    {label \in {"customer", "order", "shipment", "evidence"} :
        \/ label = "customer" /\ facts.customer = "failure"
        \/ label = "order" /\ facts.order = "failure"
        \/ label = "shipment" /\ "failure" \in facts.shipments
        \/ label = "evidence" /\ "failure" \in facts.evidence}

Route(facts) ==
    IF FailedRetrievals(facts) # {} \/ facts.address = "mismatch" \/ facts.unresolved # {}
    THEN "require_human_review"
    ELSE IF Missing(facts) # {} THEN "request_more_information"
    ELSE "proceed_to_disposition"

================================================================================
