--------------------------- MODULE MCStructuralPolicy ---------------------------
(***************************************************************************)
(* StructuralPolicy over every combination of facts: the state is the      *)
(* input, one initial state per combination a case can hold.  A step adds  *)
(* one fact, as one more retrieval or answer does, so an action property   *)
(* compares the routes of neighbouring inputs.                             *)
(***************************************************************************)
EXTENDS StructuralPolicy

CONSTANT Policies   \* PolicyPlaceholder members in play

VARIABLE facts

\* what a SupportCase can hold: its references are stored only when retrieved,
\* an order only beside a customer, evidence only beside a shipment
Facts == {f \in [report : BOOLEAN, customer : {"none", "success"}, order : {"none", "success"},
                 shipments : SUBSET {"success", "failure"},
                 evidence : SUBSET {"success", "failure"},
                 address : {"unrecorded", "match", "mismatch", "unknown"},
                 unresolved : SUBSET Policies] :
            /\ f.order = "success" => f.customer = "success"
            /\ f.evidence # {} => f.shipments # {}}

Init == facts \in Facts

ReportArrives == ~facts.report /\ facts' = [facts EXCEPT !.report = TRUE]

CaseIsLinked ==
    /\ facts.order = "none"
    /\ facts' = [facts EXCEPT !.customer = "success", !.order = "success"]

RecordIsAttached ==
    \E r \in {"success", "failure"} :
        \/ facts' = [facts EXCEPT !.shipments = @ \cup {r}]
        \/ facts.shipments # {} /\ facts' = [facts EXCEPT !.evidence = @ \cup {r}]

AddressIsCompared ==
    /\ facts.address = "unrecorded"
    /\ \E a \in {"match", "mismatch", "unknown"} : facts' = [facts EXCEPT !.address = a]

PolicyIsSettled == \E p \in facts.unresolved : facts' = [facts EXCEPT !.unresolved = @ \ {p}]

Next == ReportArrives \/ CaseIsLinked \/ RecordIsAttached \/ AddressIsCompared \/ PolicyIsSettled

Spec == Init /\ [][Next]_facts

--------------------------------------------------------------------------------
\* docs/03-system-boundaries.md, "Missing policy does not become permission":
\* a case proceeds only with every fact there, every retrieval successful, a
\* matching address and nothing unresolved.  The customer is asked only when
\* asking can help: nothing failed, nothing disagrees and no policy is missing.
RouteFollowsFacts ==
    /\ Route(facts) = "proceed_to_disposition" <=>
          facts = [report |-> TRUE, customer |-> "success", order |-> "success",
                   shipments |-> {"success"}, evidence |-> {"success"},
                   address |-> "match", unresolved |-> {}]
    /\ Route(facts) = "request_more_information" =>
          /\ facts.unresolved = {} /\ facts.address # "mismatch"
          /\ "failure" \notin facts.shipments \cup facts.evidence

\* More facts never take a case out of review: a case leaves it only when a
\* policy is settled.
FactsNeverLiftReview ==
    [][ (Route(facts) = "require_human_review" /\ facts'.unresolved = facts.unresolved)
          => Route(facts') = "require_human_review" ]_facts

================================================================================
