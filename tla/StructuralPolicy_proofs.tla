------------------------- MODULE StructuralPolicy_proofs -------------------------
(***************************************************************************)
(* Proofs about the structural policy, for any set of policies.            *)
(***************************************************************************)
EXTENDS MCStructuralPolicy, TLAPS

LEMMA FactsAreFields ==
    ASSUME facts \in Facts
    PROVE  /\ facts.report \in BOOLEAN
           /\ facts.customer \in {"none", "success"} /\ facts.order \in {"none", "success"}
           /\ facts.shipments \subseteq {"success", "failure"}
           /\ facts.evidence \subseteq {"success", "failure"}
           /\ facts.address \in {"unrecorded", "match", "mismatch", "unknown"}
           /\ facts.unresolved \subseteq Policies
           /\ facts.order = "success" => facts.customer = "success"
           /\ facts.evidence # {} => facts.shipments # {}
BY DEF Facts

LEMMA TypeCorrect == Spec => [](facts \in Facts)
<1>1. Init => facts \in Facts
  BY DEF Init
<1>2. facts \in Facts /\ [Next]_facts => (facts \in Facts)'
  <2> SUFFICES ASSUME facts \in Facts, [Next]_facts PROVE facts' \in Facts
    OBVIOUS
  <2>1. CASE ReportArrives
    BY <2>1 DEF ReportArrives, Facts
  <2>2. CASE CaseIsLinked
    BY <2>2 DEF CaseIsLinked, Facts
  <2>3. CASE RecordIsAttached
    BY <2>3 DEF RecordIsAttached, Facts
  <2>4. CASE AddressIsCompared
    BY <2>4 DEF AddressIsCompared, Facts
  <2>5. CASE PolicyIsSettled
    BY <2>5 DEF PolicyIsSettled, Facts
  <2>6. CASE UNCHANGED facts
    BY <2>6
  <2> QED
    BY <2>1, <2>2, <2>3, <2>4, <2>5, <2>6 DEF Next
<1> QED
  BY <1>1, <1>2, PTL DEF Spec

\* What keeps a case in review, fact by fact.
LEMMA NothingFailed ==
    ASSUME facts \in Facts
    PROVE  FailedRetrievals(facts) = {} <=> "failure" \notin facts.shipments \cup facts.evidence
BY FactsAreFields DEF FailedRetrievals

LEMMA NothingMissing ==
    ASSUME facts \in Facts
    PROVE  Missing(facts) = {} <=>
             /\ facts.report /\ facts.customer = "success" /\ facts.order = "success"
             /\ facts.shipments # {} /\ facts.evidence # {}
             /\ facts.address \in {"match", "mismatch"}
BY FactsAreFields DEF Missing

LEMMA RouteIsSound == facts \in Facts => RouteFollowsFacts
<1> SUFFICES ASSUME facts \in Facts PROVE RouteFollowsFacts
  OBVIOUS
<1> DEFINE complete == [report |-> TRUE, customer |-> "success", order |-> "success",
                        shipments |-> {"success"}, evidence |-> {"success"},
                        address |-> "match", unresolved |-> {}]
<1>1. ASSUME Route(facts) = "proceed_to_disposition" PROVE facts = complete
  <2>1. /\ FailedRetrievals(facts) = {} /\ Missing(facts) = {}
        /\ facts.address # "mismatch" /\ facts.unresolved = {}
    BY <1>1 DEF Route
  <2>2. /\ facts.report = TRUE /\ facts.customer = "success" /\ facts.order = "success"
        /\ facts.address = "match"
    BY <2>1, NothingMissing, FactsAreFields
  <2>3. facts.shipments = {"success"} /\ facts.evidence = {"success"}
    BY <2>1, NothingMissing, NothingFailed, FactsAreFields
  <2> QED
    BY <2>1, <2>2, <2>3 DEF Facts
<1>2. ASSUME facts = complete PROVE Route(facts) = "proceed_to_disposition"
  <2>1. /\ facts.report = TRUE /\ facts.customer = "success" /\ facts.order = "success"
        /\ facts.shipments = {"success"} /\ facts.evidence = {"success"}
        /\ facts.address = "match" /\ facts.unresolved = {}
    BY <1>2
  <2>2. FailedRetrievals(facts) = {} /\ Missing(facts) = {}
    BY <2>1, NothingFailed, NothingMissing
  <2> QED
    BY <2>1, <2>2 DEF Route
<1>3. ASSUME Route(facts) = "request_more_information"
      PROVE  /\ facts.unresolved = {} /\ facts.address # "mismatch"
             /\ "failure" \notin facts.shipments \cup facts.evidence
  <2>1. FailedRetrievals(facts) = {} /\ facts.address # "mismatch" /\ facts.unresolved = {}
    BY <1>3 DEF Route
  <2> QED
    BY <2>1, NothingFailed
<1> QED
  BY <1>1, <1>2, <1>3 DEF RouteFollowsFacts

\* What the policy decides (domain.py 1152-1183), over everything a case can hold
\* and any policies: it proceeds on complete and consistent facts only, and asks
\* the customer only where nothing else is wrong.
THEOREM PolicyFollowsFacts == Spec => []RouteFollowsFacts
<1> QED
  BY TypeCorrect, RouteIsSound, PTL

\* A fact that arrives never takes a case out of review.
THEOREM ReviewIsNotLiftedByFacts == Spec => FactsNeverLiftReview
<1>1. ASSUME facts \in Facts, facts' \in Facts, [Next]_facts,
             Route(facts) = "require_human_review", facts'.unresolved = facts.unresolved
      PROVE  Route(facts') = "require_human_review"
  <2>1. FailedRetrievals(facts) # {} \/ facts.address = "mismatch" \/ facts.unresolved # {}
    BY <1>1 DEF Route
  <2>2. facts.address = "mismatch" => facts'.address = "mismatch"
    BY <1>1 DEF Next, ReportArrives, CaseIsLinked, RecordIsAttached, AddressIsCompared,
       PolicyIsSettled, Facts
  <2>3. facts.shipments \subseteq facts'.shipments /\ facts.evidence \subseteq facts'.evidence
    <3>1. CASE ReportArrives \/ CaseIsLinked \/ AddressIsCompared \/ PolicyIsSettled
      BY <1>1, <3>1 DEF ReportArrives, CaseIsLinked, AddressIsCompared, PolicyIsSettled, Facts
    <3>2. ASSUME NEW r \in {"success", "failure"},
                 facts' = [facts EXCEPT !.shipments = @ \cup {r}]
          PROVE  facts.shipments \subseteq facts'.shipments /\ facts.evidence \subseteq facts'.evidence
      BY <1>1, <3>2 DEF Facts
    <3>3. ASSUME NEW r \in {"success", "failure"},
                 facts' = [facts EXCEPT !.evidence = @ \cup {r}]
          PROVE  facts.shipments \subseteq facts'.shipments /\ facts.evidence \subseteq facts'.evidence
      BY <1>1, <3>3 DEF Facts
    <3> QED
      BY <1>1, <3>1, <3>2, <3>3 DEF Next, RecordIsAttached
  <2>4. FailedRetrievals(facts) # {} => FailedRetrievals(facts') # {}
    BY <1>1, <2>3, NothingFailed DEF FailedRetrievals
  <2> QED
    BY <1>1, <2>1, <2>2, <2>4 DEF Route
<1>2. facts \in Facts /\ (facts \in Facts)' /\ [Next]_facts =>
        [ (Route(facts) = "require_human_review" /\ facts'.unresolved = facts.unresolved)
          => Route(facts') = "require_human_review" ]_facts
  BY <1>1
<1> QED
  BY <1>2, TypeCorrect, PTL DEF Spec, FactsNeverLiftReview

================================================================================
