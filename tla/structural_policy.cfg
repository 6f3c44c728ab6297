\* Every combination of facts, two policies.
SPECIFICATION Spec
CONSTANTS
    Policies = {p1, p2}
CHECK_DEADLOCK FALSE
INVARIANTS RouteFollowsFacts
PROPERTIES FactsNeverLiftReview
