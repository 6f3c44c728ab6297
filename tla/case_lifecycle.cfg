\* Two rounds of policy evaluation and human review, no shipment or evidence.
SPECIFICATION Spec
CONSTANTS
    Orders = {o1}
    Shipments = {}
    Snapshots = {}
    Evaluations = {e1, e2}
    Reviews = {r1, r2}
    Policies = {p1}
    NoOrder = NoOrder
SYMMETRY Symmetry
INVARIANTS ExecutionFollowsDisposition AttemptHoldsCase
    CompensationIsSettled PendingFollowUpIsFiled
PROPERTIES ClosedIsFinal ReviewDecidesOnce OutcomeIsNotOverwritten
