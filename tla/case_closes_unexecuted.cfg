\* A review closes a case whose approved refund was never executed.
SPECIFICATION Spec
CONSTANTS
    Orders = {o1}
    Shipments = {}
    Snapshots = {}
    Evaluations = {e1}
    Reviews = {r1, r2}
    Policies = {p1}
    NoOrder = NoOrder
INVARIANTS ApprovalIsNotExecution
