\* A case that awaits a corrected order identifier enters evidence gathering.
SPECIFICATION Spec
CONSTANTS
    Orders = {o1}
    Shipments = {}
    Snapshots = {}
    Evaluations = {e1}
    Reviews = {r1, r2}
    Policies = {p1}
    NoOrder = NoOrder
INVARIANTS NoEvidenceBeforeCorrection
