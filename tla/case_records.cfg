\* Linkage with two orders, carrier evidence, one evaluation and one review.
SPECIFICATION Spec
CONSTANTS
    Orders = {o1, o2}
    Shipments = {s1}
    Snapshots = {c1}
    Evaluations = {e1}
    Reviews = {r1}
    Policies = {p1}
    NoOrder = NoOrder
SYMMETRY Symmetry
INVARIANTS TypeOK ReviewsAreGrounded
PROPERTIES LinkageIsPermanent
