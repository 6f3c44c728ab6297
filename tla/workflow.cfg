\* Three runs of one case, corrections and reruns, with the trace: every value a dependency may return.
SPECIFICATION TSpec
CONSTANTS
    Case = case1
    MaxRuns = 3
    Orders = {o1, o2}
    Shipments = {s1, s2}
    Snapshots = {c1}
    Evaluations = {e1}
    Reviews = {r1, r2}
    Policies = {p1}
    NoOrder = NoOrder
    MaxToolCalls = 6
    MaxRetries = 1
    MaxElapsed = 2
    MaxCost = 0
    MaxAttempts = 2
    InitialBackoff = 0
    BackoffMultiplier = 2
    MaxBackoff = 0
    Latencies = {0, 1}
    CallCosts = {0}
SYMMETRY Symmetry
INVARIANTS TypeOK ClosedOnlyWhenExecuted NothingBeforeLinkage NoCaseIsStranded
    ResultAgreesWithCase OneEffectPerOperation CaseAgreesWithStore CorrectionStaysPossible
    TrajectoryIsAccepted TraceReplaysTheCase StopsAreSafe
PROPERTIES RefundNeedsAuthority
