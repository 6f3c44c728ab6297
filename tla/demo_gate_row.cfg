\* The gate row of the demo says that evidence is complete when it is missing.
SPECIFICATION Spec
CONSTANTS
    Case = case1
    MaxRuns = 1
    Orders = {o1}
    Shipments = {s1}
    Snapshots = {c1}
    Evaluations = {e1}
    Reviews = {r1}
    Policies = {p1}
    NoOrder = NoOrder
    MaxToolCalls = 7
    MaxRetries = 1
    MaxElapsed = 2
    MaxCost = 0
    MaxAttempts = 2
    InitialBackoff = 0
    BackoffMultiplier = 2
    MaxBackoff = 0
    Latencies = {0, 1}
    CallCosts = {0}
INVARIANTS GateRowIsGrounded
