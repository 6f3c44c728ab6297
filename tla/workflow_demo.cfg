\* A run and a correction or rerun under fairness: they end, and the demo tells the truth of it.
SPECIFICATION FairSpec
CONSTANTS
    Case = case1
    MaxRuns = 2
    Orders = {o1}
    Shipments = {s1}
    Snapshots = {c1}
    Evaluations = {e1}
    Reviews = {r1}
    Policies = {p1}
    NoOrder = NoOrder
    MaxToolCalls = 6
    MaxRetries = 1
    MaxElapsed = 2
    MaxCost = 0
    MaxAttempts = 2
    InitialBackoff = 0
    BackoffMultiplier = 2
    MaxBackoff = 0
    Latencies = {0, 1}
    CallCosts = {0}
INVARIANTS CustomerIsToldTheTruth
PROPERTIES RunEnds
