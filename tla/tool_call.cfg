\* Five calls, three retries, an elapsed limit of 8 and a cost limit of 5.
SPECIFICATION FairSpec
CONSTANTS
    MaxToolCalls = 5
    MaxRetries = 3
    MaxElapsed = 8
    MaxCost = 5
    MaxAttempts = 3
    InitialBackoff = 1
    BackoffMultiplier = 2
    MaxBackoff = 3
    Latencies = {0, 1, 3}
    CallCosts = {0, 1, 2}
INVARIANTS TypeOK WithinBudget StoppedIffExhausted
PROPERTIES EveryCallEnds
