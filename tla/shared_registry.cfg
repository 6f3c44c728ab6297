\* Three runs under fairness that may ask for either of two actions, two attempts each.
SPECIFICATION FairSpec
CONSTANTS
    Cases = {c1}
    Dispositions = {approve_refund, open_carrier_inquiry}
    Runs = {r1, r2, r3}
    MaxAttemptsPerCall = 2
CHECK_DEADLOCK FALSE
INVARIANTS OneAttemptAtATime StoreIsTruthful
PROPERTIES UnknownIsNeverResolved OnceOnly EveryRunReports
