\* Three calls of at most 2 assumed, 0 to 4 real; limits below, at and above the plan.
SPECIFICATION Spec
CONSTANTS
    Calls = 3
    MaxCallCost = 2
    Limits = {5, 6, 7}
    Costs = {0, 1, 2, 4}
CHECK_DEADLOCK FALSE
INVARIANTS SpendIsBounded ReportIsComplete
