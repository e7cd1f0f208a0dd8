SPECIFICATION Spec
CONSTANTS
    Passes = {p1}
    InitialQuota = 2
    Costs = {2}
    Kinds = {"realtime"}
    Sources = {"wallet"}
    Legacies = {FALSE}
    MaxFailures = 2
    CountBound = 2
    Fetches = {f1}
    MaxErrors = 1
    MaxCrashes = 1
INVARIANTS NotRefundedTwice
CHECK_DEADLOCK FALSE
