SPECIFICATION Spec
CONSTANTS
    Passes = {p1, p2}
    InitialQuota = 2
    Costs = {1, 3}
    Kinds = {"video", "image"}
    Sources = {"subscription"}
    Legacies = {TRUE, FALSE}
    MaxFailures = 2
    CountBound = 2
    Fetches = {}
    MaxErrors = 1
    MaxCrashes = 1
INVARIANTS AdjustsItsSource
CHECK_DEADLOCK FALSE
