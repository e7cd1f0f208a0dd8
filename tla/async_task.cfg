SPECIFICATION FairSpec
CONSTANTS
    Passes = {p1, p2}
    InitialQuota = 2
    Costs = {3}
    Kinds = {"video", "image", "realtime"}
    Sources = {"wallet"}
    Legacies = {TRUE, FALSE}
    MaxFailures = 2
    CountBound = 2
    Fetches = {f1}
    MaxErrors = 1
    MaxCrashes = 1
INVARIANTS OnePassBills BooksAgree RefundedIsFailed
PROPERTIES EndIsFinal TaskEnds
CHECK_DEADLOCK FALSE
