SPECIFICATION Spec
CONSTANTS
    Clients = {c1}
    Reconciler = Reconciler
    Events = {e1}
    Versions = {v1}
    Bad = Bad
    NoResult = NoResult
    NoEvent = NoEvent
    Trials = {FALSE}
    MaxRequests = 2
    MaxFaults = 0
INVARIANTS StoredResultIsReplayed
CHECK_DEADLOCK FALSE
