SPECIFICATION FairSpec
CONSTANTS
    Clients = {c1, c2}
    Reconciler = Reconciler
    Events = {e1, e2}
    Versions = {v1, v2}
    Bad = Bad
    NoResult = NoResult
    NoEvent = NoEvent
    Trials = {TRUE, FALSE}
    MaxRequests = 3
    MaxFaults = 1
INVARIANTS BillingFollowsDelivery
PROPERTIES FinalIsFinal ContractSpec EndedJobsAreBilled ResultStored
CHECK_DEADLOCK FALSE
