SPECIFICATION FairSpec
CONSTANTS
    Audits = {a1, a2}
    Projectors = {p1, p2, p3}
    NoAudit = NoAudit
    ClickHouse = {p3}
    NotRequired = {a2}
    MaxFaults = 2
INVARIANTS LogAtMostOnce ProjectedHasLog
PROPERTIES NoTakeover EventuallyProjected
CHECK_DEADLOCK FALSE
