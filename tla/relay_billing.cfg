SPECIFICATION FairSpec
CONSTANTS
    Requests = {1, 2}
    Kinds <- MCKinds
    Plans <- MCPlans
    Prices = {0, 1, 2}
    InitialWallet = 2
    InitialToken = 3
    Limited = TRUE
    SubTotal = 2
    MaxRetries = 1
INVARIANTS QuotaConserved ReservationsNeverOverdraw SentIsHeld AcceptedIsNotRefunded DurableIsPaid OperationTellsTheTruth
PROPERTIES EscrowSpec UnsentIsReturned
CHECK_DEADLOCK FALSE
