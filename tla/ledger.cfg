SPECIFICATION FairSpec
CONSTANTS
    Ops = {1, 2}
    Quote <- MCQuote
    Units <- MCUnits
    Reservers = {r1, r2}
    NoOp = NoOp
    Subs = {1, 2}
    Total <- MCTotal
    Strict = {2}
    Preferences = {"subscription_only", "wallet_only", "wallet_first", "subscription_first"}
    InitialWallet = 3
    InitialToken = 4
    Limited = TRUE
    MaxPeriods = 1
INVARIANTS QuotaConserved SubscriptionExact NeverOverdrawn StrictProtectsWallet
PROPERTIES ReservationsClose FundsEscrow
CHECK_DEADLOCK FALSE
