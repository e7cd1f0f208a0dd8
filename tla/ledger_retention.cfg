SPECIFICATION FairSpec
CONSTANTS
    Ops = {1, 2}
    Quote <- MCQuote
    Units <- MCUnits
    Reservers = {r1}
    NoOp = NoOp
    Subs = {1, 2}
    Total <- MCTotal
    Strict = {2}
    Preferences = {"subscription_first"}
    InitialWallet = 3
    InitialToken = 5
    Limited = TRUE
    MaxPeriods = 0
PROPERTIES RefundCompletes
CHECK_DEADLOCK FALSE
