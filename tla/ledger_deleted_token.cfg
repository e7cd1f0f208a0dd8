SPECIFICATION FairSpec
CONSTANTS
    Ops = {1, 2}
    Quote <- MCQuote
    Units <- MCUnits
    Reservers = {r1}
    NoOp = NoOp
    Subs = {1, 2}
    Total <- MCTotal
    Strict = {2}
    Preferences = {"wallet_only"}
    InitialWallet = 3
    InitialToken = 5
    Limited = TRUE
    MaxPeriods = 0
PROPERTIES SettleCompletes
CHECK_DEADLOCK FALSE
