SPECIFICATION FairSpec
CONSTANTS
    Handlers = {h1, h2, h3}
    NoHandler = NoHandler
    TeamTrial = FALSE
INVARIANTS OneRequest NoUnpaidJob FailedHasNoJob
PROPERTIES RetryWindowCloses AcceptedIsHandedOver ContractSpec SubmissionEnds FailedIsRefunded
CHECK_DEADLOCK FALSE
