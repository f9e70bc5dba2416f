SPECIFICATION FairSpec
CONSTANTS
    c1 = c1
    Caller = {c1}
    Null = Null
    Params <- EveryCall
    DriverAbove = TRUE
    UsesConfig = TRUE
INVARIANTS TypeOK HandlerSeesRecord NoDoubleFree NothingLeaked QuietIsClean DecisionWakes SuccessMeansJoined
PROPERTIES FailureHasReason EveryCallReturns
