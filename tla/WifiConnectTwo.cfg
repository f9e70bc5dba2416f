SPECIFICATION Spec
CONSTANTS
    c1 = c1
    c2 = c2
    Caller = {c1, c2}
    Null = Null
    Params <- OpenCalls
    DriverAbove = FALSE
    UsesConfig = FALSE
SYMMETRY Symmetry
INVARIANTS PublishedRecordLive DecisionWakes
