SPECIFICATION FairSpec
CONSTANTS
    MaxLines = 6
    Unknown = {2}
    Data = {1, 3, 4}
    DataLen = 3
    Starts <- AnA
    Enters <- AnEnter
    Setups <- OneHost
INVARIANTS TypeOK RunsNextLine PromptMeansReady
PROPERTY EveryLineRuns
