SPECIFICATION FairConnection
CONSTANTS
    Kinds = {"set_config", "ocr", "list_models", "append", "rime", "generate", "candidates"}
    Large = {"ocr", "generate"}
    MaxCalls = 4
    MaxChunks = 1
    OutCap = 2
    PipeCap = 1
    ClientBuilds = TRUE
CHECK_DEADLOCK FALSE
INVARIANTS
    OwnAnswer
    ClosedUnserved
PROPERTIES
    CallsReturn
