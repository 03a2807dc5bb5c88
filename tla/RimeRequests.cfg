SPECIFICATION FairSpec
CONSTANTS
    Workers = 2
    MaxRequests = 3
    MaxCrashes = 1
    Legacy = TRUE
    CopyFails = TRUE
    None = None
CHECK_DEADLOCK FALSE

    
PROPERTIES
    QueriesAnswered
