CONSTANTS
    Roots = 1
    Batch = 3
    MaxObj = 4
    MaxProc = 3
    MaxOp = 1
    MaxMake = 1
    MaxCall = 1
    CtorCalls = FALSE
    LateConstruct = TRUE
    EarlyDelete = TRUE
    Attaching = TRUE
SPECIFICATION FairSpec
PROPERTY OrphansDeleted
