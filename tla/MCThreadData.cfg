CONSTANTS
    Roots = 1
    Batch = 3
    MaxObj = 4
    MaxProc = 4
    MaxOp = 2
    MaxMake = 2
    MaxCall = 1
    CtorCalls = FALSE
    LateConstruct = TRUE
    EarlyDelete = TRUE
    Attaching = FALSE
SPECIFICATION Spec
INVARIANTS TypeOK CallTargetAlive ProcsOwned AnswerHeard
