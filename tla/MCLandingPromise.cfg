CONSTANTS
    MaxConn = 3
    MaxReq = 1
    Families = {0}
    Timeouts = FALSE
SPECIFICATION LoopSpec
PROPERTY KeepsPromise
