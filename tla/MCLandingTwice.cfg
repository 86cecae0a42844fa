CONSTANTS
    MaxConn = 2
    MaxReq = 1
    Families = {0}
    Timeouts = TRUE
SPECIFICATION Spec
INVARIANT CompletesOnce
CHECK_DEADLOCK FALSE
