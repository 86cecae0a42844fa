CONSTANTS
    MaxConn = 1
    MaxReq = 2
    Families = {0, 1}
    Timeouts = TRUE
SPECIFICATION FairSpec
PROPERTY IdleReclaimed
CHECK_DEADLOCK FALSE
