CONSTANTS
    MaxConn = 2
    MaxReq = 2
    Families = {0}
    Timeouts = TRUE
SPECIFICATION Spec
INVARIANTS TypeOK OneTurn AcceptArmed TimerCovers AllOrNothing NeedsTwice
PROPERTY LateCancel
CHECK_DEADLOCK FALSE
