CONSTANTS
    MaxReq = 3
    MaxLogs = 2
    MaxLive = 3
SPECIFICATION FairSpec
INVARIANTS TypeOK OneTurn NeverStuck TimerCovers AllOrNothing
CHECK_DEADLOCK FALSE
PROPERTY Reclaimed
