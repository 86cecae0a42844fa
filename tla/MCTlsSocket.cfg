CONSTANTS
    Chunk = 2
    ReadLen = 2
    MaxFrame = 2
    MaxWrite = 3
    MaxRecord = 3
    MaxFlight = 3
    Flights = 2
    MaxCalls = 4
SPECIFICATION Spec
INVARIANTS TypeOK Alone ReadyToReceive
PROPERTY WholeBuffer
CHECK_DEADLOCK FALSE
