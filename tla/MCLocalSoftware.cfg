CONSTANTS
    Threads = 2
    Allocators = {0, 1, 2}
    BlockSize = 2
    MaxBlocks = 4
    Sockets = 3
    RootEvents = 3
    Days = {1, 2}
    Hours = {0, 1}
    MaxTraffic = 1
    MaxSamples = 2
SPECIFICATION ProcessSpec
INVARIANTS ProcessTypeOK BlockOwned InPlace Books CountedOnce
PROPERTY FreshId
CHECK_DEADLOCK FALSE
