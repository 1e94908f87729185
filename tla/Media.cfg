SPECIFICATION Spec
CONSTANTS
    LiveEdge = 3
    StartSegments = 2
    MaxCached = 3
    MaxBytes = 4
    SourceLength = 3
    LastSegment = 5
    MaxDiskErrors = 2
    Limits <- MCLimits
    QueueLen = 2
    Capacity = 1
    VideoChCap = 2
    AudioChCap = 2
    PoolSlots = 4
    PrebufferTarget = 2
    AudioDelay = 1
    Lead = 3
    Frames = 4
INVARIANTS LimitsKept AudioNeverLeads DirectoryIsTrue ReceiverInOrder
PROPERTIES PairedByIndex PumpNeverJams PlaysForward StaleChangesNothing CallsReturn
CHECK_DEADLOCK FALSE
