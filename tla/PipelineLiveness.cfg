SPECIFICATION FairSpec
CONSTANTS
    MaxPending = 2
    MaxFrames = 4
    MaxSessions = 1
    STOP = STOP
    NoResult = NoResult
PROPERTIES
    CallsReturn
    QueuedIsHeard
    LimitFreesMicrophone
