SPECIFICATION Spec
CONSTANTS
    MaxPending = 1
    MaxFrames = 3
    MaxSessions = 2
    STOP = STOP
    NoResult = NoResult
INVARIANTS
    TypeOK
    Conveyor
    StableAtBuild
    PolicyExclusive
    ReadyBetweenCalls
    MemoryBounded
PROPERTIES
    Refinement
