SPECIFICATION FairSpec
CONSTANTS
    MaxSessions = 2
    FaultModels <- MCFaultModels
INVARIANTS
    TypeOK
    PipelineHasSession
    RestsIdleOrRecording
    ActiveIsReachable
    OneOutcome
    NoTranscriptLost
PROPERTIES
    StopEnds
    HandlesInOneStep
