SPECIFICATION Spec
CONSTANTS
    MaxSessions = 1
    FaultModels <- MCCueFails
INVARIANTS
    CueFailureKeepsTranscript
