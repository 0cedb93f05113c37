SPECIFICATION FairSpec
CONSTANTS
    FrameBytes = 2
    MaxBytes = 6
INVARIANTS
    TypeOK
    FramesContiguous
    StoppedIsReaped
PROPERTIES
    Refinement
    ReaderEnds
    StopAnswers
