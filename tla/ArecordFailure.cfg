SPECIFICATION Spec
CONSTANTS
    FrameBytes = 2
    MaxBytes = 2
INVARIANTS
    FailureIsReported
