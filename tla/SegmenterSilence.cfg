SPECIFICATION Spec
CONSTANTS
    Configs <- MCPauses
    FrameBound = 9
INVARIANTS
    ChunksHoldSpeech
