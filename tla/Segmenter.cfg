SPECIFICATION Spec
CONSTANTS
    Configs <- MCConfigs
    FrameBound = 11
INVARIANTS
    TypeOK
    NoSpeechLost
    OverlapDeclared
    ChunksValid
    FlagsMatchBuffer
    ChunkBounded
    LeadingSilenceTrimmed
