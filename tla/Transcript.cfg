SPECIFICATION Spec
CONSTANTS
    OverlapWords = 2
    PhraseWords = 2
    Fillers <- MCFillers
    Doubles <- MCDoubles
    Tokens <- MCTokens
    Spoken <- MCSpoken
    Fragment <- MCFragment
    Cleaner = "safe"
    Outputs = {"typing", "clipboard"}
    MaxWords = 4
    MaxChunks = 2
INVARIANTS
    ExactWithoutRepeats
    NoWordVanishes
    ReportIsTrue
CHECK_DEADLOCK FALSE
