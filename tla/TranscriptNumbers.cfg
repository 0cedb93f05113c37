SPECIFICATION Spec
CONSTANTS
    OverlapWords = 2
    PhraseWords = 2
    Fillers <- MCFillers
    Doubles <- MCDoubles
    Tokens <- MCNumbers
    Spoken <- MCNumbers
    Fragment <- MCFragment
    Cleaner = "safe"
    Outputs = {"typing", "clipboard"}
    MaxWords = 3
    MaxChunks = 2
INVARIANTS
    OnlyRepetitionsRemoved
CHECK_DEADLOCK FALSE
