SPECIFICATION ProbeFairSpec
CONSTANTS
    VocabSize = 4
    EOS = 3
    WrongModulus = 7
    FullNext <- MCFullNext
    Prompts <- MCPrompts
    MaxNewTokens = {0, 1, 4}
    DraftLens = {0, 1, 3}
    Methods = {"sequential", "span"}
    Compressors = {"noop", "lossy", "replay", "debug_noise"}
    Observers = {"none", "live", "callable"}
    BlockSize = 2
    MaxLogical = 6
INVARIANTS
    TypeOK
    AuthoritativeCache
    Aligned
    ExactOutput
    TracesReplayOutput
    AcceptanceByKind
    SidecarCountsOutput
    PhysicalOvercountsEos
PROPERTIES
    OnlyCommitMutates
    ImplementsGreedy
    ProbedCallEnds
