SPECIFICATION ProbeSpec
CONSTANTS
    VocabSize = 4
    EOS = 3
    WrongModulus = 7
    FullNext <- MCFullNext
    Prompts <- MCPrompts
    MaxNewTokens = {0, 4}
    DraftLens = {1, 3}
    Methods = {"sequential"}
    Compressors = {"lossy"}
    Observers = {"none"}
    BlockSize = 2
    MaxLogical = 6
INVARIANT
    ProbeDoesNotAlterGeneration
