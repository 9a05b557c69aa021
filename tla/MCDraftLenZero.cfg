SPECIFICATION FairSpec
CONSTANTS
    VocabSize = 4
    EOS = 3
    WrongModulus = 7
    FullNext <- MCFullNext
    Prompts <- MCPrompts
    MaxNewTokens = {0, 1, 4}
    DraftLens = {0}
    Methods = {"sequential", "span"}
    Compressors = {"noop", "lossy", "replay", "debug_noise"}
    Observers = {"none"}
INVARIANT
    ExactOutputEquivalence
