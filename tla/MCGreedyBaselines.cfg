SPECIFICATION ToolSpec
CONSTANTS
    VocabSize = 4
    EOS = 3
    WrongModulus = 7
    FullNext <- MCFullNext
    Prompts <- MCPrompts
    MaxNewTokens = {0, 1, 4}
    Baselines = {"full", "noop", "lossy", "replay", "debug_noise"}
INVARIANTS
    SameEndAsGenerate
    LossyStartsAtThePrompt
    AuthorityLateOnLength
    TopkPathsAgree
PROPERTY
    BaselineIsGreedy
