SPECIFICATION ReportSpec
CONSTANTS
    VocabSize = 4
    EOS = 3
    WrongModulus = 7
    FullNext <- MCFullNext
    Prompts <- MCPrompts
    MaxNewTokens = {3}
    Baselines = {"noop", "lossy"}
    MaxCells = 2
INVARIANT
    ToolsDoAsCommented
