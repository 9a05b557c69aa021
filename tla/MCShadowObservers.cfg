SPECIFICATION ShadowSpec
CONSTANTS
    VocabSize = 3
    EOS = 2
    WrongModulus = 5
    FullNext <- MCFullNext
    ShadowReplay <- MCShadowReplay
    Prompts <- MCPrompts
    MaxNewTokens = {1, 4}
    DraftLens = {1, 2, 3}
    Methods = {"sequential"}
    Compressors = {"noop", "lossy", "replay"}
    Observers = {"none", "live"}
INVARIANTS
    SnapshotsMatchTraces
    DecodeTimeAgrees
    TopOneIsNextToken
    ProposalsAddUp
    Stage3Agrees
    DamagedRecordsBlocked
    AuditFlagsMisalignment
