SPECIFICATION FairSpec
CONSTANTS
    VocabSize = 4
    EOS = 3
    WrongModulus = 7
    FullNext <- MCFullNext
    Configs <- MCConfigs
INVARIANTS
    TypeOK
    RestoredCacheCoversCommits
    FailureOnlyTruncates
    VerdictSound
    InjectedMismatchRejected
    ExperimentalVerdict
PROPERTY
    Termination
