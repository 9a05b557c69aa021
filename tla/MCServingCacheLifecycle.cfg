SPECIFICATION Spec
CONSTANTS
    BlockSize = 2
    Lengths = {1, 3}
    Retentions <- MCRetentions
    ExplicitIds <- MCExplicitIds
    Counts = {1, 2}
    MaxLogical = 5
    MaxId = 2
INVARIANTS
    BlocksMapEntry
    AppendCannotFail
    ValidityExplained
PROPERTIES
    OwnersKeepTheirEntries
    CommitKeepsAlignment
