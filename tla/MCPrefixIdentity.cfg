SPECIFICATION PrefixSpec
CONSTANTS
    Handles <- MCHandles
    Payloads <- MCPayloads
    Identities <- MCIdentities
    NoSummary = ""
    Objects = {o1}
    Backends = {"memory", "file"}
    MaxFailures = 2
    Missing = Missing
    Torn = Torn
INVARIANT ForeignPrefixBlocked
