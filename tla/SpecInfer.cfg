SPECIFICATION FairSpec
CONSTANTS
    MaxRequests = 2
    MaxTokens = 6
    MaxSpecTreeTokens = 1
    MaxBeamDepth = 2
    MaxBranches = 3
    MaxSeqLength = 8
    TokenId = {0, 1}
    NumGuids = 3
    Setups <- MCSetups
INVARIANTS
    SpecTypeOK
    CommittedPrefix
    MaskIsAncestry
    VerifyBatchFits
    ServedOnce
PROPERTIES
    ImplementsDecoding
    SpecCompletes
