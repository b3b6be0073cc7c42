SPECIFICATION Spec
CONSTANTS
    MaxRequests = 2
    MaxTokens = 3
    MaxSeqLen = 6
    PeftEnabled = FALSE
    Bos = 0
    NumGuids = 3
    Prompts <- MCAllPrompts
    Finetunings <- NoFinetunings
INVARIANTS
    BatchFits
    SlotsMatchRows
    RowsServePending
    NoRequestLost
    KvCachePrefix
PROPERTIES
    GeneratedFromWholePrefix
    ImplementsService
