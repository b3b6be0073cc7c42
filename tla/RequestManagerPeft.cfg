SPECIFICATION FairSpec
CONSTANTS
    MaxRequests = 3
    MaxTokens = 3
    MaxSeqLen = 7
    PeftEnabled = TRUE
    Bos = 1
    NumGuids = 3
    Prompts <- MCPeftPrompts
    Finetunings <- MCFinetunings
INVARIANTS
    TypeOK
    OneIncompletePrompt
    FinetuningResumes
PROPERTIES
    ImplementsService
    InferenceCompletes
    FinetuningCompletes
