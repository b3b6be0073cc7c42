SPECIFICATION Spec
CONSTANTS
    MaxRequests = 2
    MaxTokens = 3
    MaxSeqLen = 6
    PeftEnabled = FALSE
    Bos = 0
    NumGuids = 3
    Prompts <- MCPrompts
    Finetunings <- NoFinetunings
INVARIANT GenerationTokensFirst
