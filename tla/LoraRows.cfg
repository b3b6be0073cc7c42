SPECIFICATION TrainingSpec
CONSTANTS
    MaxRequests = 2
    MaxTokens = 4
    MaxSeqLen = 4
    PeftEnabled = TRUE
    Bos = 0
    NumGuids = 2
    Prompts <- MCPrompts
    Finetunings <- MCFinetunings
    Fused = TRUE
    MaxBackward = 2
INVARIANT OwnOutputGradients
