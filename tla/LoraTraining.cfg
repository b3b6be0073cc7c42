SPECIFICATION FairTraining
CONSTANTS
    MaxRequests = 2
    MaxTokens = 4
    MaxSeqLen = 4
    PeftEnabled = TRUE
    Bos = 0
    NumGuids = 3
    Prompts <- MCPrompts
    Finetunings <- MCFinetunings
    Fused = TRUE
    MaxBackward = 2
INVARIANTS
    TrainingTypeOK
    UpdatesUseWindows
    SavedWeightsComplete
    EntriesWhole
    OwnActivations
PROPERTIES
    TrainedIsSaved
