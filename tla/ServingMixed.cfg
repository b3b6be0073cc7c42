SPECIFICATION FairServing
CONSTANTS
    t1 = t1
    t2 = t2
    MaxRequests = 2
    MaxTokens = 2
    MaxSeqLen = 5
    PeftEnabled = TRUE
    Bos = 0
    NumGuids = 3
    Prompts <- MCPrompts
    Finetunings <- MCFinetunings
    Threads = {t1, t2}
    Workloads <- MixedWorkload
PROPERTIES
    GenerateReturns
CHECK_DEADLOCK FALSE
