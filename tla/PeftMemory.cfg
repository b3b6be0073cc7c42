SPECIFICATION Spec
CONSTANTS
    Layers = {"lora1", "lora2"}
    Adapters = {"a", "b"}
    Buffers = {"query", "softmax"}
    Lengths = {1, 2, 3}
    Configs <- MCConfigs
INVARIANTS
    MemoryTypeOK
    WeightsDisjoint
    SyncRangeIsTheAdapters
    ActivationsDisjoint
    AbortsOnlyWhenFullOrShared
CHECK_DEADLOCK FALSE
