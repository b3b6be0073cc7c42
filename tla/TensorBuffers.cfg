SPECIFICATION Spec
CONSTANTS
    Models <- MCModels
INVARIANTS
    BufferTypeOK
    ForwardReads
    BackwardReads
    OutputsApart
