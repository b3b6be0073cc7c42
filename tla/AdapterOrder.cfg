SPECIFICATION Spec
CONSTANTS
    Models <- AdaptedUp
INVARIANTS
    AdaptersBeforeReaders
