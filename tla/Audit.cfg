SPECIFICATION FairSpec
CONSTANTS
    Capacity = 1
    BatchSize = 2
    MaxRetries = 1
    MaxEvents = 3
    MaxCrashes = 1
CHECK_DEADLOCK FALSE
INVARIANTS
    TypeOK
    MemoryIsBounded
    NothingVanishes
    IndexedInOrder
    DuplicatesAreBounded
PROPERTY EventuallySettled
