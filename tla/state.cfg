CONSTANTS
    Kinds <- OneKind
    FileSize = 2
    TooSmall = 1
    MaxChanges = 1
    MaxFaults = 2
SPECIFICATION FairSpec
INVARIANTS
    RequestsAreKept
    ShutdownSavesAll
PROPERTIES
    RecoversTheLastSave
    ScheduledIsSaved
CHECK_DEADLOCK FALSE
