CONSTANTS
    num_nodes = 4
    width = 2
    Estatus <- Tasks
    PARENT_RETRY = 1
    MaxFaults = 1
    Widths = {2, 3, 5, 7}
    MaxNodes = 60
SPECIFICATION FairSpec
INVARIANTS
    OnlyEndedReported
    OneMessage
    
    CountedOnce
    SubtreesAreBlocks
PROPERTY AllReported
CHECK_DEADLOCK FALSE
