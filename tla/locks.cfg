CONSTANTS
    t1 = t1
    t2 = t2
    t3 = t3
    Thread = {t1, t2, t3}
    ENTITY_COUNT = 2
    Request <- MC_Request
SPECIFICATION FairSpec
INVARIANT CountersAreExact
PROPERTIES
    RWLocksImplemented
    LockCallsEnd
    WriterNotStarved
CHECK_DEADLOCK FALSE
