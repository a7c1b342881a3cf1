CONSTANTS
    thread_count = 4
    AGENT_THREAD_COUNT = 2
    retry = TRUE
SPECIFICATION AgentFairSpec
INVARIANTS
    ThreadsBounded
    ResultsAreComplete
    NoThreadLeftBehind
PROPERTY AgentEnds
CHECK_DEADLOCK FALSE
