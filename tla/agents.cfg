CONSTANTS
    Node = {n1, n2}
    Plain = {p1}
    Retried = {p1}
    Batch = {b1}
    Urgent = {u1}
    MAX_AGENT_CNT = 2
    MaxNoResp = 1
SPECIFICATION QueueFairSpec
INVARIANTS
    AgentsBounded
    EachNodeOnce
PROPERTIES
    Delivered
    AgentsEnd
CHECK_DEADLOCK FALSE
