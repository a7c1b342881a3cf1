CONSTANTS
    c1 = c1
    c2 = c2
    c3 = c3  c4 = c4
    nobody = nobody
    Client = {c1, c2, c3, c4}
    Known = {c1, c2}
    MaxFd = 3
SPECIFICATION ConnFairSpec
INVARIANT
    HandledOnce
PROPERTIES
    ThreadsEnd
    SerialClientsServed
CHECK_DEADLOCK FALSE
