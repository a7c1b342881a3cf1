---------------------------- MODULE MCCtldLocks ----------------------------
EXTENDS CtldLocks

CONSTANTS t1, t2, t3

Levels(job, node) == [e \in Entity |-> IF e = 0 THEN job ELSE node]

\* t1 locks as the threads of agent.c do, and is the only one that writes nodes;
\* the others read nodes, and compete for the jobs.
MC_Request ==
    [t \in Thread |->
        IF t = t1 THEN {Levels("WRITE_LOCK", "WRITE_LOCK"), Levels("READ_LOCK", "WRITE_LOCK")}
        ELSE IF t = t2 THEN {Levels("READ_LOCK", "READ_LOCK"), Levels("WRITE_LOCK", "NO_LOCK")}
        ELSE {Levels("NO_LOCK", "READ_LOCK"), Levels("WRITE_LOCK", "READ_LOCK")}]
=============================================================================
