------------------------------ MODULE RWLocks ------------------------------
(***************************************************************************)
(* What slurmctld's locks promise (slurmctld/locks.h): every data          *)
(* structure is held by any number of readers or by one writer.  How a     *)
(* thread waits, who goes first and what is counted meanwhile is left to   *)
(* CtldLocks, which implements this specification.                         *)
(***************************************************************************)
CONSTANTS
    Thread,   \* threads of slurmctld
    Entity    \* the data structures locked: config, job, node, partition

VARIABLE holder   \* holder[e][t]: the level at which t holds e

Level == {"NO_LOCK", "READ_LOCK", "WRITE_LOCK"}

RWInit == holder = [e \in Entity |-> [t \in Thread |-> "NO_LOCK"]]

\* A thread may have e for reading beside readers, for writing alone.
Compatible(t, e, level) ==
    \A u \in Thread \ {t} :
        holder[e][u] \in (IF level = "READ_LOCK" THEN {"NO_LOCK", "READ_LOCK"}
                                                 ELSE {"NO_LOCK"})

Grant(t, e, level) ==
    /\ holder[e][t] = "NO_LOCK"
    /\ Compatible(t, e, level)
    /\ holder' = [holder EXCEPT ![e][t] = level]

Release(t, e) ==
    /\ holder[e][t] # "NO_LOCK"
    /\ holder' = [holder EXCEPT ![e][t] = "NO_LOCK"]

RWNext ==
    \E t \in Thread, e \in Entity :
        \/ \E level \in {"READ_LOCK", "WRITE_LOCK"} : Grant(t, e, level)
        \/ Release(t, e)

RWSpec == RWInit /\ [][RWNext]_holder

(***************************************************************************)
(* A thread that holds an entity for writing is alone with it: nobody else *)
(* holds it at all (locks.h, lines 54 to 59).                              *)
(***************************************************************************)
Exclusive ==
    \A e \in Entity : \A t, u \in Thread :
        t # u /\ holder[e][t] = "WRITE_LOCK" => holder[e][u] = "NO_LOCK"

=============================================================================
