----------------------------- MODULE CtldLocks -----------------------------
(***************************************************************************)
(* slurmctld/locks.c: read and write locks on slurmctld's data structures, *)
(* made of one table of counters under one mutex and one condition         *)
(* variable.  A call of lock_slurmctld takes the entities in the order of  *)
(* their index, unlock_slurmctld gives them back in the opposite order.    *)
(* write_cnt_lock, which no decision reads, is left out.                   *)
(***************************************************************************)
EXTENDS Integers, FiniteSets

CONSTANTS
    Thread,         \* threads of slurmctld
    ENTITY_COUNT,   \* entities are 0 .. ENTITY_COUNT - 1 (CONFIG, JOB, NODE, PART)
    Request         \* Request[t]: the slurmctld_lock_t values thread t locks with

Entity == 0 .. (ENTITY_COUNT - 1)
Level == {"NO_LOCK", "READ_LOCK", "WRITE_LOCK"}
nobody == "nobody"   \* no thread owns locks_mutex

ASSUME CtldLocksAssumption ==
    /\ IsFiniteSet(Thread) /\ nobody \notin Thread
    /\ ENTITY_COUNT \in Nat \ {0}
    /\ Request \in [Thread -> SUBSET [Entity -> Level]]

VARIABLES
    read_lock,        \* slurmctld_locks: readers of each entity
    write_lock,       \* writers of each entity
    write_wait_lock,  \* writers waiting for each entity
    locks_mutex,      \* its owner across a step: about to wait, or gone
    kill_thread,
    pc,               \* where each thread is
    lock_levels,      \* argument of its call
    wait_lock,        \* lock_slurmctld (TRUE) or try_lock_slurmctld
    at                \* the entity it has come to

counters == <<read_lock, write_lock, write_wait_lock>>
call == <<lock_levels, wait_lock>>
vars == <<read_lock, write_lock, write_wait_lock, locks_mutex, kill_thread,
          pc, lock_levels, wait_lock, at>>

Init ==
    /\ read_lock = [e \in Entity |-> 0]
    /\ write_lock = [e \in Entity |-> 0]
    /\ write_wait_lock = [e \in Entity |-> 0]
    /\ locks_mutex = nobody
    /\ kill_thread = FALSE
    /\ pc = [t \in Thread |-> "idle"]
    /\ lock_levels = [t \in Thread |-> [e \in Entity |-> "NO_LOCK"]]
    /\ wait_lock = [t \in Thread |-> TRUE]
    /\ at = [t \in Thread |-> 0]

\* The level thread t wants of the entity it has come to.
Wanted(t) == lock_levels[t][at[t]]

Goto(t, label) == pc' = [pc EXCEPT ![t] = label]

Broadcast_nobody(t, label) == Goto(t, label)

\* pthread_cond_broadcast(&locks_cond), while thread t goes on to label.
Broadcast(t, label) ==
    pc' = [u \in Thread |-> IF u = t THEN label
                            ELSE IF pc[u] = "waiting" THEN "woken" ELSE pc[u]]

-----------------------------------------------------------------------------
\* lock_slurmctld and try_lock_slurmctld

Call(t) ==
    /\ pc[t] = "idle"
    /\ \E levels \in Request[t] : lock_levels' = [lock_levels EXCEPT ![t] = levels]
    /\ \E w \in BOOLEAN : wait_lock' = [wait_lock EXCEPT ![t] = w]
    /\ at' = [at EXCEPT ![t] = 0]
    /\ Goto(t, "lock")
    /\ UNCHANGED <<counters, locks_mutex, kill_thread>>

\* An entity at NO_LOCK is passed over.
SkipLock(t) ==
    /\ pc[t] = "lock" /\ at[t] \in Entity /\ Wanted(t) = "NO_LOCK"
    /\ at' = [at EXCEPT ![t] = @ + 1]
    /\ UNCHANGED <<counters, locks_mutex, kill_thread, pc, call>>

\* The last entity is passed: the call returns with all it asked for.
Locked(t) ==
    /\ pc[t] = "lock" /\ at[t] = ENTITY_COUNT
    /\ Goto(t, "held")
    /\ UNCHANGED <<counters, locks_mutex, kill_thread, call, at>>

-----------------------------------------------------------------------------
\* _wr_rdlock and _wr_wrlock.  A thread comes to the test of their loop with
\* the mutex: at first, or after the wait has ended without a kill.
AtTest(t) ==
    /\ locks_mutex = nobody
    /\ at[t] \in Entity
    /\ pc[t] = "lock" \/ (pc[t] = "woken" /\ ~kill_thread)

RdFree_past_writer(e) == write_wait_lock[e] = 0
RdFree_past_waiter(e) == write_lock[e] = 0

RdFree(e) == write_lock[e] = 0 /\ write_wait_lock[e] = 0
WrFree(e) == read_lock[e] = 0 /\ write_lock[e] = 0

\* The lock is free: count it and go on to the next entity.
RdGrant(t) ==
    /\ AtTest(t) /\ Wanted(t) = "READ_LOCK" /\ RdFree(at[t])
    /\ read_lock' = [read_lock EXCEPT ![at[t]] = @ + 1]
    /\ at' = [at EXCEPT ![t] = @ + 1]
    /\ Goto(t, "lock")
    /\ UNCHANGED <<write_lock, write_wait_lock, locks_mutex, kill_thread, call>>

\* A writer that has waited was counted as waiting, and no longer is.
WrGrant(t) ==
    /\ AtTest(t) /\ Wanted(t) = "WRITE_LOCK" /\ WrFree(at[t])
    /\ write_lock' = [write_lock EXCEPT ![at[t]] = @ + 1]
    /\ write_wait_lock' = [write_wait_lock EXCEPT ![at[t]] =
                               IF pc[t] = "woken" THEN @ - 1 ELSE @]
    /\ at' = [at EXCEPT ![t] = @ + 1]
    /\ Goto(t, "lock")
    /\ UNCHANGED <<read_lock, locks_mutex, kill_thread, call>>

Busy(t) ==
    \/ Wanted(t) = "READ_LOCK" /\ ~RdFree(at[t])
    \/ Wanted(t) = "WRITE_LOCK" /\ ~WrFree(at[t])

TryFails_gives_all(t) ==
    /\ AtTest(t) /\ ~wait_lock[t] /\ Busy(t)
    /\ Goto(t, "unlock")
    /\ UNCHANGED <<counters, locks_mutex, kill_thread, call, at>>

\* Not free, and the call may not wait: give back the entities before it.
TryFails(t) ==
    /\ AtTest(t) /\ ~wait_lock[t] /\ Busy(t)
    /\ at' = [at EXCEPT ![t] = @ - 1]
    /\ Goto(t, "unlock")
    /\ UNCHANGED <<counters, locks_mutex, kill_thread, call>>

\* Not free: on the way into pthread_cond_wait, still with the mutex.  A
\* writer counts itself as waiting the first time.
MustWait(t) ==
    /\ AtTest(t) /\ wait_lock[t] /\ Busy(t)
    /\ write_wait_lock' = [write_wait_lock EXCEPT ![at[t]] =
           IF Wanted(t) = "WRITE_LOCK" /\ pc[t] = "lock" THEN @ + 1 ELSE @]
    /\ locks_mutex' = t
    /\ Goto(t, "to_wait")
    /\ UNCHANGED <<read_lock, write_lock, kill_thread, call, at>>

\* pthread_cond_wait gives the mutex up and sleeps, in one step.
CondWait(t) ==
    /\ pc[t] = "to_wait"
    /\ locks_mutex' = nobody
    /\ Goto(t, "waiting")
    /\ UNCHANGED <<counters, kill_thread, call, at>>

\* A wait may also end without a broadcast.
SpuriousWakeup(t) ==
    /\ pc[t] = "waiting"
    /\ Goto(t, "woken")
    /\ UNCHANGED <<counters, locks_mutex, kill_thread, call, at>>

\* The wait returns with the mutex, and pthread_exit keeps it.
ExitWhenKilled(t) ==
    /\ pc[t] = "woken" /\ kill_thread /\ locks_mutex = nobody
    /\ locks_mutex' = t
    /\ Goto(t, "exited")
    /\ UNCHANGED <<counters, kill_thread, call, at>>

-----------------------------------------------------------------------------
\* unlock_slurmctld, and the way back out of a try_lock_slurmctld that fails

Unlock(t) ==
    /\ pc[t] = "held"
    /\ at' = [at EXCEPT ![t] = ENTITY_COUNT - 1]
    /\ Goto(t, "unlock")
    /\ UNCHANGED <<counters, locks_mutex, kill_thread, call>>

\* _wr_rdunlock, _wr_wrunlock, or an entity passed over.
Wr_unlock(t) ==
    /\ pc[t] = "unlock" /\ at[t] \in Entity
    /\ \/ /\ Wanted(t) = "NO_LOCK"
          /\ UNCHANGED <<counters, pc>>
       \/ /\ Wanted(t) = "READ_LOCK" /\ locks_mutex = nobody
          /\ read_lock' = [read_lock EXCEPT ![at[t]] = @ - 1]
          /\ Broadcast(t, "unlock")
          /\ UNCHANGED <<write_lock, write_wait_lock>>
       \/ /\ Wanted(t) = "WRITE_LOCK" /\ locks_mutex = nobody
          /\ write_lock' = [write_lock EXCEPT ![at[t]] = @ - 1]
          /\ Broadcast(t, "unlock")
          /\ UNCHANGED <<read_lock, write_wait_lock>>
    /\ at' = [at EXCEPT ![t] = @ - 1]
    /\ UNCHANGED <<locks_mutex, kill_thread, call>>

Unlocked(t) ==
    /\ pc[t] = "unlock" /\ at[t] = -1
    /\ Goto(t, "idle")
    /\ UNCHANGED <<counters, locks_mutex, kill_thread, call, at>>

\* kill_locked_threads: the flag and the broadcast, without the mutex.
Kill_locked_threads ==
    /\ ~kill_thread
    /\ kill_thread' = TRUE
    /\ pc' = [u \in Thread |-> IF pc[u] = "waiting" THEN "woken" ELSE pc[u]]
    /\ UNCHANGED <<counters, locks_mutex, call, at>>

-----------------------------------------------------------------------------
\* A thread's own steps; it need not call, and nothing wakes it by itself.
Step(t) ==
    \/ SkipLock(t) \/ Locked(t) \/ RdGrant(t) \/ WrGrant(t) \/ TryFails(t)
    \/ MustWait(t) \/ CondWait(t) \/ ExitWhenKilled(t)
    \/ Unlock(t) \/ Wr_unlock(t) \/ Unlocked(t)

Next ==
    \/ \E t \in Thread : Call(t) \/ Step(t) \/ SpuriousWakeup(t)
    \/ Kill_locked_threads

Spec == Init /\ [][Next]_vars

\* A thread that has a step to make, and wants the mutex again and again for
\* it, is not passed over for ever.
FairSpec == Spec /\ \A t \in Thread : SF_vars(Step(t))

-----------------------------------------------------------------------------
\* The level at which thread t holds e: what it has passed on the way up, and
\* what is left on the way down.
Holding(t, e) ==
    IF \/ pc[t] \in {"lock", "to_wait", "waiting", "woken", "exited"} /\ e < at[t]
       \/ pc[t] = "held"
       \/ pc[t] = "unlock" /\ e <= at[t]
    THEN lock_levels[t][e] ELSE "NO_LOCK"

\* Thread t is counted in write_wait_lock[e] (for ever, once it has exited).
WaitsToWrite(t, e) ==
    /\ pc[t] \in {"to_wait", "waiting", "woken", "exited"}
    /\ at[t] = e /\ lock_levels[t][e] = "WRITE_LOCK"

Holders(e, level) == {t \in Thread : Holding(t, e) = level}
WaitingWriters(e) == {t \in Thread : WaitsToWrite(t, e)}

\* Where a call can be: at an entity, or past the last or the first.
Place == -1 .. ENTITY_COUNT

TypeOK ==
    /\ read_lock \in [Entity -> Int]
    /\ write_lock \in [Entity -> Int]
    /\ write_wait_lock \in [Entity -> Int]
    /\ locks_mutex \in Thread \cup {nobody}
    /\ kill_thread \in BOOLEAN
    /\ pc \in [Thread -> {"idle", "lock", "to_wait", "waiting", "woken",
                          "exited", "held", "unlock"}]
    /\ lock_levels \in [Thread -> [Entity -> Level]]
    /\ wait_lock \in [Thread -> BOOLEAN]
    /\ at \in [Thread -> Place]

(***************************************************************************)
(* The three counters of every entity are exactly the readers, the writers *)
(* and the waiting writers there are: no path through lock, try_lock with  *)
(* its way back, unlock and kill leaks a count or gives one back twice     *)
(* (_wr_rdlock, _wr_wrlock and their unlocks).                             *)
(***************************************************************************)
CountersAreExact ==
    \A e \in Entity :
        /\ read_lock[e] = Cardinality(Holders(e, "READ_LOCK"))
        /\ write_lock[e] = Cardinality(Holders(e, "WRITE_LOCK"))
        /\ write_wait_lock[e] = Cardinality(WaitingWriters(e))

(***************************************************************************)
(* lock_slurmctld implements readers-and-writers locks: seen through what  *)
(* the threads hold, every step of locks.c grants one compatible lock,     *)
(* releases one, or changes nothing.                                       *)
(***************************************************************************)
RW == INSTANCE RWLocks
          WITH holder <- [e \in Entity |-> [t \in Thread |-> Holding(t, e)]]
RWLocksImplemented == RW!RWSpec

(***************************************************************************)
(* "lock_slurmctld() and unlock_slurmctld() to get the ordering so as to   *)
(* prevent deadlock" (locks.h): while some thread is inside a lock call,   *)
(* some thread eventually gets all it asked for, or a try is refused.      *)
(***************************************************************************)
Entering(t) == pc[t] \in {"lock", "to_wait", "waiting", "woken"}

LockCallsEnd ==
    (\E t \in Thread : Entering(t))
        ~> (kill_thread \/ \E t \in Thread : pc[t] \in {"held", "unlock"})

(***************************************************************************)
(* "Writers will have priority in locking the resource over readers"       *)
(* (locks.h): a thread that waits to write the last entity, and is the     *)
(* only one that ever writes it, is not kept waiting for ever by readers   *)
(* that come and go.                                                       *)
(***************************************************************************)
Last == ENTITY_COUNT - 1
SoleWriter(t) ==
    \A u \in Thread \ {t} : \A levels \in Request[u] : levels[Last] # "WRITE_LOCK"

WriterNotStarved ==
    \A t \in Thread : SoleWriter(t) =>
        (WaitsToWrite(t, Last) ~> (kill_thread \/ Holding(t, Last) = "WRITE_LOCK"))

=============================================================================
