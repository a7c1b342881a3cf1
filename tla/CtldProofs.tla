---------------------------- MODULE CtldProofs ----------------------------
(***************************************************************************)
(* Proofs about three parts of slurmctld.  Its locks (module CtldLocks),   *)
(* for any number of threads and entities and any sets of requests: the    *)
(* counters are exact, the code implements readers-and-writers locks, and  *)
(* a writer is alone.  One agent (Agent), for any number of groups and of  *)
(* threads: the bound on the threads, that the results taken down are      *)
(* complete, and that no thread is left behind.  All agents (AgentQueue),  *)
(* for any requests, nodes and MAX_AGENT_CNT: the bound on the agents that *)
(* work, and that a request is neither lost nor sent twice.                *)
(***************************************************************************)
EXTENDS CtldLocks, Agent, AgentQueue, FiniteSetTheorems, WellFoundedInduction, TLAPS

\* The states of a thread that has once found its entity busy.
Waited == {"to_wait", "waiting", "woken", "exited"}

(***************************************************************************)
(* Such a thread is in lock_slurmctld, not in try_lock_slurmctld, and has  *)
(* come to an entity it wants.                                             *)
(***************************************************************************)
WaitersWant ==
    \A t \in Thread :
        pc[t] \in Waited => /\ wait_lock[t]
                            /\ at[t] \in Entity
                            /\ Wanted(t) # "NO_LOCK"

\* The inductive invariant.
IInv == TypeOK /\ WaitersWant /\ CountersAreExact

-----------------------------------------------------------------------------
\* Effects of a step on what the threads hold and on who waits to write.

\* Nobody's holdings change, but thread t's of entity x, which become level.
Holds(t, x, level) ==
    \A u \in Thread, e \in Entity :
        Holding(u, e)' = IF u = t /\ e = x THEN level ELSE Holding(u, e)

SameHoldings == \A u \in Thread, e \in Entity : Holding(u, e)' = Holding(u, e)

SameWaiters == \A u \in Thread, e \in Entity : WaitsToWrite(u, e)' <=> WaitsToWrite(u, e)

\* Thread t waits to write x after the step, if w, and otherwise does not.
Waits(t, x, w) ==
    \A u \in Thread, e \in Entity :
        WaitsToWrite(u, e)' <=> IF u = t /\ e = x THEN w ELSE WaitsToWrite(u, e)

-----------------------------------------------------------------------------
(***************************************************************************)
(* The arithmetic of the entities: what is before, at and after x.         *)
(***************************************************************************)
LEMMA Order ==
    ASSUME NEW x \in Entity
    PROVE  /\ x \in Int /\ 0 <= x /\ x < ENTITY_COUNT
           /\ x + 1 \in Place
           /\ x - 1 \in Place
           /\ \A e \in Entity : /\ e < x + 1 <=> e < x \/ e = x
                                /\ e <= x <=> e < x \/ e = x
                                /\ e <= x - 1 <=> e < x
                                /\ e < ENTITY_COUNT
                                /\ e <= ENTITY_COUNT - 1
                                /\ ~(e < 0)
                                /\ ~(e <= -1)
<1>1. ENTITY_COUNT \in Int
  BY CtldLocksAssumption
<1>2. x \in Int /\ 0 <= x /\ x < ENTITY_COUNT
  BY <1>1 DEF Entity
<1>3. \A e \in Entity : e \in Int /\ 0 <= e /\ e < ENTITY_COUNT
  BY <1>1 DEF Entity
<1>4. x + 1 \in Place /\ x - 1 \in Place
  BY <1>1, <1>2 DEF Place
<1> QED
  BY <1>1, <1>2, <1>3, <1>4

(***************************************************************************)
(* Cardinalities of sets of threads: of the empty set, and of a set that   *)
(* gains or loses one thread.                                              *)
(***************************************************************************)
LEMMA Count ==
    ASSUME NEW S \in SUBSET Thread
    PROVE  /\ Cardinality(S) \in Nat
           /\ Cardinality(S) = 0 <=> S = {}
           /\ \A t \in Thread : t \notin S => Cardinality(S \cup {t}) = Cardinality(S) + 1
           /\ \A t \in S : Cardinality(S \ {t}) = Cardinality(S) - 1
<1>1. IsFiniteSet(S)
  BY CtldLocksAssumption, FS_Subset, Zenon
<1> QED
  BY <1>1, FS_EmptySet, FS_CardinalityType, FS_AddElement, FS_RemoveElement, Zenon

(***************************************************************************)
(* When a step leaves what everybody holds as it was, the holders of every *)
(* entity are the same.                                                    *)
(***************************************************************************)
LEMMA HoldersSame ==
    ASSUME SameHoldings
    PROVE  \A e \in Entity : \A level \in Level : Holders(e, level)' = Holders(e, level)
  BY Zenon DEF SameHoldings, Holders

(***************************************************************************)
(* When a step gives thread t entity x, it is one more holder of x at that *)
(* level, and all other holders are as before.                             *)
(***************************************************************************)
LEMMA HoldersGain ==
    ASSUME NEW t \in Thread, NEW x \in Entity, NEW new \in {"READ_LOCK", "WRITE_LOCK"},
           Holding(t, x) = "NO_LOCK", Holds(t, x, new)
    PROVE  /\ t \notin Holders(x, new)
           /\ Holders(x, new)' = Holders(x, new) \cup {t}
           /\ \A e \in Entity : \A level \in {"READ_LOCK", "WRITE_LOCK"} :
                  e # x \/ level # new => Holders(e, level)' = Holders(e, level)
  BY Zenon DEF Holds, Holders

(***************************************************************************)
(* When a step takes entity x from thread t, it is one holder of x less,   *)
(* and all other holders are as before.                                    *)
(***************************************************************************)
LEMMA HoldersLose ==
    ASSUME NEW t \in Thread, NEW x \in Entity, NEW old \in {"READ_LOCK", "WRITE_LOCK"},
           Holding(t, x) = old, Holds(t, x, "NO_LOCK")
    PROVE  /\ t \in Holders(x, old)
           /\ Holders(x, old)' = Holders(x, old) \ {t}
           /\ \A e \in Entity : \A level \in {"READ_LOCK", "WRITE_LOCK"} :
                  e # x \/ level # old => Holders(e, level)' = Holders(e, level)
  BY Zenon DEF Holds, Holders

(***************************************************************************)
(* When a step leaves who waits to write as it was, so are the sets of     *)
(* waiting writers.                                                        *)
(***************************************************************************)
LEMMA WaitersSame ==
    ASSUME SameWaiters
    PROVE  \A e \in Entity : WaitingWriters(e)' = WaitingWriters(e)
  BY Zenon DEF SameWaiters, WaitingWriters

-----------------------------------------------------------------------------
(***************************************************************************)
(* Every action of a thread keeps the types.                               *)
(***************************************************************************)
LEMMA TypeStep ==
    ASSUME TypeOK, [Next]_vars
    PROVE  TypeOK'
<1> USE DEF TypeOK, Goto, counters, call
<1>0. /\ \A t \in Thread : at[t] \in Entity => at[t] + 1 \in Place /\ at[t] - 1 \in Place
      /\ 0 \in Place /\ ENTITY_COUNT - 1 \in Place
  <2>1. 0 \in Place /\ ENTITY_COUNT - 1 \in Place
    BY CtldLocksAssumption DEF Place
  <2> QED
    BY <2>1, Order, Zenon
<1>1. ASSUME NEW t \in Thread, Call(t) PROVE TypeOK'
  <2>1. PICK levels \in Request[t] : lock_levels' = [lock_levels EXCEPT ![t] = levels]
    BY <1>1, Zenon DEF Call
  <2>2. levels \in [Entity -> Level]
    BY CtldLocksAssumption, Zenon
  <2> QED
    BY <1>0, <1>1, <2>1, <2>2, Zenon DEF Call
<1>2. ASSUME NEW t \in Thread, SkipLock(t) PROVE TypeOK'
  BY <1>0, <1>2, Zenon DEF SkipLock
<1>12. ASSUME NEW t \in Thread, Locked(t) PROVE TypeOK'
  BY <1>12, Zenon DEF Locked
<1>3. ASSUME NEW t \in Thread, RdGrant(t) PROVE TypeOK'
  BY <1>0, <1>3 DEF RdGrant, AtTest
<1>4. ASSUME NEW t \in Thread, WrGrant(t) PROVE TypeOK'
  BY <1>0, <1>4 DEF WrGrant, AtTest
<1>5. ASSUME NEW t \in Thread, TryFails(t) PROVE TypeOK'
  BY <1>0, <1>5, Zenon DEF TryFails, AtTest
<1>6. ASSUME NEW t \in Thread, MustWait(t) PROVE TypeOK'
  BY <1>6 DEF MustWait, AtTest
<1>7. ASSUME NEW t \in Thread, CondWait(t) \/ SpuriousWakeup(t) \/ ExitWhenKilled(t)
      PROVE  TypeOK'
  BY <1>7, Zenon DEF CondWait, SpuriousWakeup, ExitWhenKilled
<1>8. ASSUME NEW t \in Thread, Unlock(t) \/ Unlocked(t) PROVE TypeOK'
  BY <1>0, <1>8, Zenon DEF Unlock, Unlocked
<1>9. ASSUME NEW t \in Thread, Wr_unlock(t) PROVE TypeOK'
  BY <1>0, <1>9 DEF Wr_unlock, Broadcast
<1>10. ASSUME Kill_locked_threads PROVE TypeOK'
  BY <1>10, Zenon DEF Kill_locked_threads
<1>11. ASSUME UNCHANGED vars PROVE TypeOK'
  BY <1>11, Zenon DEF vars
<1> QED
  BY <1>1, <1>2, <1>3, <1>4, <1>5, <1>6, <1>7, <1>8, <1>9, <1>10, <1>11, Zenon,
     <1>12 DEF Next, Step

(***************************************************************************)
(* Every action keeps WaitersWant: only MustWait takes a thread into the   *)
(* wait, and a waiting thread's call stays as it is.                       *)
(***************************************************************************)
LEMMA WaitersWantStep ==
    ASSUME TypeOK, WaitersWant, [Next]_vars
    PROVE  WaitersWant'
<1> USE DEF TypeOK, WaitersWant, Waited, Wanted, Goto, counters, call
<1>1. ASSUME NEW t \in Thread, Call(t) PROVE WaitersWant'
  BY <1>1, Zenon DEF Call
<1>2. ASSUME NEW t \in Thread, SkipLock(t) \/ Locked(t) PROVE WaitersWant'
  BY <1>2, Zenon DEF SkipLock, Locked
<1>3. ASSUME NEW t \in Thread, RdGrant(t) \/ WrGrant(t) PROVE WaitersWant'
  BY <1>3 DEF RdGrant, WrGrant
<1>4. ASSUME NEW t \in Thread, TryFails(t) PROVE WaitersWant'
  BY <1>4, Zenon DEF TryFails
<1>5. ASSUME NEW t \in Thread, MustWait(t) PROVE WaitersWant'
  BY <1>5, Zenon DEF MustWait, AtTest, Busy
<1>6. ASSUME NEW t \in Thread, CondWait(t) \/ SpuriousWakeup(t) \/ ExitWhenKilled(t)
      PROVE  WaitersWant'
  BY <1>6, Zenon DEF CondWait, SpuriousWakeup, ExitWhenKilled
<1>7. ASSUME NEW t \in Thread, Unlock(t) \/ Unlocked(t) PROVE WaitersWant'
  BY <1>7 DEF Unlock, Unlocked
<1>8. ASSUME NEW t \in Thread, Wr_unlock(t) PROVE WaitersWant'
  BY <1>8 DEF Wr_unlock, Broadcast
<1>9. ASSUME Kill_locked_threads PROVE WaitersWant'
  BY <1>9, Zenon DEF Kill_locked_threads
<1>10. ASSUME UNCHANGED vars PROVE WaitersWant'
  BY <1>10, Zenon DEF vars
<1> QED
  BY <1>1, <1>2, <1>3, <1>4, <1>5, <1>6, <1>7, <1>8, <1>9, <1>10, Zenon DEF Next, Step

-----------------------------------------------------------------------------
(***************************************************************************)
(* The steps that are neither a grant nor a release, nor the beginning of  *)
(* a wait, change nothing of what is held or waited for.                   *)
(***************************************************************************)
Quiet(t) ==
    \/ Call(t) \/ SkipLock(t) \/ Locked(t) \/ TryFails(t) \/ CondWait(t)
    \/ SpuriousWakeup(t) \/ ExitWhenKilled(t) \/ Unlock(t) \/ Unlocked(t)
    \/ Wr_unlock(t) /\ Wanted(t) = "NO_LOCK"

\* They change nothing of what is held ...
LEMMA QuietHolds ==
    ASSUME TypeOK, WaitersWant, NEW t \in Thread, Quiet(t)
    PROVE  SameHoldings
<1> USE DEF TypeOK, SameHoldings, Holding, Wanted, Goto, counters, call
<1>1. CASE Call(t)
  BY <1>1, Order DEF Call
<1>2. CASE SkipLock(t)
  BY <1>2, Order DEF SkipLock
<1>3. CASE Locked(t)
  BY <1>3, Order DEF Locked
<1>4. CASE TryFails(t)
  BY <1>4, Order DEF TryFails, AtTest
<1>5. CASE CondWait(t) \/ SpuriousWakeup(t) \/ ExitWhenKilled(t)
  BY <1>5 DEF CondWait, SpuriousWakeup, ExitWhenKilled
<1>6. CASE Unlock(t)
  BY <1>6, Order DEF Unlock
<1>7. CASE Unlocked(t)
  BY <1>7, Order DEF Unlocked
<1>8. CASE Wr_unlock(t) /\ Wanted(t) = "NO_LOCK"
  BY <1>8, Order, SMTT(30) DEF Wr_unlock
<1> QED
  BY <1>1, <1>2, <1>3, <1>4, <1>5, <1>6, <1>7, <1>8, Zenon DEF Quiet

\* ... and nothing of what is waited for.
LEMMA QuietWaits ==
    ASSUME TypeOK, WaitersWant, NEW t \in Thread, Quiet(t)
    PROVE  SameWaiters
<1> USE DEF TypeOK, SameWaiters, WaitersWant, Waited, WaitsToWrite, Wanted, Goto, counters, call
<1>1. CASE Call(t)
  BY <1>1, Zenon DEF Call
<1>2. CASE SkipLock(t) \/ Locked(t)
  BY <1>2 DEF SkipLock, Locked
<1>3. CASE TryFails(t)
  BY <1>3, Zenon DEF TryFails, AtTest
<1>4. CASE CondWait(t) \/ SpuriousWakeup(t) \/ ExitWhenKilled(t)
  BY <1>4 DEF CondWait, SpuriousWakeup, ExitWhenKilled
<1>5. CASE Unlock(t) \/ Unlocked(t)
  BY <1>5 DEF Unlock, Unlocked
<1>6. CASE Wr_unlock(t) /\ Wanted(t) = "NO_LOCK"
  BY <1>6, Zenon DEF Wr_unlock
<1> QED
  BY <1>1, <1>2, <1>3, <1>4, <1>5, <1>6, Zenon DEF Quiet

(***************************************************************************)
(* A read lock granted: t holds its entity for reading, which it did not.  *)
(***************************************************************************)
LEMMA RdGrantEffect ==
    ASSUME TypeOK, WaitersWant, NEW t \in Thread, RdGrant(t)
    PROVE  /\ at[t] \in Entity
           /\ Holding(t, at[t]) = "NO_LOCK"
           /\ Holds(t, at[t], "READ_LOCK")
           /\ SameWaiters
<1> USE DEF TypeOK, Wanted, Goto, counters, call
<1>1. at[t] \in Entity /\ Holding(t, at[t]) = "NO_LOCK"
  BY Order DEF RdGrant, AtTest, Holding
<1>2. Holds(t, at[t], "READ_LOCK")
  BY Order DEF RdGrant, AtTest, Holding, Holds
<1>3. SameWaiters
  BY Zenon DEF RdGrant, AtTest, WaitsToWrite, SameWaiters
<1> QED
  BY <1>1, <1>2, <1>3, Zenon

(***************************************************************************)
(* A write lock granted: t holds its entity for writing, and does not wait *)
(* for it any more.                                                        *)
(***************************************************************************)
LEMMA WrGrantEffect ==
    ASSUME TypeOK, WaitersWant, NEW t \in Thread, WrGrant(t)
    PROVE  /\ at[t] \in Entity
           /\ Holding(t, at[t]) = "NO_LOCK"
           /\ Holds(t, at[t], "WRITE_LOCK")
           /\ WaitsToWrite(t, at[t]) <=> pc[t] = "woken"
           /\ Waits(t, at[t], FALSE)
<1> USE DEF TypeOK, Wanted, Goto, counters, call
<1>1. at[t] \in Entity /\ Holding(t, at[t]) = "NO_LOCK"
  BY Order DEF WrGrant, AtTest, Holding
<1>2. Holds(t, at[t], "WRITE_LOCK")
  BY Order DEF WrGrant, AtTest, Holding, Holds
<1>3. /\ WaitsToWrite(t, at[t]) <=> pc[t] = "woken"
      /\ Waits(t, at[t], FALSE)
  BY Zenon DEF WrGrant, AtTest, WaitsToWrite, Waits
<1> QED
  BY <1>1, <1>2, <1>3, Zenon

(***************************************************************************)
(* The beginning of a wait: nobody's holdings change, and a writer that    *)
(* comes for the first time is now among the waiting writers.              *)
(***************************************************************************)
LEMMA MustWaitEffect ==
    ASSUME TypeOK, WaitersWant, NEW t \in Thread, MustWait(t)
    PROVE  /\ at[t] \in Entity
           /\ SameHoldings
           /\ WaitsToWrite(t, at[t]) <=> Wanted(t) = "WRITE_LOCK" /\ pc[t] = "woken"
           /\ Waits(t, at[t], Wanted(t) = "WRITE_LOCK")
<1> USE DEF TypeOK, Wanted, Goto, counters, call
<1>1. at[t] \in Entity /\ SameHoldings
  BY Zenon DEF MustWait, AtTest, Holding, SameHoldings
<1>2. /\ WaitsToWrite(t, at[t]) <=> Wanted(t) = "WRITE_LOCK" /\ pc[t] = "woken"
      /\ Waits(t, at[t], Wanted(t) = "WRITE_LOCK")
  BY Zenon DEF MustWait, AtTest, WaitsToWrite, Waits
<1> QED
  BY <1>1, <1>2, Zenon

(***************************************************************************)
(* A release: t held its entity at the level it asked for, and no longer   *)
(* does; waking the waiters changes neither holdings nor waiting writers.  *)
(***************************************************************************)
LEMMA ReleaseEffect ==
    ASSUME TypeOK, WaitersWant, NEW t \in Thread, Wr_unlock(t), Wanted(t) # "NO_LOCK"
    PROVE  /\ at[t] \in Entity
           /\ Holding(t, at[t]) = Wanted(t)
           /\ Holds(t, at[t], "NO_LOCK")
           /\ SameWaiters
<1> USE DEF TypeOK, Wanted, Broadcast, counters, call
<1>1. at[t] \in Entity /\ Holding(t, at[t]) = Wanted(t)
  BY Order, Zenon DEF Wr_unlock, Holding
<1>2. Holds(t, at[t], "NO_LOCK")
  BY Order DEF Wr_unlock, Holding, Holds
<1>3. SameWaiters
  BY DEF Wr_unlock, WaitsToWrite, SameWaiters
<1> QED
  BY <1>1, <1>2, <1>3, Zenon

(***************************************************************************)
(* kill_locked_threads wakes the waiters and changes nothing else of this. *)
(***************************************************************************)
LEMMA KillEffect ==
    ASSUME TypeOK, Kill_locked_threads
    PROVE  SameHoldings /\ SameWaiters
  BY Zenon DEF TypeOK, Kill_locked_threads, Holding, SameHoldings, WaitsToWrite, SameWaiters,
         counters, call

-----------------------------------------------------------------------------
(***************************************************************************)
(* Every step keeps the counters exact: a grant counts the holder it adds, *)
(* a release uncounts the one it removes, and a writer is counted as       *)
(* waiting from its first wait to its grant.                               *)
(***************************************************************************)
LEMMA CountersStep ==
    ASSUME IInv, [Next]_vars
    PROVE  CountersAreExact'
<1> USE DEF IInv
<1>1. ASSUME SameHoldings, SameWaiters, UNCHANGED counters
      PROVE  CountersAreExact'
  BY <1>1, HoldersSame, WaitersSame, Zenon DEF CountersAreExact, counters, Level
<1>2. ASSUME NEW t \in Thread, Quiet(t) PROVE CountersAreExact'
  <2>1. UNCHANGED counters
    BY <1>2, Zenon DEF Quiet, Call, SkipLock, Locked, TryFails, CondWait, SpuriousWakeup,
                ExitWhenKilled, Unlock, Unlocked, Wr_unlock
  <2> QED
    BY <1>1, <1>2, <2>1, QuietHolds, QuietWaits, Zenon
<1>3. ASSUME NEW t \in Thread, RdGrant(t) PROVE CountersAreExact'
  <2>0. PICK x \in Entity : x = at[t]
    BY <1>3, RdGrantEffect, Zenon
  <2>1. /\ x \in Entity /\ Holding(t, x) = "NO_LOCK" /\ Holds(t, x, "READ_LOCK")
        /\ SameWaiters
    BY <1>3, <2>0, RdGrantEffect, Zenon
  <2>2. /\ read_lock' = [read_lock EXCEPT ![x] = @ + 1]
        /\ UNCHANGED <<write_lock, write_wait_lock>>
    BY <1>3, <2>0, Zenon DEF RdGrant
  <2>3. /\ t \notin Holders(x, "READ_LOCK")
        /\ Holders(x, "READ_LOCK")' = Holders(x, "READ_LOCK") \cup {t}
        /\ \A e \in Entity : /\ e # x => Holders(e, "READ_LOCK")' = Holders(e, "READ_LOCK")
                             /\ Holders(e, "WRITE_LOCK")' = Holders(e, "WRITE_LOCK")
    BY <2>1, HoldersGain, Zenon
  <2>4. Cardinality(Holders(x, "READ_LOCK") \cup {t}) = Cardinality(Holders(x, "READ_LOCK")) + 1
    BY <2>3, Count, Zenon DEF Holders
  <2> QED
    BY <2>1, <2>2, <2>3, <2>4, WaitersSame, Zenon DEF CountersAreExact, TypeOK
<1>4. ASSUME NEW t \in Thread, WrGrant(t) PROVE CountersAreExact'
  <2>0. PICK x \in Entity : x = at[t]
    BY <1>4, WrGrantEffect, Zenon
  <2>1. /\ x \in Entity /\ Holding(t, x) = "NO_LOCK" /\ Holds(t, x, "WRITE_LOCK")
        /\ WaitsToWrite(t, x) <=> pc[t] = "woken"
        /\ Waits(t, x, FALSE)
    BY <1>4, <2>0, WrGrantEffect, Zenon
  <2>2. /\ write_lock' = [write_lock EXCEPT ![x] = @ + 1]
        /\ write_wait_lock' = [write_wait_lock EXCEPT ![x] =
                                   IF pc[t] = "woken" THEN @ - 1 ELSE @]
        /\ UNCHANGED read_lock
    BY <1>4, <2>0, Zenon DEF WrGrant
  <2>3. /\ t \notin Holders(x, "WRITE_LOCK")
        /\ Holders(x, "WRITE_LOCK")' = Holders(x, "WRITE_LOCK") \cup {t}
        /\ \A e \in Entity : /\ e # x => Holders(e, "WRITE_LOCK")' = Holders(e, "WRITE_LOCK")
                             /\ Holders(e, "READ_LOCK")' = Holders(e, "READ_LOCK")
    BY <2>1, HoldersGain, Zenon
  <2>4. Cardinality(Holders(x, "WRITE_LOCK") \cup {t}) = Cardinality(Holders(x, "WRITE_LOCK")) + 1
    BY <2>3, Count, Zenon DEF Holders
  <2>5. /\ \A e \in Entity : e # x => WaitingWriters(e)' = WaitingWriters(e)
        /\ WaitingWriters(x)' = WaitingWriters(x) \ {t}
    BY <2>1, Zenon DEF Waits, WaitingWriters
  <2>6. Cardinality(WaitingWriters(x) \ {t}) =
            Cardinality(WaitingWriters(x)) - (IF pc[t] = "woken" THEN 1 ELSE 0)
    <3>1. CASE pc[t] = "woken"
      <4>1. t \in WaitingWriters(x)
        BY <2>1, <3>1, Zenon DEF WaitingWriters
      <4> QED
        BY <3>1, <4>1, Count, Zenon DEF WaitingWriters
    <3>2. CASE pc[t] # "woken"
      <4>1. WaitingWriters(x) \ {t} = WaitingWriters(x)
        BY <2>1, <3>2, Zenon DEF WaitingWriters
      <4>2. Cardinality(WaitingWriters(x)) \in Nat
        BY Count, Zenon DEF WaitingWriters
      <4> QED
        BY <3>2, <4>1, <4>2
    <3> QED
      BY <3>1, <3>2, Zenon
  <2>7. \A e \in Entity : write_wait_lock'[e] = Cardinality(WaitingWriters(e)')
    <3> TAKE e \in Entity
    <3>1. CASE e # x
      BY <2>2, <2>5, <3>1, Zenon DEF CountersAreExact, TypeOK
    <3>2. CASE e = x
      <4>1. write_wait_lock'[x] = write_wait_lock[x] - (IF pc[t] = "woken" THEN 1 ELSE 0)
        BY <2>2 DEF TypeOK
      <4> QED
        BY <2>5, <2>6, <3>2, <4>1, Zenon DEF CountersAreExact
    <3> QED
      BY <3>1, <3>2, Zenon
  <2> QED
    BY <2>1, <2>2, <2>3, <2>4, <2>7, Zenon DEF CountersAreExact, TypeOK
<1>5. ASSUME NEW t \in Thread, MustWait(t) PROVE CountersAreExact'
  <2>0. PICK x \in Entity, first \in BOOLEAN :
            x = at[t] /\ first = (Wanted(t) = "WRITE_LOCK" /\ pc[t] = "lock")
    BY <1>5, MustWaitEffect, Zenon
  <2>1. /\ x \in Entity /\ SameHoldings
        /\ WaitsToWrite(t, x) <=> Wanted(t) = "WRITE_LOCK" /\ pc[t] = "woken"
        /\ Waits(t, x, Wanted(t) = "WRITE_LOCK")
    BY <1>5, <2>0, MustWaitEffect, Zenon
  <2>2. /\ write_wait_lock' = [write_wait_lock EXCEPT ![x] = IF first THEN @ + 1 ELSE @]
        /\ UNCHANGED <<read_lock, write_lock>>
        /\ pc[t] \in {"lock", "woken"}
    BY <1>5, <2>0, Zenon DEF MustWait, AtTest
  <2>3. \A e \in Entity : e # x => WaitingWriters(e)' = WaitingWriters(e)
    BY <2>1, Zenon DEF Waits, WaitingWriters
  <2>4. CASE first
    <3>1. t \notin WaitingWriters(x) /\ WaitingWriters(x)' = WaitingWriters(x) \cup {t}
      BY <2>0, <2>1, <2>4, Zenon DEF Waits, WaitingWriters
    <3>2. Cardinality(WaitingWriters(x) \cup {t}) = Cardinality(WaitingWriters(x)) + 1
      BY <3>1, Count, Zenon DEF WaitingWriters
    <3>3. \A e \in Entity : write_wait_lock'[e] = Cardinality(WaitingWriters(e)')
      <4>1. write_wait_lock' = [write_wait_lock EXCEPT ![x] = @ + 1]
        BY <2>2, <2>4, Zenon
      <4> QED
        BY <2>3, <3>1, <3>2, <4>1, Zenon DEF CountersAreExact, TypeOK
    <3> QED
      BY <2>1, <2>2, <3>3, HoldersSame, Zenon DEF CountersAreExact, Level
  <2>5. CASE ~first
    <3>1. WaitingWriters(x)' = WaitingWriters(x)
      BY <2>0, <2>1, <2>2, <2>5, Zenon DEF Waits, WaitingWriters
    <3>2. \A e \in Entity : write_wait_lock'[e] = Cardinality(WaitingWriters(e)')
      <4>1. write_wait_lock' = write_wait_lock
        BY <2>2, <2>5, Zenon DEF TypeOK
      <4> QED
        BY <2>3, <3>1, <4>1, Zenon DEF CountersAreExact
    <3> QED
      BY <2>1, <2>2, <3>2, HoldersSame, Zenon DEF CountersAreExact, Level
  <2> QED
    BY <2>4, <2>5, Zenon
<1>6. ASSUME NEW t \in Thread, Wr_unlock(t), Wanted(t) # "NO_LOCK" PROVE CountersAreExact'
  <2>0. PICK x \in Entity, old \in {"READ_LOCK", "WRITE_LOCK"} : x = at[t] /\ old = Wanted(t)
    BY <1>6, Zenon DEF Wr_unlock
  <2>1. /\ x \in Entity /\ Holding(t, x) = old /\ Holds(t, x, "NO_LOCK")
        /\ SameWaiters
    BY <1>6, <2>0, ReleaseEffect, Zenon
  <2>2. /\ old = "READ_LOCK" => /\ read_lock' = [read_lock EXCEPT ![x] = @ - 1]
                                /\ UNCHANGED write_lock
        /\ old = "WRITE_LOCK" => /\ write_lock' = [write_lock EXCEPT ![x] = @ - 1]
                                 /\ UNCHANGED read_lock
        /\ UNCHANGED write_wait_lock
    BY <1>6, <2>0, Zenon DEF Wr_unlock, counters
  <2>3. /\ t \in Holders(x, old)
        /\ Holders(x, old)' = Holders(x, old) \ {t}
        /\ \A e \in Entity : \A level \in {"READ_LOCK", "WRITE_LOCK"} :
               e # x \/ level # old => Holders(e, level)' = Holders(e, level)
    BY <2>1, HoldersLose, Zenon
  <2>4. Cardinality(Holders(x, old) \ {t}) = Cardinality(Holders(x, old)) - 1
    BY <2>3, Count, Zenon DEF Holders
  <2>5. CASE old = "READ_LOCK"
    <3>1. /\ read_lock' = [read_lock EXCEPT ![x] = @ - 1]
          /\ UNCHANGED <<write_lock, write_wait_lock>>
      BY <2>2, <2>5, Zenon
    <3>2. \A e \in Entity : /\ e # x => Holders(e, "READ_LOCK")' = Holders(e, "READ_LOCK")
                           /\ Holders(e, "WRITE_LOCK")' = Holders(e, "WRITE_LOCK")
                           /\ WaitingWriters(e)' = WaitingWriters(e)
      BY <2>1, <2>3, <2>5, WaitersSame, Zenon
    <3> QED
      BY <2>3, <2>4, <2>5, <3>1, <3>2, Zenon DEF CountersAreExact, TypeOK
  <2>6. CASE old = "WRITE_LOCK"
    <3>1. /\ write_lock' = [write_lock EXCEPT ![x] = @ - 1]
          /\ UNCHANGED <<read_lock, write_wait_lock>>
      BY <2>2, <2>6, Zenon
    <3>2. \A e \in Entity : /\ e # x => Holders(e, "WRITE_LOCK")' = Holders(e, "WRITE_LOCK")
                           /\ Holders(e, "READ_LOCK")' = Holders(e, "READ_LOCK")
                           /\ WaitingWriters(e)' = WaitingWriters(e)
      BY <2>1, <2>3, <2>6, WaitersSame, Zenon
    <3> QED
      BY <2>3, <2>4, <2>6, <3>1, <3>2, Zenon DEF CountersAreExact, TypeOK
  <2> QED
    BY <2>0, <2>5, <2>6, Zenon
<1>7. ASSUME Kill_locked_threads PROVE CountersAreExact'
  BY <1>1, <1>7, KillEffect, Zenon DEF Kill_locked_threads
<1>8. ASSUME UNCHANGED vars PROVE CountersAreExact'
  <2>1. SameHoldings /\ SameWaiters
    BY <1>8, Zenon DEF vars, SameHoldings, Holding, SameWaiters, WaitsToWrite
  <2> QED
    BY <1>1, <1>8, <2>1, Zenon DEF vars, counters
<1> QED
  BY <1>2, <1>3, <1>4, <1>5, <1>6, <1>7, <1>8, Zenon DEF Next, Step, Quiet

(***************************************************************************)
(* Initially nobody holds or waits, and all counters are 0 (init_locks).   *)
(***************************************************************************)
LEMMA InitIInv == Init => IInv
<1> SUFFICES ASSUME Init PROVE IInv
  BY Zenon
<1>1. TypeOK
  <2>1. 0 \in Place
    BY CtldLocksAssumption DEF Place
  <2>2. \A t \in Thread : lock_levels[t] \in [Entity -> Level]
    BY Zenon DEF Init, Level
  <2>3. lock_levels \in [Thread -> [Entity -> Level]]
    BY <2>2, Zenon DEF Init
  <2>4. pc \in [Thread -> {"idle", "lock", "to_wait", "waiting", "woken",
                           "exited", "held", "unlock"}]
    BY Zenon DEF Init
  <2>5. /\ read_lock \in [Entity -> Int] /\ write_lock \in [Entity -> Int]
        /\ write_wait_lock \in [Entity -> Int] /\ wait_lock \in [Thread -> BOOLEAN]
        /\ at \in [Thread -> Place]
    BY <2>1 DEF Init
  <2> QED
    BY <2>3, <2>4, <2>5, Zenon DEF Init, TypeOK
<1>2. WaitersWant
  BY Zenon DEF Init, WaitersWant, Waited
<1>3. \A e \in Entity : /\ Holders(e, "READ_LOCK") = {}
                       /\ Holders(e, "WRITE_LOCK") = {}
                       /\ WaitingWriters(e) = {}
  BY Zenon DEF Init, Holders, Holding, WaitingWriters, WaitsToWrite
<1>4. CountersAreExact
  BY <1>3, FS_EmptySet, Zenon DEF Init, CountersAreExact
<1> QED
  BY <1>1, <1>2, <1>4, Zenon DEF IInv

(***************************************************************************)
(* The invariant holds in every reachable state.                           *)
(***************************************************************************)
LEMMA Invariance == Spec => []IInv
<1>1. IInv /\ [Next]_vars => IInv'
  BY TypeStep, WaitersWantStep, CountersStep, Zenon DEF IInv
<1> QED
  BY <1>1, InitIInv, PTL DEF Spec

(***************************************************************************)
(* For any threads, entities and requests, the counters of slurmctld's     *)
(* locks are always exactly the readers, the writers and the waiting       *)
(* writers (_wr_rdlock, _wr_wrlock, _wr_rdunlock, _wr_wrunlock).           *)
(***************************************************************************)
THEOREM CountersExact == Spec => []CountersAreExact
<1>1. IInv => CountersAreExact
  BY Zenon DEF IInv
<1> QED
  BY <1>1, Invariance, PTL

-----------------------------------------------------------------------------
(***************************************************************************)
(* A free entity, by its counters, is one that no conflicting thread       *)
(* holds: what makes a grant of the code one of RWLocks.                   *)
(***************************************************************************)
LEMMA FreeMeansCompatible ==
    ASSUME IInv, NEW e \in Entity
    PROVE  /\ write_lock[e] = 0 => \A u \in Thread : Holding(u, e) # "WRITE_LOCK"
           /\ read_lock[e] = 0 => \A u \in Thread : Holding(u, e) # "READ_LOCK"
<1>1. /\ write_lock[e] = 0 => Holders(e, "WRITE_LOCK") = {}
      /\ read_lock[e] = 0 => Holders(e, "READ_LOCK") = {}
  BY Count, Zenon DEF IInv, CountersAreExact, Holders
<1> QED
  BY <1>1, Zenon DEF Holders

(***************************************************************************)
(* lock_slurmctld, try_lock_slurmctld, unlock_slurmctld and                *)
(* kill_locked_threads implement readers-and-writers locks.                *)
(***************************************************************************)
THEOREM ImplementsRWLocks == Spec => RWLocksImplemented
<1> DEFINE view == [e \in Entity |-> [t \in Thread |-> Holding(t, e)]]
<1>1. Init => RW!RWInit
  BY Zenon DEF Init, RW!RWInit, Holding
<1>2. ASSUME IInv, [Next]_vars PROVE [RW!RWNext]_view
  <2> USE <1>2
  <2>1. ASSUME SameHoldings PROVE UNCHANGED view
    BY <2>1, Zenon DEF SameHoldings
  <2>2. ASSUME NEW t \in Thread, NEW x \in Entity, NEW level \in Level,
               Holds(t, x, level)
        PROVE  view' = [view EXCEPT ![x][t] = level]
    BY <2>2, Zenon DEF Holds
  <2>3. \A t \in Thread, e \in Entity : Holding(t, e) \in Level
    BY Zenon DEF IInv, TypeOK, Holding, Level
  <2>4. ASSUME NEW t \in Thread, RdGrant(t) PROVE RW!RWNext
    <3>1. PICK x \in Entity : x = at[t]
      BY <2>4, RdGrantEffect, Zenon DEF IInv
    <3>2. Holding(t, x) = "NO_LOCK" /\ Holds(t, x, "READ_LOCK")
      BY <2>4, <3>1, RdGrantEffect, Zenon DEF IInv
    <3>3. \A u \in Thread : Holding(u, x) # "WRITE_LOCK"
      BY <2>4, <3>1, FreeMeansCompatible, Zenon DEF RdGrant, RdFree
    <3>4. view' = [view EXCEPT ![x][t] = "READ_LOCK"]
      BY <2>2, <3>2, Zenon DEF Level
    <3>5. RW!Grant(t, x, "READ_LOCK")
      BY <2>3, <3>2, <3>3, <3>4, Zenon DEF RW!Grant, RW!Compatible, Level
    <3> QED
      BY <3>5, Zenon DEF RW!RWNext
  <2>5. ASSUME NEW t \in Thread, WrGrant(t) PROVE RW!RWNext
    <3>1. PICK x \in Entity : x = at[t]
      BY <2>5, WrGrantEffect, Zenon DEF IInv
    <3>2. Holding(t, x) = "NO_LOCK" /\ Holds(t, x, "WRITE_LOCK")
      BY <2>5, <3>1, WrGrantEffect, Zenon DEF IInv
    <3>3. \A u \in Thread : Holding(u, x) \notin {"READ_LOCK", "WRITE_LOCK"}
      BY <2>5, <3>1, FreeMeansCompatible, Zenon DEF WrGrant, WrFree
    <3>4. view' = [view EXCEPT ![x][t] = "WRITE_LOCK"]
      BY <2>2, <3>2, Zenon DEF Level
    <3>5. RW!Grant(t, x, "WRITE_LOCK")
      BY <2>3, <3>2, <3>3, <3>4, Zenon DEF RW!Grant, RW!Compatible, Level
    <3> QED
      BY <3>5, Zenon DEF RW!RWNext
  <2>6. ASSUME NEW t \in Thread, Wr_unlock(t), Wanted(t) # "NO_LOCK" PROVE RW!RWNext
    <3>1. PICK x \in Entity : x = at[t]
      BY <2>6, ReleaseEffect, Zenon DEF IInv
    <3>2. Holding(t, x) # "NO_LOCK" /\ Holds(t, x, "NO_LOCK")
      BY <2>6, <3>1, ReleaseEffect, Zenon DEF IInv
    <3>3. view' = [view EXCEPT ![x][t] = "NO_LOCK"]
      BY <2>2, <3>2, Zenon DEF Level
    <3>4. RW!Release(t, x)
      BY <3>2, <3>3, Zenon DEF RW!Release
    <3> QED
      BY <3>4, Zenon DEF RW!RWNext
  <2>7. ASSUME NEW t \in Thread, Quiet(t) \/ MustWait(t) PROVE UNCHANGED view
    BY <2>1, <2>7, QuietHolds, MustWaitEffect, Zenon DEF IInv
  <2>8. ASSUME Kill_locked_threads PROVE UNCHANGED view
    BY <2>1, <2>8, KillEffect, Zenon DEF IInv
  <2>9. ASSUME UNCHANGED vars PROVE UNCHANGED view
    BY <2>9, Zenon DEF vars, Holding
  <2> HIDE DEF view
  <2> QED
    BY <2>4, <2>5, <2>6, <2>7, <2>8, <2>9, Zenon DEF Next, Step, Quiet
<1> QED
  BY <1>1, <1>2, Invariance, PTL DEF Spec, RWLocksImplemented, RW!RWSpec

(***************************************************************************)
(* So a thread of slurmctld that holds a data structure for writing is     *)
(* alone with it.                                                          *)
(***************************************************************************)
THEOREM WriterIsAlone == Spec => []RW!Exclusive
<1> DEFINE view == [e \in Entity |-> [t \in Thread |-> Holding(t, e)]]
<1>1. RW!RWInit => RW!Exclusive
  BY Zenon DEF RW!RWInit, RW!Exclusive
<1>2. ASSUME RW!Exclusive, [RW!RWNext]_view PROVE RW!Exclusive'
  <2>1. ASSUME NEW t \in Thread, NEW x \in Entity, NEW level \in Level,
               view' = [view EXCEPT ![x][t] = level]
        PROVE  Holds(t, x, level)
    <3>1. \A u \in Thread, e \in Entity : Holding(u, e) = view[e][u] /\ Holding(u, e)' = view'[e][u]
      BY Zenon
    <3>2. \A u \in Thread, e \in Entity :
              view'[e][u] = IF u = t /\ e = x THEN level ELSE view[e][u]
      <4>1. \A e \in Entity : view'[e] = IF e = x THEN [view[x] EXCEPT ![t] = level] ELSE view[e]
        <5>1. DOMAIN view = Entity
          BY Zenon
        <5> HIDE DEF view
        <5> QED
          BY <2>1, <5>1, Zenon
      <4>2. \A e \in Entity : DOMAIN view[e] = Thread
        BY Zenon
      <4> HIDE DEF view
      <4> QED
        BY <4>1, <4>2, Zenon
    <3> QED
      BY <3>1, <3>2, Zenon DEF Holds
  <2>2. ASSUME NEW t \in Thread, NEW x \in Entity, NEW level \in {"READ_LOCK", "WRITE_LOCK"},
               RW!Grant(t, x, level)
        PROVE  RW!Exclusive'
    <3>1. Holds(t, x, level)
      <4>1. view' = [view EXCEPT ![x][t] = level] /\ level \in Level
        BY <2>2, Zenon DEF RW!Grant, Level
      <4> QED
        BY <2>1, <4>1, Zenon
    <3>2. \A u \in Thread \ {t} : /\ Holding(u, x) # "WRITE_LOCK"
                                  /\ level = "WRITE_LOCK" => Holding(u, x) = "NO_LOCK"
      BY <2>2, Zenon DEF RW!Grant, RW!Compatible
    <3> QED
      BY <1>2, <3>1, <3>2 DEF RW!Exclusive, Holds
  <2>3. ASSUME NEW t \in Thread, NEW x \in Entity, RW!Release(t, x)
        PROVE  RW!Exclusive'
    <3>1. Holds(t, x, "NO_LOCK")
      BY <2>1, <2>3, Zenon DEF RW!Release, Level
    <3> QED
      BY <1>2, <3>1 DEF RW!Exclusive, Holds
  <2>4. ASSUME UNCHANGED view PROVE RW!Exclusive'
    <3>1. SameHoldings
      BY <2>4, Zenon DEF SameHoldings
    <3> QED
      BY <1>2, <3>1 DEF RW!Exclusive, SameHoldings
  <2> QED
    BY <1>2, <2>2, <2>3, <2>4, Zenon DEF RW!RWNext
<1> QED
  BY <1>1, <1>2, ImplementsRWLocks, PTL DEF RWLocksImplemented, RW!RWSpec

-----------------------------------------------------------------------------
(***************************************************************************)
(* One agent.                                                              *)
(***************************************************************************)
Live == {g \in Group : thread[g] \in {"start", "rpc", "finish"}}

\* What the variables hold.
TypeInv ==
    /\ agent \in {"create", "wait_room", "join", "wait_threads", "cleanup", "ended"}
    /\ i \in 1 .. thread_count + 1
    /\ state \in [Group -> Final \cup {"DSH_NEW", "DSH_ACTIVE"}]
    /\ thread \in [Group -> {"none", "start", "rpc", "finish", "ended"}]
    /\ threads_active \in Nat
    /\ mutex \in BOOLEAN
    /\ wdog \in {"poll", "notify", "ended"}
    /\ result \in [Group -> Final \cup {"none"}]

\* What the state of a group says of its thread: it is final only when the
\* thread has left its result and will use nothing of the agent any more.
StateFollowsThread(g) ==
    /\ state[g] \in Final <=> thread[g] = "ended"
    /\ thread[g] = "finish" => result[g] \in Final
    /\ thread[g] = "ended" => state[g] = result[g]

\* threads_active counts the threads that are not at their end.
Counted == threads_active = Cardinality(Live) /\ threads_active <= AGENT_THREAD_COUNT

\* Once the watchdog has seen all work done, all threads are at their end.
WdogInv ==
    /\ wdog # "poll" => \A g \in Group : thread[g] = "ended"
    /\ wdog = "ended" =>
           notified = state /\ (retry => requeued = {g \in Group : state[g] = "DSH_NO_RESP"})
    /\ agent \in {"wait_threads", "cleanup", "ended"} => wdog = "ended"

\* Threads are created in the order of the groups.
Created == agent \in {"create", "wait_room"} => \A g \in Group : g >= i => thread[g] = "none"

AgentIInv ==
    /\ TypeInv /\ (\A g \in Group : StateFollowsThread(g)) /\ Counted /\ WdogInv /\ Created

-----------------------------------------------------------------------------
(***************************************************************************)
(* The groups are finitely many, and so are the threads.                   *)
(***************************************************************************)
LEMMA LiveFinite == IsFiniteSet(Live)
<1>1. IsFiniteSet(Group)
  <2>1. thread_count \in Int
    BY AgentAssumption
  <2> QED BY <2>1, FS_Interval DEF Group
<1>2. Live \subseteq Group
  BY Zenon DEF Live
<1> QED BY <1>1, <1>2, FS_Subset, Zenon

(***************************************************************************)
(* A thread that is created is one more, when it was not there before.     *)
(***************************************************************************)
LEMMA LiveGrows ==
    ASSUME NEW g \in Group, TypeInv, thread[g] = "none", thread' = [thread EXCEPT ![g] = "start"]
    PROVE  Cardinality(Live') = Cardinality(Live) + 1
<1>1. Live' = Live \cup {g} /\ g \notin Live
  BY Zenon DEF TypeInv, Live
<1> QED BY <1>1, LiveFinite, FS_AddElement, Zenon

(***************************************************************************)
(* A thread that ends is one less.                                         *)
(***************************************************************************)
LEMMA LiveShrinks ==
    ASSUME NEW g \in Group, TypeInv, thread[g] = "finish", thread' = [thread EXCEPT ![g] = "ended"]
    PROVE  Cardinality(Live') = Cardinality(Live) - 1
<1>1. Live' = Live \ {g} /\ g \in Live
  BY Zenon DEF TypeInv, Live
<1> QED BY <1>1, LiveFinite, FS_RemoveElement, Zenon

(***************************************************************************)
(* A thread that goes on from one place to the next stays one of them.     *)
(***************************************************************************)
LEMMA LiveStays ==
    ASSUME NEW g \in Group, TypeInv, thread[g] \in {"start", "rpc"},
           NEW p \in {"rpc", "finish"}, thread' = [thread EXCEPT ![g] = p]
    PROVE  Live' = Live
BY Zenon DEF TypeInv, Live

(***************************************************************************)
(* The invariant holds at the start of the agent.                          *)
(***************************************************************************)
LEMMA AgentInitIInv == AgentInit => AgentIInv
<1> SUFFICES ASSUME AgentInit PROVE AgentIInv
  BY Zenon
<1>1. TypeInv
  <2>1. i \in 1 .. thread_count + 1
    BY AgentAssumption DEF AgentInit
  <2>2. threads_active \in Nat /\ mutex \in BOOLEAN
    BY Zenon DEF AgentInit
  <2> QED BY <2>1, <2>2, Zenon DEF AgentInit, TypeInv
<1>2. \A g \in Group : StateFollowsThread(g)
  BY Zenon DEF AgentInit, StateFollowsThread, Final
<1>3. Counted
  <2>1. Live = {}
    BY Zenon DEF AgentInit, Live
  <2>2. Cardinality(Live) = 0
    BY <2>1, FS_EmptySet, Zenon
  <2> QED BY <2>2, AgentAssumption DEF AgentInit, Counted
<1>4. WdogInv /\ Created
  BY Zenon DEF AgentInit, WdogInv, Created
<1> QED BY <1>1, <1>2, <1>3, <1>4, Zenon DEF AgentIInv

(***************************************************************************)
(* Every step of the agent, of a thread and of the watchdog keeps it.      *)
(***************************************************************************)
LEMMA NextIInv == AgentIInv /\ [AgentNext]_agentVars => AgentIInv'
<1> SUFFICES ASSUME AgentIInv, [AgentNext]_agentVars PROVE AgentIInv'
  BY Zenon
<1> USE DEF AgentIInv
<1>0. ASSUME UNCHANGED <<thread, state, result, threads_active, i, mutex>>,
             agent' \in {"create", "wait_room", "join", "wait_threads", "cleanup", "ended"},
             wdog' \in {"poll", "notify", "ended"}, WdogInv', Created'
      PROVE  AgentIInv'
  <2>1. TypeInv'
    BY <1>0, Zenon DEF TypeInv
  <2>2. \A g \in Group : StateFollowsThread(g)'
    BY <1>0, Zenon DEF StateFollowsThread
  <2>3. Counted'
    BY <1>0, Zenon DEF Counted, Live
  <2> QED BY <1>0, <2>1, <2>2, <2>3, Zenon
<1>1. CASE WaitRoom \/ CreateFails
  <2>1. WdogInv' /\ Created'
    BY <1>1, Zenon DEF WaitRoom, CreateFails, WdogInv, Created
  <2> QED BY <1>0, <1>1, <2>1, Zenon DEF WaitRoom, CreateFails, TypeInv
<1>2. CASE AllCreated
  <2>1. WdogInv' /\ Created'
    BY <1>2, Zenon DEF AllCreated, WdogInv, Created
  <2> QED BY <1>0, <1>2, <2>1, Zenon DEF AllCreated, TypeInv
<1>3. CASE Join
  <2>1. WdogInv' /\ Created'
    BY <1>3, Zenon DEF Join, WdogInv, Created
  <2> QED BY <1>0, <1>3, <2>1, Zenon DEF Join, TypeInv
<1>4. CASE Cleanup
  <2>1. WdogInv' /\ Created'
    BY <1>4, Zenon DEF Cleanup, WdogInv, Created
  <2> QED BY <1>0, <1>4, <2>1, Zenon DEF Cleanup, TypeInv
<1>5. CASE CreateThread
  <2>1. thread[i] = "none" /\ i \in Group
    BY <1>5, AgentAssumption, SMTT(30) DEF CreateThread, Created, TypeInv, Group
  <2>2. TypeInv'
    BY <1>5, <2>1, AgentAssumption, SMTT(30) DEF CreateThread, TypeInv, Group
  <2>3. \A g \in Group : StateFollowsThread(g)'
    BY <1>5, <2>1, Zenon DEF CreateThread, StateFollowsThread, TypeInv
  <2>4. Counted'
    <3>1. Cardinality(Live') = Cardinality(Live) + 1
      BY <1>5, <2>1, LiveGrows, Zenon DEF CreateThread
    <3> QED BY <1>5, <3>1, AgentAssumption, SMTT(30) DEF CreateThread, HasRoom, Counted, TypeInv
  <2>5. WdogInv'
    BY <1>5, <2>1, Zenon DEF CreateThread, WdogInv
  <2>6. Created'
    BY <1>5, <2>1, AgentAssumption, SMTT(30) DEF CreateThread, Created, TypeInv, Group
  <2> QED BY <2>2, <2>3, <2>4, <2>5, <2>6, Zenon
<1>6. ASSUME NEW g \in Group, Activate(g) \/ Rpc(g) \/ Interrupted(g)
      PROVE  AgentIInv'
  <2>1. thread[g] \in {"start", "rpc"} /\ wdog = "poll"
    BY <1>6, Zenon DEF Activate, Rpc, Interrupted, WdogInv, TypeInv
  <2>2. PICK p \in {"rpc", "finish"} : thread' = [thread EXCEPT ![g] = p]
    BY <1>6, Zenon DEF Activate, Rpc, Interrupted
  <2>3. TypeInv'
    BY <1>6 DEF Activate, Rpc, Interrupted, TypeInv, Final
  <2>4. \A h \in Group : StateFollowsThread(h)'
    <3> SUFFICES ASSUME NEW h \in Group PROVE StateFollowsThread(h)'
      BY Zenon
    <3>1. CASE h # g
      BY <1>6, <3>1, SMTT(30) DEF Activate, Rpc, Interrupted, StateFollowsThread, TypeInv
    <3>2. CASE h = g
      BY <1>6, <3>2, SMTT(30) DEF Activate, Rpc, Interrupted, StateFollowsThread, TypeInv, Final
    <3> QED BY <3>1, <3>2, Zenon
  <2>5. Counted'
    BY <1>6, <2>1, <2>2, LiveStays, Zenon DEF Activate, Rpc, Interrupted, Counted
  <2>6. WdogInv'
    BY <1>6, <2>1, Zenon DEF Activate, Rpc, Interrupted, WdogInv
  <2>7. Created'
    BY <1>6, <2>1, <2>2, Zenon DEF Activate, Rpc, Interrupted, Created, TypeInv
  <2> QED BY <2>3, <2>4, <2>5, <2>6, <2>7, Zenon
<1>7. ASSUME NEW g \in Group, Finish(g)
      PROVE  AgentIInv'
  <2>1. thread[g] = "finish" /\ wdog = "poll" /\ result[g] \in Final
    BY <1>7, Zenon DEF Finish, WdogInv, TypeInv, StateFollowsThread
  <2>2. Cardinality(Live') = Cardinality(Live) - 1
    BY <1>7, LiveShrinks, Zenon DEF Finish
  <2>3. Cardinality(Live) \in Nat /\ Cardinality(Live') \in Nat
    <3>1. Live' = Live \ {g}
      BY <1>7, Zenon DEF Finish, Live, TypeInv
    <3> QED BY <3>1, LiveFinite, FS_CardinalityType, FS_RemoveElement, Zenon
  <2>4. Counted' /\ threads_active' \in Nat
    BY <1>7, <2>2, <2>3, AgentAssumption, SMTT(30) DEF Finish, Counted, TypeInv
  <2>5. agent' = agent \/ (agent = "wait_room" /\ agent' = "create")
    BY <1>7, <2>1, Zenon DEF Finish, Woken, WdogInv, TypeInv
  <2>6. TypeInv'
    BY <1>7, <2>1, <2>4, <2>5, Zenon DEF Finish, TypeInv
  <2>7. \A h \in Group : StateFollowsThread(h)'
    BY <1>7, <2>1, Zenon DEF Finish, StateFollowsThread, TypeInv
  <2>8. WdogInv' /\ Created'
    BY <1>7, <2>1, <2>5, Zenon DEF Finish, WdogInv, Created, TypeInv
  <2> QED BY <2>4, <2>6, <2>7, <2>8, Zenon
<1>8. CASE Poll
  <2>1. WdogInv'
    BY <1>8, Zenon DEF Poll, WorkDone, WdogInv, StateFollowsThread
  <2>2. UNCHANGED <<thread, state, result, threads_active, i, agent>> /\ Created'
    BY <1>8, Zenon DEF Poll, Created
  <2>3. TypeInv'
    BY <1>8, Zenon DEF Poll, TypeInv
  <2>4. Counted' /\ \A g \in Group : StateFollowsThread(g)'
    BY <2>2, Zenon DEF Counted, Live, StateFollowsThread
  <2> QED BY <2>1, <2>2, <2>3, <2>4, Zenon
<1>9. CASE Notify
  <2>1. WdogInv'
    BY <1>9, Zenon DEF Notify, WdogInv
  <2>2. UNCHANGED <<thread, state, result, threads_active, i, agent>> /\ Created'
    BY <1>9, Zenon DEF Notify, Created
  <2>3. TypeInv'
    BY <1>9, Zenon DEF Notify, TypeInv
  <2>4. Counted' /\ \A g \in Group : StateFollowsThread(g)'
    BY <2>2, Zenon DEF Counted, Live, StateFollowsThread
  <2> QED BY <2>1, <2>2, <2>3, <2>4, Zenon
<1>10. CASE UNCHANGED agentVars
  <2>1. WdogInv' /\ Created'
    BY <1>10, Zenon DEF agentVars, WdogInv, Created
  <2> QED BY <1>0, <1>10, <2>1, Zenon DEF agentVars, TypeInv
<1> QED
  BY <1>1, <1>2, <1>3, <1>4, <1>5, <1>6, <1>7, <1>8, <1>9, <1>10, Zenon DEF AgentNext, AgentStep, ThreadStep

(***************************************************************************)
(* The invariant holds always.                                             *)
(***************************************************************************)
LEMMA AlwaysIInv == AgentSpec => []AgentIInv
BY AgentInitIInv, NextIInv, PTL DEF AgentSpec

(***************************************************************************)
(* For any number of groups the agent has at most AGENT_THREAD_COUNT       *)
(* threads at a time: threads_active, which its loop tests, counts them.   *)
(***************************************************************************)
THEOREM AgentThreadsBounded == AgentSpec => []ThreadsBounded
<1>1. AgentIInv => ThreadsBounded
  BY Zenon DEF AgentIInv, Counted, Live, ThreadsBounded
<1> QED BY <1>1, AlwaysIInv, PTL

(***************************************************************************)
(* What the watchdog takes down and queues for another try is what every   *)
(* thread found.                                                           *)
(***************************************************************************)
THEOREM AgentResultsComplete == AgentSpec => []ResultsAreComplete
<1>1. AgentIInv => ResultsAreComplete
  <2> SUFFICES ASSUME AgentIInv, wdog = "ended"
               PROVE  notified = result /\ (retry => requeued = {g \in Group : result[g] = "DSH_NO_RESP"})
    BY Zenon DEF ResultsAreComplete
  <2>1. \A g \in Group : state[g] = result[g]
    BY Zenon DEF AgentIInv, WdogInv, StateFollowsThread
  <2>2. state = result
    BY <2>1 DEF AgentIInv, TypeInv
  <2> QED BY <2>2, Zenon DEF AgentIInv, WdogInv
<1> QED BY <1>1, AlwaysIInv, PTL

(***************************************************************************)
(* When the agent frees its data the watchdog and all threads have ended.  *)
(***************************************************************************)
THEOREM AgentLeavesNoThread == AgentSpec => []NoThreadLeftBehind
<1>1. AgentIInv => NoThreadLeftBehind
  BY Zenon DEF AgentIInv, WdogInv, NoThreadLeftBehind
<1> QED BY <1>1, AlwaysIInv, PTL

-----------------------------------------------------------------------------
(***************************************************************************)
(* All agents.                                                             *)
(***************************************************************************)

\* The records of the list.
Rec ==
    [pos : Nat, req : Req, nodes : SUBSET Node, try : Nat \ {0}, fresh : BOOLEAN, age : Nat]

AgentRec ==
    [req : Req, nodes : SUBSET Node, try : Nat \ {0}, at : {"start", "wait", "run", "cleanup"}]

QueueTypeInv ==
    /\ retry_list \subseteq Rec
    /\ \E last \in Nat : \A e \in retry_list : e.pos <= last
    /\ agents \subseteq AgentRec
    /\ IsFiniteSet(Active)
    /\ agent_cnt \in Nat
    /\ caller \in [Req -> {"no", "queued", "done"}]
    /\ gone \subseteq Req /\ shutdown \in BOOLEAN
    /\ owed \in [Req -> SUBSET Node]

\* A request is held by one record or one agent.  The agents that have sent it
\* before are at their cleanup, and had fewer tries.
OneRecord(s) == \A e, f \in s : e.req = f.req => e = f

OneHolder ==
    /\ OneRecord(retry_list)
    /\ \A e \in retry_list, a \in agents :
           e.req = a.req => a.at = "cleanup" /\ a.try < e.try
    /\ \A a, b \in agents : a.req = b.req /\ a # b =>
           /\ a.try # b.try
           /\ a.at # "cleanup" => b.at = "cleanup" /\ b.try < a.try
    /\ \A q \in Req : caller[q] = "no" =>
           /\ owed[q] = {}
           /\ \A e \in retry_list : e.req # q
           /\ \A a \in agents : a.req # q

\* It is for the nodes the request is owed to.
HolderOwes ==
    ~shutdown => \A q \in Req \ gone :
        /\ \A h \in Held(q) : h.nodes = owed[q]
        /\ owed[q] # {} => Held(q) # {}

QueueIInv == QueueTypeInv /\ OneHolder /\ HolderOwes /\ AgentsBounded

-----------------------------------------------------------------------------
\* e and f are for the same try of a request.
Same(e, f) == e.req = f.req /\ e.nodes = f.nodes /\ e.try = f.try

\* What agent_retry makes of the list s: each record of it is in the result
\* once, to be sent or in the list, unless it is the launch of a job that is
\* gone.
Keeps(s, r) ==
    /\ \A e \in r.found \cup r.rest : \E f \in s : e.pos = f.pos /\ Same(e, f)
    /\ OneRecord(r.found) /\ OneRecord(r.rest)
    /\ \A e \in r.found, g \in r.rest : e.req # g.req
    /\ \A f \in s : f.req \in gone \/ \E e \in r.found \cup r.rest : Same(e, f)

(***************************************************************************)
(* _batch_launch_defer leaves the request, the nodes and the try alone.    *)
(***************************************************************************)
LEMMA DeferSame ==
    ASSUME NEW e \in Rec
    PROVE  /\ Batch_launch_defer(e) \in Rec
           /\ Batch_launch_defer(e).pos = e.pos /\ Same(Batch_launch_defer(e), e)
<1>1. CASE Tested(e)
  <2> DEFINE f == (Verdict(e) = "now")
  <2>1. f \in BOOLEAN
    BY Zenon
  <2>2. Batch_launch_defer(e) = [e EXCEPT !.fresh = f, !.age = 0]
    BY <1>1, Zenon DEF Batch_launch_defer
  <2> HIDE DEF f
  <2>3. Batch_launch_defer(e) = [pos |-> e.pos, req |-> e.req, nodes |-> e.nodes, try |-> e.try,
                                 fresh |-> f, age |-> 0]
    BY <2>2, Zenon DEF Rec
  <2> QED BY <2>1, <2>3 DEF Rec, Same
<1>2. CASE ~Tested(e)
  BY <1>2, Zenon DEF Batch_launch_defer, Same
<1> QED BY <1>1, <1>2, Zenon

(***************************************************************************)
(* A pass of agent_retry keeps the records.                                *)
(***************************************************************************)
LEMMA PassKeeps ==
    ASSUME NEW s \in SUBSET Rec, OneRecord(s), NEW new, NEW min_wait
    PROVE  LET r == Pass(s, new, min_wait)
           IN  r.found \subseteq Rec /\ r.rest \subseteq Rec /\ Keeps(s, r)
<1> DEFINE found == First({e \in s : ToSend(e, new, min_wait)})
           before == {e \in s : \A f \in found : e.pos < f.pos}
           left == s \ (before \cup found)
           looked == Looked_at(before)
           r == Pass(s, new, min_wait)
<1>1. r.found = found /\ r.rest = looked \cup left
  BY Zenon DEF Pass
<1>2. found \subseteq s /\ before \subseteq s /\ left \subseteq s
  BY Zenon DEF First
<1>3. ASSUME NEW e \in looked
      PROVE  e \in Rec /\ \E f \in before : e.pos = f.pos /\ Same(e, f)
  BY <1>2, DeferSame, Zenon DEF Looked_at
<1>4. ASSUME NEW f \in before
      PROVE  f.req \in gone \/ \E e \in looked : Same(e, f)
  <2>1. CASE Verdict(f) = "abort"
    BY <2>1, Zenon DEF Verdict
  <2>2. CASE Verdict(f) # "abort"
    <3>1. Batch_launch_defer(f) \in looked
      BY <2>2, Zenon DEF Looked_at
    <3> QED BY <1>2, <3>1, DeferSame, Zenon
  <2> QED BY <2>1, <2>2, Zenon
<1>5. \A e, f \in looked : e.req = f.req => e = f
  <2> SUFFICES ASSUME NEW e \in looked, NEW f \in looked, e.req = f.req
               PROVE  e = f
    BY Zenon
  <2>1. PICK x \in before : e = Batch_launch_defer(x)
    BY Zenon DEF Looked_at
  <2>2. PICK y \in before : f = Batch_launch_defer(y)
    BY Zenon DEF Looked_at
  <2>3. x.req = y.req
    BY <1>2, <2>1, <2>2, DeferSame, Zenon DEF Same
  <2> QED BY <1>2, <2>1, <2>2, <2>3, Zenon DEF OneRecord
<1>6. found \cap before = {}
  <2> SUFFICES ASSUME NEW e \in found, e \in before PROVE FALSE
    BY Zenon
  <2>1. e.pos < e.pos
    BY Zenon
  <2>2. e.pos \in Nat
    BY <1>2, Zenon DEF Rec
  <2> QED BY <2>1, <2>2
<1>7. \A e, f \in s : e.req = f.req => e = f
  BY Zenon DEF OneRecord
<1>8. \A e \in found \cup left : Same(e, e)
  BY Zenon DEF Same
<1> HIDE DEF found, before, left, looked, r
<1>9. found \subseteq Rec /\ looked \cup left \subseteq Rec
  BY <1>2, <1>3, Zenon
<1>10. \A e \in found \cup looked \cup left : \E f \in s : e.pos = f.pos /\ Same(e, f)
  BY <1>2, <1>3, <1>8, Zenon
<1>11. \A e, f \in looked \cup left : e.req = f.req => e = f
  BY <1>2, <1>3, <1>5, <1>7 DEF Same, left
<1>12. \A e \in found, g \in looked \cup left : e.req # g.req
  BY <1>2, <1>3, <1>6, <1>7 DEF Same, left
<1>13. \A f \in s : f.req \in gone \/ \E e \in found \cup looked \cup left : Same(e, f)
  BY <1>2, <1>4, <1>8, Zenon DEF left
<1> QED
  BY <1>1, <1>2, <1>7, <1>9, <1>10, <1>11, <1>12, <1>13, Zenon DEF Keeps, OneRecord, r

(***************************************************************************)
(* So does agent_retry, which makes two passes at most.                    *)
(***************************************************************************)
LEMMA RetryKeeps ==
    ASSUME NEW s \in SUBSET Rec, OneRecord(s), NEW cnt, NEW min_wait
    PROVE  LET r == Agent_retry(cnt, s, min_wait)
           IN  r.found \subseteq Rec /\ r.rest \subseteq Rec /\ Keeps(s, r)
<1> DEFINE r == Agent_retry(cnt, s, min_wait)
           first == Pass(s, TRUE, min_wait)
           second == Pass(first.rest, FALSE, min_wait)
<1>1. CASE cnt >= MAX_AGENT_CNT
  BY <1>1, Zenon DEF Agent_retry, Keeps, OneRecord, Same
<1>2. CASE ~(cnt >= MAX_AGENT_CNT)
  <2>1. first.found \subseteq Rec /\ first.rest \subseteq Rec /\ Keeps(s, first)
    BY PassKeeps, Zenon
  <2>2. CASE first.found # {}
    <3>1. r = first
      BY <1>2, <2>2, Zenon DEF Agent_retry
    <3> HIDE DEF r, first
    <3> QED BY <2>1, <3>1, Zenon DEF r
  <2>3. CASE first.found = {}
    <3>1. r = second
      BY <1>2, <2>3, Zenon DEF Agent_retry
    <3>2. OneRecord(first.rest)
      BY <2>1, Zenon DEF Keeps
    <3>3. second.found \subseteq Rec /\ second.rest \subseteq Rec /\ Keeps(first.rest, second)
      BY <2>1, <3>2, PassKeeps, Zenon
    <3> HIDE DEF first, second
    <3>4. Keeps(s, second)
      BY <2>1, <2>3, <3>3, SMTT(30) DEF Keeps, Same
    <3> HIDE DEF r
    <3> QED BY <3>1, <3>3, <3>4, Zenon DEF r
  <2> QED BY <2>2, <2>3, Zenon
<1> QED BY <1>1, <1>2, Zenon

\* b is the agent c, apart from where it is before it has sent its request.
Stays(b, c) == Same(b, c) /\ (b.at = "cleanup" <=> c.at = "cleanup")

(***************************************************************************)
(* After agent_retry a request is still held once, and for the nodes it    *)
(* was held for, when the agents in A are what is left of those there      *)
(* were, with no one missing that has not sent its request.                *)
(***************************************************************************)
LEMMA RetryHolds ==
    ASSUME QueueTypeInv, OneHolder, HolderOwes,
           NEW r, Keeps(retry_list, r), r.found \subseteq Rec, r.rest \subseteq Rec,
           NEW A \in SUBSET AgentRec,
           \A b \in A : \E c \in agents : Stays(b, c),
           \A b, c \in A : Same(b, c) => b = c,
           \A c \in agents : c.at # "cleanup" => \E b \in A : Stays(b, c),
           retry_list' = r.rest, agents' = A \cup Spawned(r.found),
           \A q \in Req : caller'[q] = "no" => caller[q] = "no",
           UNCHANGED <<gone, shutdown, owed>>
    PROVE  OneHolder' /\ HolderOwes' /\ agents' \subseteq AgentRec
           /\ \A b \in agents' : b \in A \/ b.at = "start"
<1>1. ASSUME NEW b \in Spawned(r.found)
      PROVE  b \in AgentRec /\ b.at = "start" /\ \E e \in r.found : Same(b, e)
  BY SMTT(30) DEF Spawned, Rec, AgentRec, Same
<1>2. ASSUME NEW b \in Spawned(r.found), NEW c \in Spawned(r.found), b.req = c.req
      PROVE  b = c
  BY <1>2, SMTT(30) DEF Spawned, Keeps, OneRecord
<1> DEFINE S == Spawned(r.found)
<1>3. ASSUME NEW e \in r.found PROVE \E b \in S : Same(b, e)
  <2> DEFINE b == [req |-> e.req, nodes |-> e.nodes, try |-> e.try, at |-> "start"]
  <2>1. b \in S
    BY Zenon DEF Spawned
  <2>2. Same(b, e)
    BY Zenon DEF Same
  <2> QED BY <2>1, <2>2, Zenon
<1>4. \A b \in S : b \in AgentRec /\ b.at = "start" /\ \E e \in r.found : Same(b, e)
  BY <1>1, Zenon
<1>5. \A b, c \in S : b.req = c.req => b = c
  BY <1>2, Zenon
<1>6. \A e \in r.found : \E b \in S : Same(b, e)
  BY <1>3, Zenon
<1> HIDE DEF S
<1>7. /\ \A e, f \in r.rest : e.req = f.req => e = f
      /\ \A e \in r.found \cup r.rest : \E f \in retry_list : Same(e, f)
      /\ \A e \in r.found, g \in r.rest : e.req # g.req
      /\ \A f \in retry_list : f.req \in gone \/ \E e \in r.found \cup r.rest : Same(e, f)
  BY Zenon DEF Keeps, OneRecord
<1>8. agents' = A \cup S
  BY Zenon DEF S
<1>9. ASSUME NEW e \in r.rest, NEW a \in A \cup S, e.req = a.req
      PROVE  a.at = "cleanup" /\ a.try < e.try
  BY <1>4, <1>7, <1>9, SMTT(30) DEF OneHolder, Same, Stays
<1>10. ASSUME NEW a \in A \cup S, NEW b \in A \cup S, a.req = b.req, a # b
       PROVE  a.try # b.try /\ (a.at # "cleanup" => b.at = "cleanup" /\ b.try < a.try)
  <2>1. CASE a \in A /\ b \in A
    BY <1>10, <2>1, SMTT(30) DEF OneHolder, Same, Stays
  <2>2. CASE a \in A /\ b \in S
    <3>1. PICK f \in retry_list : Same(b, f)
      BY <1>4, <1>7, <2>2, SMTT(30) DEF Same
    <3>2. PICK c \in agents : Stays(a, c)
      BY <2>2, Zenon
    <3>3. c.at = "cleanup" /\ c.try < f.try
      BY <1>10, <3>1, <3>2, Zenon DEF OneHolder, Same, Stays
    <3> QED BY <3>1, <3>2, <3>3, <2>2, SMTT(30) DEF Same, Stays, AgentRec, QueueTypeInv
  <2>3. CASE a \in S /\ b \in A
    <3>1. PICK f \in retry_list : Same(a, f)
      BY <1>4, <1>7, <2>3, SMTT(30) DEF Same
    <3>2. PICK c \in agents : Stays(b, c)
      BY <2>3, Zenon
    <3>3. c.at = "cleanup" /\ c.try < f.try
      BY <1>10, <3>1, <3>2, Zenon DEF OneHolder, Same, Stays
    <3> QED BY <3>1, <3>2, <3>3, <2>3, SMTT(30)
            DEF Same, Stays, AgentRec, QueueTypeInv, Rec
  <2>4. CASE a \in S /\ b \in S
    BY <1>5, <1>10, <2>4, Zenon
  <2> QED BY <2>1, <2>2, <2>3, <2>4, Zenon
<1>11. ASSUME NEW q \in Req, caller[q] = "no"
       PROVE  /\ owed[q] = {}
              /\ \A e \in r.rest : e.req # q
              /\ \A a \in A \cup S : a.req # q
  BY <1>4, <1>7, <1>11, SMTT(30) DEF OneHolder, Same, Stays
<1>12. OneHolder'
  BY <1>7, <1>8, <1>9, <1>10, <1>11, Zenon DEF OneHolder, OneRecord
<1>13. ASSUME ~shutdown, NEW q \in Req \ gone
       PROVE  /\ \A h \in Held(q)' : h.nodes = owed[q]
              /\ owed[q] # {} => Held(q)' # {}
  <2>1. /\ \A h \in Held(q) : h.nodes = owed[q]
        /\ owed[q] # {} => Held(q) # {}
    BY <1>13, Zenon DEF HolderOwes
  <2>2. ASSUME NEW h \in Held(q)' PROVE h.nodes = owed[q]
    <3>0. \A f \in retry_list : Same(h, f) /\ h.req = q => h.nodes = owed[q]
      BY <2>1, Zenon DEF Held, Same
    <3>1. CASE h \in r.rest /\ h.req = q
      BY <1>7, <3>0, <3>1, Zenon
    <3>2. CASE h \in A /\ h.req = q /\ h.at # "cleanup"
      <4>1. PICK c \in agents : Stays(h, c)
        BY <3>2, Zenon
      <4> QED BY <2>1, <3>2, <4>1, Zenon DEF Held, Same, Stays
    <3>3. CASE h \in S /\ h.req = q
      <4>1. PICK e \in r.found : Same(h, e)
        BY <1>4, <3>3, Zenon
      <4>2. PICK f \in retry_list : Same(e, f)
        BY <1>7, Zenon
      <4> QED BY <3>0, <3>3, <4>1, <4>2, Zenon DEF Same
    <3> QED BY <1>8, <3>1, <3>2, <3>3, Zenon DEF Held
  <2>3. ASSUME owed[q] # {} PROVE Held(q)' # {}
    <3>1. PICK h \in Held(q) : TRUE
      BY <2>1, <2>3, Zenon
    <3>2. CASE h \in retry_list
      <4>1. PICK e \in r.found \cup r.rest : Same(e, h)
        BY <1>7, <3>1, <3>2, Zenon DEF Held
      <4> QED BY <1>4, <1>6, <1>8, <3>1, <4>1, SMTT(30) DEF Held, Same
    <3>3. CASE h \notin retry_list
      BY <1>8, <3>1, <3>3, SMTT(30) DEF Held, Same, Stays
    <3> QED BY <3>2, <3>3, Zenon
  <2> QED BY <2>2, <2>3, Zenon
<1>14. HolderOwes'
  BY <1>13, Zenon DEF HolderOwes
<1> QED BY <1>4, <1>8, <1>12, <1>14, Zenon

(***************************************************************************)
(* A set of naturals that has a bound has a greatest element.              *)
(***************************************************************************)
LEMMA GreatestOf ==
    ASSUME NEW T \in SUBSET Nat, 0 \in T, NEW m \in Nat, \A x \in T : x <= m
    PROVE  Max(T) \in T /\ \A x \in T : x <= Max(T)
<1> DEFINE B == {b \in Nat : \A x \in T : x <= b}
<1>1. PICK b \in B : \A c \in B : ~ (<<c, b>> \in OpToRel(<, Nat))
  <2>1. B \in SUBSET Nat /\ B # {}
    BY Zenon
  <2> HIDE DEF B
  <2> QED BY <2>1, NatLessThanWellFounded, WFMin, Zenon
<1>2. b \in T
  <2> SUFFICES ASSUME b \notin T PROVE FALSE
    BY Zenon
  <2>1. \A x \in T : x < b
    OBVIOUS
  <2>2. b - 1 \in B /\ b - 1 < b
    BY <2>1
  <2>3. <<b - 1, b>> \in OpToRel(<, Nat)
    BY <2>2, Zenon DEF OpToRel
  <2> QED BY <1>1, <2>2, <2>3, Zenon
<1>3. \E x \in T : \A y \in T : x >= y
  BY <1>2, Zenon
<1> QED BY <1>3, Zenon DEF Max

(***************************************************************************)
(* list_append adds one record, behind the others.                         *)
(***************************************************************************)
LEMMA AppendedOne ==
    ASSUME QueueTypeInv, NEW q \in Req, NEW nodes \in SUBSET Node, NEW try \in Nat \ {0}
    PROVE  \E e \in Rec :
              /\ Appended(q, nodes, try) = retry_list \cup {e}
              /\ e.req = q /\ e.nodes = nodes /\ e.try = try
              /\ \A f \in retry_list : f.pos <= e.pos
<1> DEFINE T == {e.pos : e \in retry_list} \cup {0}
           fresh == (try = 1)
           e == [pos |-> Max(T) + 1, req |-> q, nodes |-> nodes, try |-> try,
                 fresh |-> fresh, age |-> 0]
<1>1. PICK m \in Nat : \A f \in retry_list : f.pos <= m
  BY Zenon DEF QueueTypeInv
<1>2. T \in SUBSET Nat /\ 0 \in T /\ \A x \in T : x <= m
  BY <1>1 DEF QueueTypeInv, Rec
<1>3. Max(T) \in T /\ \A x \in T : x <= Max(T)
  <2> HIDE DEF T
  <2> QED BY <1>2, GreatestOf, Zenon
<1>4. \A f \in retry_list : f.pos \in T
  BY Zenon
<1>5. Appended(q, nodes, try) = retry_list \cup {e}
  BY Zenon DEF Appended
<1>6. fresh \in BOOLEAN
  BY Zenon
<1> HIDE DEF T, fresh
<1>7. Max(T) \in Nat
  BY <1>2, <1>3, Zenon
<1> DEFINE top == Max(T)
<1>8. top \in Nat /\ \A f \in retry_list : f.pos <= top
  BY <1>3, <1>4, <1>7, Zenon
<1> HIDE DEF top
<1>9. e \in Rec
  BY <1>6, <1>7 DEF Rec
<1>10. \A f \in retry_list : f.pos <= e.pos
  <2>1. e.pos = top + 1
    BY Zenon DEF top
  <2> QED BY <1>8, <2>1, SMTT(30) DEF QueueTypeInv, Rec
<1> QED BY <1>5, <1>9, <1>10, Zenon

(***************************************************************************)
(* An agent that goes on without having sent its request holds it still;   *)
(* at a shutdown it may go to its cleanup.                                 *)
(***************************************************************************)
LEMMA MovedHolds ==
    ASSUME QueueTypeInv, OneHolder, HolderOwes,
           NEW a \in agents, a.at # "cleanup",
           NEW x \in {"start", "wait", "run", "cleanup"}, x = "cleanup" => shutdown,
           agents' = Moved(a, x), UNCHANGED <<retry_list, caller, gone, shutdown, owed>>
    PROVE  OneHolder' /\ HolderOwes' /\ agents' \subseteq AgentRec
<1> DEFINE b == [a EXCEPT !.at = x]
<1>1. b \in AgentRec /\ Same(b, a) /\ b.at = x
  BY Zenon DEF QueueTypeInv, AgentRec, Same
<1>2. agents' = (agents \ {a}) \cup {b}
  BY Zenon DEF Moved
<1> HIDE DEF b
<1>3. OneHolder'
  BY <1>1, <1>2, SMTT(30) DEF OneHolder, OneRecord, Same, QueueTypeInv
<1>4. ASSUME ~shutdown, NEW q \in Req \ gone
      PROVE  /\ \A h \in Held(q)' : h.nodes = owed[q]
             /\ owed[q] # {} => Held(q)' # {}
  BY <1>1, <1>2, <1>4, SMTT(30) DEF HolderOwes, Held, Same
<1>5. HolderOwes'
  BY <1>4, Zenon DEF HolderOwes
<1> QED BY <1>1, <1>2, <1>3, <1>5, Zenon DEF QueueTypeInv

\* The part of the type invariant that is about the list.
ListType == retry_list \subseteq Rec /\ \E last \in Nat : \A e \in retry_list : e.pos <= last

(***************************************************************************)
(* What agent_retry leaves in the list is typed.                           *)
(***************************************************************************)
LEMMA RetryListType ==
    ASSUME QueueTypeInv, NEW r, Keeps(retry_list, r), r.rest \subseteq Rec, retry_list' = r.rest
    PROVE  ListType'
<1>1. PICK last \in Nat : \A e \in retry_list : e.pos <= last
  BY Zenon DEF QueueTypeInv
<1>2. \A e \in r.rest : e.pos <= last
  BY <1>1, Zenon DEF Keeps
<1> QED BY <1>2, Zenon DEF ListType

(***************************************************************************)
(* agent_retry, called by agent_queue_request or the background.           *)
(***************************************************************************)
LEMMA RetryStep ==
    ASSUME QueueIInv, NEW cnt, NEW min_wait, NEW r, r = Agent_retry(cnt, retry_list, min_wait),
           retry_list' = r.rest, agents' = agents \cup Spawned(r.found),
           caller' \in [Req -> {"no", "queued", "done"}],
           \A q \in Req : caller'[q] = "no" => caller[q] = "no",
           UNCHANGED <<agent_cnt, gone, shutdown, owed>>
    PROVE  QueueIInv'
<1> USE DEF QueueIInv
<1>1. r.found \subseteq Rec /\ r.rest \subseteq Rec /\ Keeps(retry_list, r)
  BY RetryKeeps, Zenon DEF QueueTypeInv, OneHolder
<1>2. ListType'
  BY <1>1, RetryListType, Zenon
<1>3. /\ agents \in SUBSET AgentRec
      /\ \A b \in agents : Stays(b, b)
      /\ \A b, c \in agents : Same(b, c) => b = c
  BY Zenon DEF QueueTypeInv, OneHolder, Same, Stays
<1>4. /\ OneHolder' /\ HolderOwes' /\ agents' \subseteq AgentRec
      /\ \A b \in agents' : b \in agents \/ b.at = "start"
  <2> DEFINE A == agents
  <2>1. agents' = A \cup Spawned(r.found)
    BY Zenon
  <2>2. /\ A \in SUBSET AgentRec
        /\ \A b \in A : \E c \in agents : Stays(b, c)
        /\ \A c \in agents : c.at # "cleanup" => \E b \in A : Stays(b, c)
        /\ \A b, c \in A : Same(b, c) => b = c
    BY <1>3, Zenon
  <2>3. \A b \in agents' : b \in A => b \in agents
    BY Zenon
  <2> HIDE DEF A
  <2> QED BY <1>1, <2>1, <2>2, <2>3, RetryHolds, Zenon
<1>5. Active' = Active
  <2>1. agents \subseteq agents'
    BY Zenon
  <2> QED BY <1>4, <2>1, Zenon DEF Active
<1> QED BY <1>2, <1>4, <1>5, Zenon DEF QueueTypeInv, ListType, AgentsBounded

(***************************************************************************)
(* A request that is queued or executed for the first time.                *)
(***************************************************************************)
LEMMA QueueHolds ==
    ASSUME QueueIInv, NEW q \in Req, caller[q] = "no", Nodes(q) \in SUBSET Node,
           \/ /\ \E e \in Rec : /\ retry_list' = retry_list \cup {e}
                                /\ e.req = q /\ e.nodes = Nodes(q)
              /\ agents' = agents
           \/ /\ \E b \in AgentRec : /\ agents' = agents \cup {b}
                                     /\ b.req = q /\ b.nodes = Nodes(q) /\ b.at = "start"
              /\ retry_list' = retry_list,
           NEW x \in {"queued", "done"}, caller' = [caller EXCEPT ![q] = x],
           owed' = [owed EXCEPT ![q] = Nodes(q)],
           UNCHANGED <<agent_cnt, gone, shutdown>>
    PROVE  OneHolder' /\ HolderOwes' /\ AgentsBounded' /\ agents' \subseteq AgentRec /\ Active' = Active
           /\ caller' \in [Req -> {"no", "queued", "done"}] /\ owed' \in [Req -> SUBSET Node]
<1> USE DEF QueueIInv
<1>1. /\ \A e \in retry_list : e.req # q
      /\ \A a \in agents : a.req # q
  BY Zenon DEF OneHolder
<1>2. /\ caller' \in [Req -> {"no", "queued", "done"}] /\ owed' \in [Req -> SUBSET Node]
      /\ owed'[q] = Nodes(q) /\ \A p \in Req \ {q} : owed'[p] = owed[p]
      /\ \A p \in Req : caller'[p] = "no" => p # q /\ caller[p] = "no"
  BY Zenon DEF QueueTypeInv
<1>3. OneHolder'
  BY <1>1, <1>2, SMTT(30) DEF OneHolder, OneRecord
<1>4. ASSUME ~shutdown, NEW p \in Req \ gone
      PROVE  /\ \A h \in Held(p)' : h.nodes = owed'[p]
             /\ owed'[p] # {} => Held(p)' # {}
  <2>1. CASE p = q
    BY <1>1, <1>2, <2>1, Zenon DEF Held
  <2>2. CASE p # q
    <3>1. Held(p)' = Held(p)
      BY <2>2, Zenon DEF Held
    <3> QED BY <1>2, <1>4, <2>2, <3>1, SMTT(30) DEF HolderOwes
  <2> QED BY <2>1, <2>2, Zenon
<1>5. HolderOwes'
  BY <1>4, Zenon DEF HolderOwes
<1>6. Active' = Active
  BY Zenon DEF Active
<1> QED BY <1>2, <1>3, <1>5, <1>6, Zenon DEF AgentsBounded, QueueTypeInv

(***************************************************************************)
(* The agent that moves is not there twice.                                *)
(***************************************************************************)
LEMMA MovedOne ==
    ASSUME QueueTypeInv, OneHolder, NEW a \in agents,
           NEW x \in {"start", "wait", "run", "cleanup"}, x # a.at
    PROVE  [a EXCEPT !.at = x] \notin agents /\ [a EXCEPT !.at = x].at = x
<1> DEFINE b == [a EXCEPT !.at = x]
<1>1. b.at = x /\ b.req = a.req /\ b.try = a.try
  BY Zenon DEF QueueTypeInv, AgentRec
<1> HIDE DEF b
<1>2. b \notin agents
  BY <1>1, Zenon DEF OneHolder
<1> QED BY <1>1, <1>2, Zenon DEF b

(***************************************************************************)
(* An agent that starts counts itself, if there is a slot or a shutdown.   *)
(***************************************************************************)
LEMMA StartStep ==
    ASSUME QueueIInv, NEW a \in agents, Start(a)
    PROVE  QueueIInv'
<1> USE DEF QueueIInv
<1> DEFINE x == IF shutdown THEN "cleanup" ELSE "run"
           b == [a EXCEPT !.at = x]
<1>1. a.at = "start" /\ x \in {"run", "cleanup"} /\ (x = "cleanup" => shutdown)
  BY Zenon DEF Start
<1>2. agents' = Moved(a, x)
  BY Zenon DEF Start
<1>3. agents' = (agents \ {a}) \cup {b}
  BY <1>2, Zenon DEF Moved
<1> HIDE DEF x
<1>4. OneHolder' /\ HolderOwes' /\ agents' \subseteq AgentRec
  BY <1>1, <1>2, MovedHolds, Zenon DEF Start
<1>5. b \notin agents /\ b.at = x
  BY <1>1, MovedOne, Zenon
<1> HIDE DEF b
<1>6. Active' = Active \cup {b} /\ b \notin Active
  BY <1>1, <1>3, <1>5, Zenon DEF Active
<1>7. IsFiniteSet(Active') /\ Cardinality(Active') = Cardinality(Active) + 1
  BY <1>6, FS_AddElement, Zenon DEF QueueTypeInv
<1>8. AgentsBounded'
  BY <1>7, AgentQueueAssumption, SMTT(30) DEF AgentsBounded, Start, HasSlot, QueueTypeInv
<1> QED BY <1>4, <1>7, <1>8 DEF Start, QueueTypeInv

(***************************************************************************)
(* An agent that finds no slot waits.                                      *)
(***************************************************************************)
LEMMA WaitStep ==
    ASSUME QueueIInv, NEW a \in agents, WaitSlot(a)
    PROVE  QueueIInv'
<1> USE DEF QueueIInv
<1> DEFINE b == [a EXCEPT !.at = "wait"]
<1>1. a.at = "start" /\ agents' = Moved(a, "wait")
  BY Zenon DEF WaitSlot
<1>2. agents' = (agents \ {a}) \cup {b}
  BY <1>1, Zenon DEF Moved
<1>3. OneHolder' /\ HolderOwes' /\ agents' \subseteq AgentRec
  BY <1>1, MovedHolds, Zenon DEF WaitSlot
<1>4. b.at = "wait"
  BY <1>1, MovedOne, Zenon
<1> HIDE DEF b
<1>5. Active' = Active
  BY <1>1, <1>2, <1>4, Zenon DEF Active
<1> QED BY <1>3, <1>5, Zenon DEF WaitSlot, QueueTypeInv, AgentsBounded

(***************************************************************************)
(* An agent sends its request: the nodes that are tried again are those    *)
(* the request is owed to, and no one else holds it.                       *)
(***************************************************************************)
LEMMA SendStep ==
    ASSUME QueueIInv, NEW a \in agents, Send(a)
    PROVE  QueueIInv'
<1> USE DEF QueueIInv
<1> DEFINE b == [a EXCEPT !.at = "cleanup"]
           q == a.req
<1>1. a.at = "run" /\ agents' = (agents \ {a}) \cup {b}
  BY Zenon DEF Send, Moved
<1>2. b \notin agents /\ b.at = "cleanup"
  BY <1>1, MovedOne, Zenon
<1>3. b \in AgentRec /\ Same(b, a)
  BY Zenon DEF QueueTypeInv, AgentRec, Same
<1>4. q \in Req /\ a.nodes \in SUBSET Node /\ a.try \in Nat \ {0}
  BY Zenon DEF QueueTypeInv, AgentRec
<1>5. PICK late \in SUBSET a.nodes :
          /\ gone' = IF q \in Batch /\ late # {} THEN gone \cup {q} ELSE gone
          /\ retry_list' = IF ToRetry(a, late) = {} THEN retry_list
                           ELSE Appended(q, ToRetry(a, late), a.try + 1)
          /\ owed' = [owed EXCEPT ![q] = @ \ (IF q \in Retried THEN a.nodes \ late ELSE a.nodes)]
  BY Zenon DEF Send
<1> DEFINE again == ToRetry(a, late)
<1>6. again = IF q \in Retried THEN late ELSE {}
  BY Zenon DEF ToRetry
<1>7. /\ owed' \in [Req -> SUBSET Node]
      /\ \A p \in Req \ {q} : owed'[p] = owed[p]
      /\ gone \subseteq gone' /\ gone' \subseteq Req
      /\ owed'[q] = owed[q] \ (IF q \in Retried THEN a.nodes \ late ELSE a.nodes)
  BY <1>4, <1>5, Zenon DEF QueueTypeInv
<1>8. \/ again = {} /\ retry_list' = retry_list
      \/ /\ again # {}
         /\ \E e \in Rec : /\ retry_list' = retry_list \cup {e}
                           /\ e.req = q /\ e.nodes = again /\ e.try = a.try + 1
                           /\ \A f \in retry_list : f.pos <= e.pos
  BY <1>4, <1>5, <1>6, AppendedOne, SMTT(30)
<1> HIDE DEF b, again
<1>9. ListType'
  <2>1. CASE retry_list' = retry_list
    BY <2>1, Zenon DEF ListType, QueueTypeInv
  <2>2. CASE retry_list' # retry_list
    <3>1. PICK e \in Rec : retry_list' = retry_list \cup {e} /\ \A f \in retry_list : f.pos <= e.pos
      BY <1>8, <2>2, Zenon
    <3>2. e.pos \in Nat /\ \A f \in retry_list' : f.pos <= e.pos
      BY <3>1, SMTT(30) DEF Rec
    <3> QED BY <3>1, <3>2, Zenon DEF ListType, QueueTypeInv
  <2> QED BY <2>1, <2>2, Zenon
<1>10. \A e \in retry_list : e.req # q
  BY <1>1, Zenon DEF OneHolder
<1>11. \A c \in agents \ {a} : c.req = q => c.at = "cleanup" /\ c.try < a.try
  BY <1>1, Zenon DEF OneHolder
<1>12. OneHolder'
  <2>1. OneRecord(retry_list)'
    BY <1>8, <1>10, SMTT(30) DEF OneHolder, OneRecord
  <2>2. \A e \in retry_list', c \in agents' : e.req = c.req => c.at = "cleanup" /\ c.try < e.try
    <3> SUFFICES ASSUME NEW e \in retry_list', NEW c \in agents', e.req = c.req
                 PROVE  c.at = "cleanup" /\ c.try < e.try
      BY Zenon
    <3>1. CASE e \in retry_list
      BY <1>1, <1>3, <1>10, <3>1, SMTT(30) DEF OneHolder, Same
    <3>2. CASE e \notin retry_list
      <4>1. e.req = q /\ e.try = a.try + 1
        BY <1>8, <3>2, Zenon
      <4>2. c.try \in Nat
        BY <1>1, <1>3, SMTT(30) DEF QueueTypeInv, AgentRec
      <4>3. CASE c = b
        <5>1. c.at = "cleanup" /\ c.try = a.try
          BY <1>2, <1>3, <4>3, Zenon DEF Same
        <5> QED BY <1>4, <4>1, <5>1, SMTT(30)
      <4>4. CASE c \in agents \ {a}
        <5>1. c.at = "cleanup" /\ c.try < a.try
          BY <1>11, <4>1, <4>4, Zenon
        <5> QED BY <1>4, <4>1, <4>2, <5>1, SMTT(30)
      <4> QED BY <1>1, <4>3, <4>4, Zenon
    <3> QED BY <3>1, <3>2, Zenon
  <2>3. \A c, d \in agents' : c.req = d.req /\ c # d =>
            /\ c.try # d.try
            /\ c.at # "cleanup" => d.at = "cleanup" /\ d.try < c.try
    <3> SUFFICES ASSUME NEW c \in agents', NEW d \in agents', c.req = d.req, c # d
                 PROVE  /\ c.try # d.try
                        /\ c.at # "cleanup" => d.at = "cleanup" /\ d.try < c.try
      BY Zenon
    <3>1. b.req = q /\ b.try = a.try /\ b.at = "cleanup"
      BY <1>2, <1>3, Zenon DEF Same
    <3>2. CASE c \in agents \ {a} /\ d \in agents \ {a}
      BY <3>2, Zenon DEF OneHolder
    <3>3. ASSUME NEW x \in agents \ {a}, x.req = q
          PROVE  x.at = "cleanup" /\ x.try # a.try
      <4>1. x \in agents /\ x # a
        OBVIOUS
      <4>2. x.try # a.try
        BY <3>3, <4>1, Zenon DEF OneHolder
      <4> QED BY <1>11, <3>3, <4>2, Zenon
    <3>4. CASE c = b /\ d \in agents \ {a}
      BY <3>1, <3>3, <3>4, Zenon
    <3>5. CASE c \in agents \ {a} /\ d = b
      BY <3>1, <3>3, <3>5, Zenon
    <3> QED BY <1>1, <3>2, <3>4, <3>5, Zenon
  <2>4. \A p \in Req : caller'[p] = "no" =>
            owed'[p] = {} /\ (\A e \in retry_list' : e.req # p) /\ \A c \in agents' : c.req # p
    <3>1. caller' = caller /\ caller[q] # "no"
      BY <1>4, Zenon DEF Send, OneHolder
    <3> SUFFICES ASSUME NEW p \in Req, caller'[p] = "no"
                 PROVE  /\ owed'[p] = {} /\ \A e \in retry_list' : e.req # p
                        /\ \A c \in agents' : c.req # p
      BY Zenon
    <3>2. p # q /\ caller[p] = "no"
      BY <3>1, Zenon
    <3>3. /\ owed[p] = {} /\ \A e \in retry_list : e.req # p
          /\ \A c \in agents : c.req # p
      BY <3>2, Zenon DEF OneHolder
    <3>4. \A e \in retry_list' : e.req # p
      BY <1>8, <3>2, <3>3, Zenon
    <3>5. \A c \in agents' : c.req # p
      BY <1>1, <1>3, <3>2, <3>3, Zenon DEF Same
    <3> QED BY <1>7, <3>2, <3>3, <3>4, <3>5, Zenon
  <2> QED BY <2>1, <2>2, <2>3, <2>4, Zenon DEF OneHolder
<1>13. ASSUME ~shutdown, NEW p \in Req \ gone'
       PROVE  /\ \A h \in Held(p)' : h.nodes = owed'[p]
              /\ owed'[p] # {} => Held(p)' # {}
  <2>1. p \in Req \ gone
    BY <1>7, Zenon
  <2>2. CASE p = q
    <3>1. owed[q] = a.nodes
      BY <1>1, <1>13, <2>1, <2>2, Zenon DEF HolderOwes, Held
    <3>2. owed'[q] = again
      BY <1>6, <1>7, <3>1, Zenon
    <3>3. Held(q)' = {e \in retry_list' : e.req = q}
      BY <1>1, <1>2, <1>11, Zenon DEF Held
    <3> QED BY <1>8, <1>10, <2>2, <3>2, <3>3, Zenon
  <2>3. CASE p # q
    <3>1. Held(p)' = Held(p)
      BY <1>1, <1>3, <1>8, <2>3, Zenon DEF Held, Same
    <3> QED BY <1>7, <1>13, <2>1, <2>3, <3>1, Zenon DEF HolderOwes
  <2> QED BY <2>2, <2>3, Zenon
<1>14. HolderOwes'
  BY <1>13, Zenon DEF HolderOwes, Send
<1>15. IsFiniteSet(Active') /\ Cardinality(Active') = Cardinality(Active)
  <2>1. Active' = (Active \ {a}) \cup {b} /\ a \in Active /\ b \notin Active \ {a}
    BY <1>1, <1>2, Zenon DEF Active
  <2>2. IsFiniteSet(Active \ {a}) /\ Cardinality(Active \ {a}) = Cardinality(Active) - 1
    BY <2>1, FS_RemoveElement, Zenon DEF QueueTypeInv
  <2>3. Cardinality(Active) \in Nat
    BY FS_CardinalityType, Zenon DEF QueueTypeInv
  <2>4. IsFiniteSet(Active') /\ Cardinality(Active') = Cardinality(Active \ {a}) + 1
    BY <2>1, <2>2, FS_AddElement, Zenon
  <2> QED BY <2>2, <2>3, <2>4, SMTT(30)
<1>16. AgentsBounded'
  BY <1>15, Zenon DEF AgentsBounded, Send
<1>17. agents' \subseteq AgentRec
  BY <1>1, <1>3, Zenon DEF QueueTypeInv
<1> QED BY <1>7, <1>9, <1>12, <1>14, <1>15, <1>16, <1>17, Zenon DEF Send, QueueTypeInv, ListType

(***************************************************************************)
(* An agent that ends gives up its slot, has a record retried, and wakes   *)
(* the agents that wait.                                                   *)
(***************************************************************************)
LEMMA CleanupStep ==
    ASSUME QueueIInv, NEW a \in agents, AgentCleanup(a)
    PROVE  QueueIInv'
<1> USE DEF QueueIInv
<1> DEFINE r == IF agent_cnt' > 0 THEN Agent_retry(agent_cnt', retry_list, RPC_RETRY_INTERVAL)
                ELSE [found |-> {}, rest |-> retry_list]
           A == WaitersWoken(agents \ {a})
<1>1. a.at = "cleanup" /\ retry_list' = r.rest /\ agents' = A \cup Spawned(r.found)
  BY Zenon DEF AgentCleanup
<1>2. r.found \subseteq Rec /\ r.rest \subseteq Rec /\ Keeps(retry_list, r)
  <2>1. retry_list \in SUBSET Rec /\ OneRecord(retry_list)
    BY Zenon DEF QueueTypeInv, OneHolder
  <2>2. CASE agent_cnt' > 0
    <3>1. r = Agent_retry(agent_cnt', retry_list, RPC_RETRY_INTERVAL)
      BY <2>2, Zenon
    <3> HIDE DEF r
    <3> QED BY <2>1, <3>1, RetryKeeps, Zenon
  <2>3. CASE ~(agent_cnt' > 0)
    <3>1. r = [found |-> {}, rest |-> retry_list]
      BY <2>3, Zenon
    <3> HIDE DEF r
    <3> QED BY <2>1, <3>1, Zenon DEF Keeps, OneRecord, Same
  <2> QED BY <2>2, <2>3, Zenon
<1> HIDE DEF r
<1>3. ListType'
  BY <1>1, <1>2, RetryListType, Zenon
<1>4. ASSUME NEW c \in agents \ {a}
      PROVE  \E b \in A : Stays(b, c) /\ (c.at # "wait" => b = c) /\ (c.at = "wait" => b.at = "start")
  <2>1. c \in AgentRec
    BY Zenon DEF QueueTypeInv
  <2>2. CASE c.at = "wait"
    <3> DEFINE b == [c EXCEPT !.at = "start"]
    <3>1. b \in A
      BY <2>2, Zenon DEF WaitersWoken
    <3>2. b.at = "start" /\ Stays(b, c)
      BY <2>1, <2>2, Zenon DEF AgentRec, Stays, Same
    <3> HIDE DEF b
    <3> QED BY <2>2, <3>1, <3>2, Zenon
  <2>3. CASE c.at # "wait"
    <3>1. c \in A
      BY <2>3, Zenon DEF WaitersWoken
    <3> QED BY <2>3, <3>1, Zenon DEF Stays, Same
  <2> QED BY <2>2, <2>3, Zenon
<1>5. ASSUME NEW b \in A
      PROVE  /\ b \in AgentRec
             /\ \E c \in agents \ {a} : Stays(b, c) /\ (b = c \/ (b.at = "start" /\ c.at = "wait"))
  <2>1. PICK c \in agents \ {a} : b = IF c.at = "wait" THEN [c EXCEPT !.at = "start"] ELSE c
    BY Zenon DEF WaitersWoken
  <2>2. c \in AgentRec
    BY Zenon DEF QueueTypeInv
  <2>3. CASE c.at = "wait"
    BY <2>1, <2>2, <2>3, Zenon DEF AgentRec, Stays, Same
  <2>4. CASE c.at # "wait"
    BY <2>1, <2>2, <2>4, Zenon DEF Stays, Same
  <2> QED BY <2>3, <2>4, Zenon
<1>6. ASSUME NEW b \in A, NEW d \in A, Same(b, d)
      PROVE  b = d
  <2>1. PICK c \in agents \ {a} : b = IF c.at = "wait" THEN [c EXCEPT !.at = "start"] ELSE c
    BY Zenon DEF WaitersWoken
  <2>2. PICK e \in agents \ {a} : d = IF e.at = "wait" THEN [e EXCEPT !.at = "start"] ELSE e
    BY Zenon DEF WaitersWoken
  <2>3. b.req = c.req /\ b.try = c.try /\ d.req = e.req /\ d.try = e.try
    BY <2>1, <2>2, Zenon DEF QueueTypeInv, AgentRec
  <2>4. c.req = e.req /\ c.try = e.try
    BY <1>6, <2>3, Zenon DEF Same
  <2>5. c = e
    BY <2>4, Zenon DEF OneHolder
  <2> QED BY <2>1, <2>2, <2>5, Zenon
<1> HIDE DEF A
<1>7. /\ OneHolder' /\ HolderOwes' /\ agents' \subseteq AgentRec
      /\ \A b \in agents' : b \in A \/ b.at = "start"
  <2>1. A \in SUBSET AgentRec /\ \A b \in A : \E c \in agents : Stays(b, c)
    BY <1>5, Zenon
  <2>2. \A c \in agents : c.at # "cleanup" => \E b \in A : Stays(b, c)
    BY <1>1, <1>4, Zenon
  <2>3. \A b, c \in A : Same(b, c) => b = c
    BY <1>6, Zenon
  <2>4. UNCHANGED <<caller, gone, shutdown, owed>>
    BY Zenon DEF AgentCleanup
  <2>5. \A q \in Req : caller'[q] = "no" => caller[q] = "no"
    BY <2>4, Zenon
  <2> QED BY <1>1, <1>2, <2>1, <2>2, <2>3, <2>4, <2>5, RetryHolds, Zenon
<1>8. Active' = Active \ {a} /\ a \in Active
  <2>1. a \in Active
    BY <1>1, Zenon DEF Active
  <2>2. \A c \in Active \ {a} : c \in Active'
    BY <1>1, <1>4 DEF Active
  <2>3. \A b \in Active' : b \in Active \ {a}
    <3> SUFFICES ASSUME NEW b \in Active' PROVE b \in Active \ {a}
      BY Zenon
    <3>1. b \in A /\ b.at \in {"run", "cleanup"}
      BY <1>7, Zenon DEF Active
    <3> QED BY <1>5, <3>1, Zenon DEF Active
  <2> QED BY <2>1, <2>2, <2>3, Zenon
<1>9. IsFiniteSet(Active') /\ Cardinality(Active') = Cardinality(Active) - 1
  BY <1>8, FS_RemoveElement, Zenon DEF QueueTypeInv
<1>10. Cardinality(Active') \in Nat
  BY <1>9, FS_CardinalityType, Zenon
<1>11. agent_cnt' = agent_cnt - 1 /\ agent_cnt' \in Nat
  <2>1. agent_cnt - 1 \in Nat
    BY <1>9, <1>10, Zenon DEF AgentsBounded, QueueTypeInv
  <2>2. \E x \in {agent_cnt - 1, 0} : \A y \in {agent_cnt - 1, 0} : x >= y
    BY <2>1
  <2>3. Max({agent_cnt - 1, 0}) = agent_cnt - 1
    BY <2>1, <2>2, SMTT(30) DEF Max
  <2>4. agent_cnt' = Max({agent_cnt - 1, 0})
    BY Zenon DEF AgentCleanup
  <2> QED BY <2>1, <2>3, <2>4, Zenon
<1>12. AgentsBounded'
  BY <1>9, <1>11, AgentQueueAssumption, SMTT(30) DEF AgentsBounded, AgentCleanup, QueueTypeInv
<1> QED BY <1>3, <1>7, <1>9, <1>11, <1>12, Zenon DEF QueueTypeInv, ListType, AgentCleanup

(***************************************************************************)
(* Every step keeps QueueIInv.                                             *)
(***************************************************************************)
LEMMA StepKeeps == QueueIInv /\ [QueueNext]_queueVars => QueueIInv'
<1> SUFFICES ASSUME QueueIInv, [QueueNext]_queueVars
             PROVE  QueueIInv'
  BY Zenon
<1> USE DEF QueueIInv
<1>0. \A q \in Req : Nodes(q) \in SUBSET Node
  BY AgentQueueAssumption, Zenon DEF Nodes, batch_host
<1>1. ASSUME NEW q \in Req, Queue(q) PROVE QueueIInv'
  <2>1. PICK e \in Rec : /\ retry_list' = retry_list \cup {e}
                         /\ e.req = q /\ e.nodes = Nodes(q)
                         /\ \A f \in retry_list : f.pos <= e.pos
    BY <1>0, <1>1, AppendedOne, SMTT(30) DEF Queue
  <2>2. /\ OneHolder' /\ HolderOwes' /\ AgentsBounded' /\ agents' \subseteq AgentRec /\ Active' = Active
        /\ caller' \in [Req -> {"no", "queued", "done"}] /\ owed' \in [Req -> SUBSET Node]
    BY <1>0, <1>1, <2>1, QueueHolds, Zenon DEF Queue
  <2>3. e.pos \in Nat /\ \A f \in retry_list' : f.pos <= e.pos
    BY <2>1 DEF Rec
  <2> QED BY <1>1, <2>1, <2>2, <2>3, Zenon DEF Queue, QueueTypeInv
<1>2. ASSUME NEW q \in Urgent, ExecuteNow(q) PROVE QueueIInv'
  <2> DEFINE b == [req |-> q, nodes |-> Nodes(q), try |-> 1, at |-> "start"]
  <2>1. q \in Req
    BY Zenon DEF Req
  <2>2. b \in AgentRec
    BY <1>0, <2>1 DEF AgentRec
  <2>3. agents' = agents \cup {b}
    BY <1>2, SMTT(30) DEF ExecuteNow, Spawned
  <2>4. /\ OneHolder' /\ HolderOwes' /\ AgentsBounded' /\ agents' \subseteq AgentRec /\ Active' = Active
        /\ caller' \in [Req -> {"no", "queued", "done"}] /\ owed' \in [Req -> SUBSET Node]
    BY <1>0, <1>2, <2>1, <2>2, <2>3, QueueHolds, Zenon DEF ExecuteNow
  <2> QED BY <1>2, <2>4, Zenon DEF ExecuteNow, QueueTypeInv
<1>3. ASSUME NEW q \in Req, QueueRetry(q) PROVE QueueIInv'
  <2>1. /\ caller' \in [Req -> {"no", "queued", "done"}]
        /\ \A p \in Req : caller'[p] = "no" => caller[p] = "no"
    BY <1>3, Zenon DEF QueueRetry, QueueTypeInv
  <2> QED BY <1>3, <2>1, RetryStep, Zenon DEF QueueRetry
<1>4. CASE BackgroundRetry
  BY <1>4, RetryStep, Zenon DEF BackgroundRetry, QueueTypeInv
<1>5. ASSUME NEW q \in Req, NodesReady(q) PROVE QueueIInv'
  BY <1>5, Zenon DEF NodesReady, QueueTypeInv, OneHolder, HolderOwes, AgentsBounded, Active, Held
<1>6. ASSUME NEW q \in Req, JobCancelled(q) PROVE QueueIInv'
  <2>1. gone \subseteq gone' /\ gone' \subseteq Req
    BY <1>6, Zenon DEF JobCancelled, QueueTypeInv
  <2> QED BY <1>6, <2>1, Zenon DEF JobCancelled, QueueTypeInv, OneHolder, HolderOwes, AgentsBounded, Active, Held
<1>7. ASSUME NEW e \in retry_list, Older(e) PROVE QueueIInv'
  <2> DEFINE f == [e EXCEPT !.age = @ + 1]
  <2>1. f \in Rec /\ f.pos = e.pos /\ Same(f, e)
    BY DEF QueueTypeInv, Rec, Same
  <2>2. retry_list' = (retry_list \ {e}) \cup {f}
    BY <1>7, Zenon DEF Older
  <2>3. UNCHANGED <<agents, agent_cnt, caller, gone, shutdown, owed>>
    BY <1>7, Zenon DEF Older
  <2> HIDE DEF f
  <2>4. QueueTypeInv'
    BY <2>1, <2>2, <2>3, Zenon DEF QueueTypeInv, Active
  <2>5. OneHolder'
    BY <2>1, <2>2, <2>3, SMTT(30) DEF OneHolder, OneRecord, Same
  <2>6. HolderOwes'
    <3>1. ASSUME ~shutdown, NEW q \in Req \ gone
          PROVE  /\ \A h \in Held(q)' : h.nodes = owed[q]
                 /\ owed[q] # {} => Held(q)' # {}
      BY <2>1, <2>2, <2>3, <3>1, SMTT(30) DEF HolderOwes, Held, Same
    <3> QED BY <2>3, <3>1, Zenon DEF HolderOwes
  <2> QED BY <2>3, <2>4, <2>5, <2>6, Zenon DEF AgentsBounded, Active
<1>8. ASSUME NEW a \in agents, OneAgent(a) PROVE QueueIInv'
  BY <1>8, StartStep, WaitStep, SendStep, CleanupStep, Zenon DEF OneAgent
<1>9. CASE Shutdown
  BY <1>9, Zenon DEF Shutdown, QueueTypeInv, OneHolder, HolderOwes, AgentsBounded, Active
<1>10. CASE Agent_purge
  BY <1>10, Zenon DEF Agent_purge, QueueTypeInv, OneHolder, OneRecord, HolderOwes, AgentsBounded, Active
<1>11. CASE UNCHANGED queueVars
  BY <1>11, Zenon DEF queueVars, QueueTypeInv, OneHolder, HolderOwes, AgentsBounded, Active, Held
<1> QED
  BY <1>1, <1>2, <1>3, <1>4, <1>5, <1>6, <1>7, <1>8, <1>9, <1>10, <1>11, Zenon DEF QueueNext

(***************************************************************************)
(* QueueIInv always holds.                                                 *)
(***************************************************************************)
LEMMA Always == QueueSpec => []QueueIInv
<1>1. QueueInit => QueueIInv
  <2> SUFFICES ASSUME QueueInit PROVE QueueIInv
    BY Zenon
  <2>1. Active = {} /\ \A q \in Req : Held(q) = {}
    BY Zenon DEF QueueInit, Active, Held
  <2>2. QueueTypeInv
    BY <2>1, FS_EmptySet, Zenon DEF QueueInit, QueueTypeInv
  <2>3. OneHolder
    BY Zenon DEF QueueInit, OneHolder, OneRecord
  <2>4. HolderOwes
    BY <2>1, Zenon DEF QueueInit, HolderOwes
  <2>5. AgentsBounded
    BY <2>1, FS_EmptySet, AgentQueueAssumption DEF QueueInit, AgentsBounded
  <2> QED BY <2>2, <2>3, <2>4, <2>5, Zenon DEF QueueIInv
<1> QED BY <1>1, StepKeeps, PTL DEF QueueSpec

(***************************************************************************)
(* agent_cnt counts the agents that work, and before the shutdown there    *)
(* are no more than MAX_AGENT_CNT of them, for any requests, nodes and     *)
(* MAX_AGENT_CNT.                                                          *)
(***************************************************************************)
THEOREM AgentsAreBounded == QueueSpec => []AgentsBounded
<1>1. QueueIInv => AgentsBounded
  BY Zenon DEF QueueIInv
<1> QED BY <1>1, Always, PTL

(***************************************************************************)
(* Until the shutdown each node a request is owed to is in one record of   *)
(* retry_list or with one agent, for any requests and nodes and however    *)
(* often nodes do not answer.                                              *)
(***************************************************************************)
THEOREM RequestsHeldOnce == QueueSpec => []EachNodeOnce
<1>1. QueueIInv => EachNodeOnce
  <2> SUFFICES ASSUME QueueIInv, ~shutdown, NEW q \in Req \ gone
               PROVE  /\ UNION {h.nodes : h \in Held(q)} = owed[q]
                      /\ \A g, h \in Held(q) : g # h => g.nodes \cap h.nodes = {}
    BY Zenon DEF EachNodeOnce
  <2> USE DEF QueueIInv
  <2>1. \A g, h \in Held(q) : g = h
    BY SMTT(30) DEF Held, OneHolder, OneRecord
  <2>2. (\A h \in Held(q) : h.nodes = owed[q]) /\ (owed[q] # {} => Held(q) # {})
    BY Zenon DEF HolderOwes
  <2>3. UNION {h.nodes : h \in Held(q)} = owed[q]
    BY <2>2, Zenon
  <2> QED BY <2>1, <2>3, Zenon
<1> QED BY <1>1, Always, PTL
=============================================================================
