------------------------- MODULE JobLaunchExclusive -------------------------
(***************************************************************************)
(* Proof that the compare-and-swap protocol of JobLaunch never hands a     *)
(* node out twice, that it implements the pool of nodes of NodePool, and   *)
(* that main waits for all jobs, for every set of controllers, nodes and   *)
(* jobs, when the completion of a step is delivered once.                  *)
(***************************************************************************)
EXTENDS JobLaunchHoldings, JobLaunchPool, FiniteSetTheorems

\* No node is ever in two places: twice among the idle nodes, idle and held by a
\* job, or held by two jobs, however the compare-and-swaps of allocate_res and
\* release_res interleave, for jobs of any size, controllers that crash, and
\* releases that lose nodes.  A second delivery of a completion would break it,
\* hence the hypothesis.
THEOREM NodesAreExclusive ==
  ASSUME MaxDelivery = 1 PROVE Spec => []NodeExclusive
<1>1. Init => IInv /\ XInv
  BY InitInv, XInit, Zenon
<1>2. IInv /\ XInv /\ [Next]_vars => IInv' /\ XInv'
  BY NextInv, XNext, Zenon
<1>3. XInv => NodeExclusive
  BY Zenon DEF XInv
<1> QED BY <1>1, <1>2, <1>3, PTL DEF Spec
-----------------------------------------------------------------------------
(***************************************************************************)
(* The refinement of NodePool.                                             *)
(***************************************************************************)
\* Who owns a node.
OwnerTable ==
  \A n \in Node :
    /\ n \in AllFree => Owner(n) = "idle"
    /\ \A j \in Job : n \in Holds(j) => n \notin AllFree /\ Owner(n) = j
    /\ n \notin AllFree /\ (\A j \in Job : n \notin Holds(j)) =>
         Owner(n) = IF res[home[n]] = NoRes THEN "unregistered" ELSE "lost"
    /\ Owner(n) \in Job \cup {"unregistered", "idle", "lost"}

\* The refinement mapping gives every node the owner it has in this table.
LEMMA Owners == NodeExclusive => OwnerTable
<1> SUFFICES ASSUME NodeExclusive, NEW n \in Node
             PROVE  /\ n \in AllFree => Owner(n) = "idle"
                    /\ \A j \in Job : n \in Holds(j) => n \notin AllFree /\ Owner(n) = j
                    /\ n \notin AllFree /\ (\A j \in Job : n \notin Holds(j)) =>
                         Owner(n) = IF res[home[n]] = NoRes THEN "unregistered" ELSE "lost"
                    /\ Owner(n) \in Job \cup {"unregistered", "idle", "lost"}
  BY Zenon DEF OwnerTable
<1>1. n \in AllFree <=> \E c \in Ctrl : n \in Free(c)
  BY Zenon DEF AllFree
<1>2. CASE n \in AllFree
  <2>1. \A j \in Job : n \notin Holds(j)
    BY <1>1, <1>2, Zenon DEF NodeExclusive
  <2>2. Owner(n) = "idle"
    BY <1>1, <1>2, Zenon DEF Owner
  <2> QED BY <1>2, <2>1, <2>2, Zenon
<1>3. CASE n \notin AllFree /\ \E j \in Job : n \in Holds(j)
  <2>1. PICK j \in Job : n \in Holds(j)
    BY <1>3, Zenon
  <2>2. \A m \in Job : n \in Holds(m) => m = j
    BY <2>1, Zenon DEF NodeExclusive
  <2>3. Owner(n) = CHOOSE m \in Job : n \in Holds(m)
    BY <1>1, <1>3, Zenon DEF Owner
  <2>4. Owner(n) = j
    BY <2>1, <2>2, <2>3, Zenon
  <2> QED BY <1>3, <2>1, <2>2, <2>4, Zenon
<1>4. CASE n \notin AllFree /\ \A j \in Job : n \notin Holds(j)
  <2>1. Owner(n) = IF res[home[n]] = NoRes THEN "unregistered" ELSE "lost"
    BY <1>1, <1>4, Zenon DEF Owner
  <2> QED BY <1>4, <2>1, Zenon
<1> QED BY <1>2, <1>3, <1>4, Zenon

\* Only nodes of partitions that have come up are idle or owned by a job.
LEMMA OwnedAreUp ==
  ASSUME IInv, XInv, NEW n \in Node, n \in AllFree \/ \E j \in Job : n \in Holds(j)
  PROVE  res[home[n]] # NoRes
<1>1. PICK c \in Ctrl : n \in Range(Partition[c]) /\ res[c] # NoRes
  <2>1. CASE n \in AllFree
    BY <2>1, Zenon DEF AllFree, Free, IInv, ResourceStringsSound
  <2>2. CASE \E j \in Job : n \in Holds(j)
    BY <2>2, Zenon DEF XInv, JobOK, Known
  <2> QED BY <2>1, <2>2, Zenon
<1>2. home[n] = c
  <2>1. n \in Range(Partition[home[n]]) /\ home[n] \in Ctrl
    BY PartitionAssumption, Zenon
  <2> QED BY <2>1, <1>1, FreeDisjoint, Zenon
<1> QED BY <1>1, <1>2, Zenon

\* The nodes whose owner changes in a step, and their owners.
LEMMA Changes ==
  ASSUME IInv, XInv, OwnerTable, OwnerTable', PoolStep
  PROVE  \/ \A n \in Node : Owner(n)' # Owner(n) =>
               Owner(n) = "unregistered" /\ Owner(n)' = "idle"
         \/ \E j \in Job : \A n \in Node : Owner(n)' # Owner(n) =>
               Owner(n) = "idle" /\ Owner(n)' = j
         \/ \E j \in Job : \A n \in Node : Owner(n)' # Owner(n) =>
               Owner(n) = j /\ Owner(n)' = "idle"
         \/ \E o \in Job \cup {"idle"} : \A n \in Node : Owner(n)' # Owner(n) =>
               Owner(n) = o /\ Owner(n)' = "lost"
<1>0. \A n \in Node : home[n] \in Ctrl /\ n \in Range(Partition[home[n]])
  BY PartitionAssumption, Zenon
<1>1. ASSUME NEW c \in Ctrl, ComesUp(c)
      PROVE  \A n \in Node : Owner(n)' # Owner(n) =>
               Owner(n) = "unregistered" /\ Owner(n)' = "idle"
  <2> SUFFICES ASSUME NEW n \in Node, Owner(n)' # Owner(n)
               PROVE  Owner(n) = "unregistered" /\ Owner(n)' = "idle"
    BY Zenon
  <2>1. /\ \A m \in Job : Holds(m)' = Holds(m)
        /\ res[c] = NoRes /\ res'[c] # NoRes /\ \A d \in Ctrl \ {c} : res'[d] = res[d]
        /\ AllFree' = AllFree \cup Range(Partition[c])
    BY <1>1, Zenon DEF ComesUp
  <2>2. n \notin AllFree /\ \A m \in Job : n \notin Holds(m)
    BY <2>1 DEF OwnerTable
  <2>3. home[n] = c
    BY <2>1, <2>2, <1>0, FreeDisjoint DEF OwnerTable
  <2>4. n \in AllFree'
    BY <2>1, <2>3, <1>0, Zenon
  <2> QED BY <2>1, <2>2, <2>3, <2>4, Zenon DEF OwnerTable
<1>2. ASSUME NEW j \in Job, HandOver(j)
      PROVE  \/ \A n \in Node : Owner(n)' # Owner(n) =>
                   Owner(n) = "idle" /\ Owner(n)' = j
             \/ \A n \in Node : Owner(n)' # Owner(n) =>
                   Owner(n) = j /\ Owner(n)' = "idle"
             \/ \E o \in {j, "idle"} : \A n \in Node : Owner(n)' # Owner(n) =>
                   Owner(n) = o /\ Owner(n)' = "lost"
  <2>1. /\ \A m \in Job \ {j} : Holds(m)' = Holds(m)
        /\ \A n \in Node : res'[home[n]] = NoRes <=> res[home[n]] = NoRes
    BY <1>0, <1>2, Zenon DEF HandOver
  <2>2. ASSUME NEW n \in Node, n \notin AllFree, n \notin Holds(j),
               n \notin AllFree', n \notin Holds(j)'
        PROVE  Owner(n)' = Owner(n)
    <3>1. CASE \E m \in Job \ {j} : n \in Holds(m)
      BY <3>1, <2>1 DEF OwnerTable
    <3>2. CASE \A m \in Job \ {j} : n \notin Holds(m)
      <4>1. \A m \in Job : n \notin Holds(m) /\ n \notin Holds(m)'
        BY <3>2, <2>1, <2>2, Zenon
      <4> QED BY <4>1, <2>1, <2>2 DEF OwnerTable
    <3> QED BY <3>1, <3>2, Zenon
  <2>3. \A n \in Node : /\ n \in AllFree \cap AllFree' => Owner(n)' = Owner(n)
                        /\ n \in Holds(j) \cap Holds(j)' => Owner(n)' = Owner(n)
    BY DEF OwnerTable
  <2>4. ASSUME NEW n \in Node, n \in AllFree \cup Holds(j),
               n \notin AllFree', n \notin Holds(j)'
        PROVE  Owner(n)' = "lost"
    <3>1. res'[home[n]] # NoRes
      BY <2>1, <2>4, OwnedAreUp, Zenon
    <3>2. \A m \in Job : n \notin Holds(m)'
      <4> SUFFICES ASSUME NEW m \in Job \ {j}, n \in Holds(m) PROVE FALSE
        BY <2>1, <2>4, Zenon
      <4>1. n \notin AllFree /\ Owner(n) = m
        BY Zenon DEF OwnerTable
      <4>2. n \in Holds(j) => Owner(n) = j
        BY Zenon DEF OwnerTable
      <4> QED BY <4>1, <4>2, <2>4, Zenon
    <3> QED BY <2>4, <3>1, <3>2, Zenon DEF OwnerTable
  <2>5. CASE AllFree' = AllFree /\ Holds(j)' \subseteq Holds(j)
    <3>1. ASSUME NEW n \in Node, Owner(n)' # Owner(n)
          PROVE  Owner(n) = j /\ Owner(n)' = "lost"
      <4>1. n \in Holds(j) /\ n \notin Holds(j)' /\ n \notin AllFree'
        BY <3>1, <2>2, <2>3, <2>5, Zenon
      <4> QED BY <4>1, <2>4, Zenon DEF OwnerTable
    <3> QED BY <3>1, Zenon
  <2>6. CASE AllFree \subseteq AllFree' /\ Holds(j) = Holds(j)' \cup (AllFree' \ AllFree)
    <3>1. ASSUME NEW n \in Node, Owner(n)' # Owner(n)
          PROVE  Owner(n) = j /\ Owner(n)' = "idle"
      <4>1. n \in Holds(j) /\ n \in AllFree'
        BY <3>1, <2>2, <2>3, <2>6, Zenon
      <4> QED BY <4>1, Zenon DEF OwnerTable
    <3> QED BY <3>1, Zenon
  <2>7. CASE AllFree' \subseteq AllFree /\ Holds(j)' = Holds(j) \cup (AllFree \ AllFree')
    <3>1. ASSUME NEW n \in Node, Owner(n)' # Owner(n)
          PROVE  Owner(n) = "idle" /\ Owner(n)' = j
      <4>1. n \in AllFree /\ n \in Holds(j)'
        BY <3>1, <2>2, <2>3, <2>7, Zenon
      <4> QED BY <4>1, Zenon DEF OwnerTable
    <3> QED BY <3>1, Zenon
  <2>8. CASE AllFree' \subseteq AllFree /\ Holds(j)' = Holds(j)
    <3>1. ASSUME NEW n \in Node, Owner(n)' # Owner(n)
          PROVE  Owner(n) = "idle" /\ Owner(n)' = "lost"
      <4>1. n \in AllFree /\ n \notin AllFree' /\ n \notin Holds(j)'
        BY <3>1, <2>2, <2>3, <2>8, Zenon DEF OwnerTable
      <4> QED BY <4>1, <2>4, Zenon DEF OwnerTable
    <3> QED BY <3>1, Zenon
  <2> QED BY <1>2, <2>5, <2>6, <2>7, <2>8, Zenon DEF HandOver
<1>3. CASE res' = res /\ \A m \in Job : Holds(m)' = Holds(m)
  <2>1. AllFree' = AllFree
    BY <1>3, Zenon DEF AllFree, Free
  <2>2. \A n \in Node : Owner(n)' = Owner(n)
    BY <2>1, <1>3 DEF OwnerTable
  <2> QED BY <2>2, Zenon
<1> QED BY <1>1, <1>2, <1>3 DEF PoolStep

\* The launch protocol implements the pool of nodes of NodePool: in one step
\* nodes go from the idle ones to one job or from one job back, or get lost, and
\* never from a job to another.
THEOREM LaunchImplementsPool ==
  ASSUME MaxDelivery = 1 PROVE Spec => ImplementsNodePool
<1> DEFINE owner == [n \in Node |-> Owner(n)]
<1>1. Init => Pool!Init
  <2> SUFFICES ASSUME Init PROVE Pool!Init
    BY Zenon
  <2>1. XInv /\ OwnerTable
    BY XInit, Owners, Zenon DEF XInv
  <2>2. \A c \in Ctrl : res[c] = NoRes
    BY Zenon DEF Init
  <2>3. \A n \in Node : Owner(n) = "unregistered"
    <3> SUFFICES ASSUME NEW n \in Node PROVE Owner(n) = "unregistered"
      BY Zenon
    <3>1. home[n] \in Ctrl
      BY PartitionAssumption, Zenon
    <3>2. n \notin AllFree /\ \A j \in Job : n \notin Holds(j)
      BY <3>1, <2>1, <2>2, InitInv, OwnedAreUp, Zenon
    <3> QED BY <3>1, <3>2, <2>1, <2>2, Zenon DEF OwnerTable
  <2> QED BY <2>3, Zenon DEF Pool!Init
<1>2. IInv /\ XInv /\ [Next]_vars => IInv' /\ XInv' /\ PoolStep
  BY NextInv, XNext, Zenon
<1>3. XInv => OwnerTable
  BY Owners, Zenon DEF XInv
<1>4. IInv /\ XInv /\ OwnerTable /\ OwnerTable' /\ PoolStep => [Pool!Next]_owner
  <2> SUFFICES ASSUME IInv, XInv, OwnerTable, OwnerTable', PoolStep PROVE [Pool!Next]_owner
    BY Zenon
  <2>1. owner' \in [Node -> Job \cup {"unregistered", "idle", "lost"}]
    BY Zenon DEF OwnerTable
  <2>2. \A n \in Node : owner'[n] = Owner(n)' /\ owner[n] = Owner(n)
    BY Zenon
  <2> QED BY <2>1, <2>2, Changes, Zenon
          DEF Pool!Next, Pool!Register, Pool!Take, Pool!GiveBack, Pool!Lose, Pool!Move
<1>5. Init => IInv /\ XInv
  BY InitInv, XInit, Zenon
<1> QED BY <1>1, <1>2, <1>3, <1>4, <1>5, PTL DEF Spec, ImplementsNodePool, Pool!Spec
-----------------------------------------------------------------------------
(***************************************************************************)
(* The counters main waits for.                                            *)
(***************************************************************************)
\* The jobs of c that have been counted or are about to be: given up, ended
\* here, or ended elsewhere and notified.
Ended(c) ==
  {j \in Job : /\ origin[j] = c
               /\ \/ pc[Run(j)] = "failed"
                  \/ pc[<<j, 1>>] = "done" /\ dest[j] = origin[j]
                  \/ pc[Run(j)] = "done" /\ dest[j] # origin[j] /\ j \in finished}

\* A notification comes from the handler of a completion at another controller,
\* and every job is counted once.
CInv ==
  /\ \A j \in Job :
       /\ j \in finished => dest[j] \notin {None, origin[j]} /\ pc[<<j, 1>>] = "done"
       /\ pc[Run(j)] = "count" => j \in finished
  /\ \A c \in Ctrl : num_job_fin[c] + num_job_fail[c] <= Cardinality(Ended(c))

\* What no step takes back.
Forward ==
  /\ \A t \in Thread : pc[t] \in {"done", "failed"} => pc'[t] = pc[t]
  /\ \A j \in Job : dest[j] # None => dest'[j] = dest[j]
  /\ finished \subseteq finished'
  /\ \A j \in finished' \ finished :
       dest[j] \notin {None, origin[j]} /\ pc'[<<j, 1>>] = "done"
  /\ \A j \in Job : pc'[Run(j)] = "count" => pc[Run(j)] = "count" \/ j \in finished

\* A counter moves when a job ends that had not ended before.
Tally ==
  \/ UNCHANGED <<num_job_fin, num_job_fail>>
  \/ \E j \in Job :
       /\ j \notin Ended(origin[j]) /\ j \in Ended(origin[j])'
       /\ \/ /\ num_job_fin' = [num_job_fin EXCEPT ![origin[j]] = @ + 1]
             /\ UNCHANGED num_job_fail
          \/ /\ num_job_fail' = [num_job_fail EXCEPT ![origin[j]] = @ + 1]
             /\ UNCHANGED num_job_fin

\* A step of one thread that is neither at its end nor about to count.
LEMMA OneThread ==
  ASSUME IInv, NEW t \in Thread, NEW label, pc' = [pc EXCEPT ![t] = label],
         pc[t] \notin {"done", "failed"}, label # "count",
         UNCHANGED <<finished, dest>>
  PROVE  Forward
<1>1. pc \in [Thread -> Label]
  BY Zenon DEF IInv, TypeOK
<1>2. \A s \in Thread : pc'[s] = IF s = t THEN label ELSE pc[s]
  BY <1>1, Zenon
<1>3. \A j \in Job : Run(j) \in Thread
  BY Threads, Zenon
<1> QED BY <1>2, <1>3, Zenon DEF Forward

\* A step that moves no thread.
LEMMA NoThread ==
  ASSUME UNCHANGED <<pc, finished, dest>>
  PROVE  Forward
BY Zenon DEF Forward

\* The steps of the thread of a job.
LEMMA JobForward ==
  ASSUME MaxDelivery = 1, IInv, CInv, NEW j \in Job,
         JobThread(j) \/ \E c \in Ctrl : Draw(j, c)
  PROVE  Forward /\ Tally
<1> DEFINE t == Run(j)
<1>1. /\ TypeOK /\ t \in Thread /\ origin[j] \in Ctrl /\ RunOK(j)
      /\ pc \in [Thread -> Label] /\ pc[t] \in Label
  BY RunFacts, Zenon DEF TypeOK
<1>2. ASSUME NEW label, Goto(t, label), pc[t] \notin {"done", "failed"},
             label # "count", UNCHANGED <<finished, dest>>
      PROVE  Forward
  <2>1. pc' = [pc EXCEPT ![t] = label]
    BY <1>2, Zenon DEF Goto
  <2> HIDE DEF t
  <2> QED BY <2>1, <1>1, <1>2, OneThread, Zenon
<1>3. ASSUME UNCHANGED <<num_job_fin, num_job_fail>> PROVE Tally
  BY <1>3, Zenon DEF Tally
<1>4. ASSUME JobTooLarge(j) PROVE Forward /\ Tally
  <2>1. /\ pc[t] = "idle" /\ Goto(t, "failed") /\ UNCHANGED <<finished, dest>>
        /\ num_job_fail' = [num_job_fail EXCEPT ![origin[j]] = @ + 1]
        /\ UNCHANGED num_job_fin
    BY <1>4, Zenon DEF JobTooLarge
  <2>2. pc'[t] = "failed" /\ dest[j] = None
    BY <2>1, <1>1, Zenon DEF Goto, RunOK, Launched
  <2>3. j \in Ended(origin[j])'
    BY <2>2, Zenon DEF Ended
  <2>4. j \notin Ended(origin[j])
    BY <2>1, <2>2, <1>1, Sizes DEF Ended
  <2>5. Tally
    BY <2>1, <2>3, <2>4, Zenon DEF Tally
  <2> QED BY <2>1, <2>5, <1>2
<1>5. ASSUME JobStart(j) PROVE Forward /\ Tally
  <2>1. /\ pc[t] = "idle" /\ Goto(t, "lookup")
        /\ UNCHANGED <<finished, dest, num_job_fin, num_job_fail>>
    BY <1>5, Zenon DEF JobStart
  <2> QED BY <2>1, <1>2, <1>3, Zenon
<1>6. ASSUME AllocLookup(j) PROVE Forward /\ Tally
  <2>1. /\ pc[t] = "lookup" /\ Goto(t, "swap")
        /\ UNCHANGED <<finished, dest, num_job_fin, num_job_fail>>
    BY <1>6, Zenon DEF AllocLookup
  <2> QED BY <2>1, <1>2, <1>3, Zenon
<1>7. ASSUME AllocNotRegistered(j) \/ AllocEmpty(j) PROVE Forward /\ Tally
  <2>1. pc[t] \in {"lookup", "swap"} /\ FailedTry(j)
    BY <1>7, Zenon DEF AllocNotRegistered, AllocEmpty
  <2>2. /\ UNCHANGED <<finished, dest, num_job_fin, num_job_fail>>
        /\ \E label \in {"release", "draw"} : Goto(t, label)
    BY <2>1, Zenon DEF FailedTry
  <2> QED BY <2>1, <2>2, <1>2, <1>3, Zenon
<1>8. ASSUME AllocSwap(j) PROVE Forward /\ Tally
  <2>1. /\ pc[t] = "swap" /\ UNCHANGED <<finished, dest, num_job_fin, num_job_fail>>
        /\ Goto(t, "draw") \/ UNCHANGED pc
    BY <1>8, Zenon DEF AllocSwap
  <2> QED BY <2>1, <1>2, <1>3, NoThread, Zenon
<1>9. ASSUME AllocStale(j) PROVE Forward /\ Tally
  <2>1. UNCHANGED <<pc, finished, dest, num_job_fin, num_job_fail>>
    BY <1>9, Zenon DEF AllocStale
  <2> QED BY <2>1, <1>3, NoThread, Zenon
<1>10. ASSUME ResetJob(j) PROVE Forward /\ Tally
  <2>1. /\ pc[t] = "release" /\ Goto(t, "draw")
        /\ UNCHANGED <<finished, dest, num_job_fin, num_job_fail>>
    BY <1>10, Zenon DEF ResetJob
  <2> QED BY <2>1, <1>2, <1>3, Zenon
<1>11. ASSUME CreateJob(j) PROVE Forward /\ Tally
  <2>1. /\ pc[t] = "draw" /\ UNCHANGED <<finished, dest, num_job_fin, num_job_fail>>
        /\ Goto(t, "launch") \/ UNCHANGED pc
    BY <1>11, Zenon DEF CreateJob
  <2> QED BY <2>1, <1>2, <1>3, NoThread
<1>12. ASSUME Launch(j) PROVE Forward /\ Tally
  <2>1. /\ pc[t] = "launch" /\ Goto(t, "belong")
        /\ UNCHANGED <<finished, num_job_fin, num_job_fail>>
        /\ dest' = [dest EXCEPT ![j] = reports_to(info[j])]
    BY <1>12, Zenon DEF Launch
  <2>2. dest[j] = None /\ dest \in [Job -> Ctrl \cup {None}]
    BY <2>1, <1>1, Zenon DEF RunOK, Launched, TypeOK
  <2>3. \A m \in Job : dest[m] # None => dest'[m] = dest[m]
    BY <2>1, <2>2, Zenon
  <2>4. \A s \in Thread : pc'[s] = IF s = t THEN "belong" ELSE pc[s]
    BY <2>1, <1>1, Zenon DEF Goto
  <2>5. Forward
    BY <2>1, <2>3, <2>4, Threads, Zenon DEF Forward
  <2> QED BY <2>1, <2>5, <1>3
<1>13. ASSUME BelongsHere(j) PROVE Forward /\ Tally
  <2>1. /\ pc[t] = "belong" /\ UNCHANGED <<finished, dest, num_job_fin, num_job_fail>>
        /\ \E label \in {"done", "wait"} : Goto(t, label)
    BY <1>13, Zenon DEF BelongsHere
  <2> QED BY <2>1, <1>2, <1>3, Zenon
<1>14. ASSUME Notified(j) PROVE Forward /\ Tally
  <2>1. /\ pc[t] = "wait" /\ UNCHANGED <<finished, dest, num_job_fin, num_job_fail>>
        /\ j \in finished /\ \E label \in {"count", "done"} : Goto(t, label)
    BY <1>14, Zenon DEF Notified
  <2>2. \A s \in Thread : s # t => pc'[s] = pc[s]
    BY <2>1, <1>1, Zenon DEF Goto
  <2>3. \A m \in Job : Run(m) \in Thread /\ (Run(m) = t => m = j)
    BY Threads, Zenon
  <2>4. Forward
    BY <2>1, <2>2, <2>3, Zenon DEF Forward
  <2> QED BY <2>1, <2>4, <1>3, Zenon
<1>15. ASSUME CountNotified(j) PROVE Forward /\ Tally
  <2>1. /\ pc[t] = "count" /\ Goto(t, "done") /\ UNCHANGED <<finished, dest>>
        /\ num_job_fin' = [num_job_fin EXCEPT ![origin[j]] = @ + 1]
        /\ UNCHANGED num_job_fail
    BY <1>15, Zenon DEF CountNotified
  <2>2. pc'[t] = "done" /\ j \in finished /\ dest[j] # origin[j]
    BY <2>1, <1>1, Zenon DEF Goto, CInv
  <2>3. j \in Ended(origin[j])'
    BY <2>1, <2>2, Zenon DEF Ended
  <2>4. j \notin Ended(origin[j])
    BY <2>1, <2>2, Zenon DEF Ended
  <2>5. Tally
    BY <2>1, <2>3, <2>4, Zenon DEF Tally
  <2> QED BY <2>1, <2>5, <1>2, Zenon
<1>16. ASSUME NEW c \in Ctrl, Draw(j, c) PROVE Forward /\ Tally
  <2>1. /\ pc[t] = "draw" /\ Goto(t, "lookup")
        /\ UNCHANGED <<finished, dest, num_job_fin, num_job_fail>>
    BY <1>16, Zenon DEF Draw
  <2> QED BY <2>1, <1>2, <1>3, Zenon
<1> QED BY <1>4, <1>5, <1>6, <1>7, <1>8, <1>9, <1>10, <1>11, <1>12, <1>13, <1>14,
           <1>15, <1>16 DEF JobThread, Allocate

\* The steps of the handler of a completion.
LEMMA HandlerForward ==
  ASSUME MaxDelivery = 1, IInv, CInv, NEW j \in Job, NEW k \in 1 .. MaxDelivery,
         Handler(j, k)
  PROVE  Forward /\ Tally
<1> DEFINE t == <<j, 1>>
<1>1. /\ k = 1 /\ t \in Thread /\ pc \in [Thread -> Label] /\ TypeOK /\ RunOK(j)
      /\ HandlerOK(j, 1) /\ origin[j] \in Ctrl /\ Run(j) \in Thread /\ Run(j) # t
  BY RunFacts, Threads DEF IInv, TypeOK, HandlerInv
<1>2. pc[t] # "idle" => dest[j] # None /\ pc[Run(j)] # "failed"
  BY <1>1, Zenon DEF HandlerOK, RunOK, Launched
<1>3. ASSUME StepComplete(j, k) PROVE Forward /\ Tally
  <2>1. /\ pc[t] = "idle" /\ pc' = [pc EXCEPT ![t] = "release"]
        /\ UNCHANGED <<finished, dest, num_job_fin, num_job_fail>>
    BY <1>1, <1>3, Zenon DEF StepComplete, Goto
  <2>2. Tally
    BY <2>1, Zenon DEF Tally
  <2> HIDE DEF t
  <2> QED BY <2>1, <2>2, <1>1, OneThread, Zenon
<1>4. ASSUME CountHere(j, k) PROVE Forward /\ Tally
  <2>1. /\ pc[t] = "release" /\ pc' = [pc EXCEPT ![t] = "done"] /\ dest[j] = origin[j]
        /\ num_job_fin' = [num_job_fin EXCEPT ![origin[j]] = @ + 1]
        /\ UNCHANGED <<finished, dest, num_job_fail>>
    BY <1>1, <1>4, Zenon DEF CountHere, Goto
  <2>2. j \in Ended(origin[j])'
    BY <2>1, <1>1, Zenon DEF Ended
  <2>3. j \notin Ended(origin[j])
    BY <2>1, <1>2, Zenon DEF Ended
  <2>4. Tally
    BY <2>1, <2>2, <2>3, Zenon DEF Tally
  <2> HIDE DEF t
  <2> QED BY <2>1, <2>4, <1>1, OneThread, Zenon
<1>5. ASSUME NotifyOrigin(j, k) PROVE Forward /\ Tally
  <2>1. /\ pc[t] = "release" /\ pc' = [pc EXCEPT ![t] = "done"] /\ dest[j] # origin[j]
        /\ finished' = finished \cup {j}
        /\ UNCHANGED <<dest, num_job_fin, num_job_fail>>
    BY <1>1, <1>5, Zenon DEF NotifyOrigin, Goto
  <2>2. \A s \in Thread : pc'[s] = IF s = t THEN "done" ELSE pc[s]
    BY <2>1, <1>1, Zenon
  <2>3. dest[j] # None
    BY <2>1, <1>2, Zenon
  <2>4. \A m \in Job : Run(m) \in Thread
    BY Threads, Zenon
  <2>5. Forward
    BY <2>1, <2>2, <2>3, <2>4, <1>1, Zenon DEF Forward
  <2>6. Tally
    BY <2>1, Zenon DEF Tally
  <2> QED BY <2>5, <2>6, Zenon
<1> QED BY <1>3, <1>4, <1>5, Zenon DEF Handler

\* The steps of release_res, of a registration, and a stutter.
LEMMA NextForward ==
  ASSUME MaxDelivery = 1, IInv, CInv, [Next]_vars
  PROVE  Forward /\ Tally
<1>1. ASSUME NEW c \in Ctrl, Register(c) PROVE Forward /\ Tally
  <2>1. UNCHANGED <<pc, finished, dest, num_job_fin, num_job_fail>>
    BY <1>1, Zenon DEF Register
  <2> QED BY <2>1, NoThread, Zenon DEF Tally
<1>2. ASSUME NEW t \in Thread, Release(t) PROVE Forward /\ Tally
  <2>1. /\ pc[t] \in {"release", "giveback"}
        /\ UNCHANGED <<finished, dest, num_job_fin, num_job_fail>>
        /\ UNCHANGED pc \/ \E label \in {"release", "giveback"} : pc' = [pc EXCEPT ![t] = label]
    BY <1>2, Zenon DEF Release, ReleaseLookup, ReleaseSwap, ReleaseStale, Releasing, Goto
  <2>2. Tally
    BY <2>1, Zenon DEF Tally
  <2> QED BY <2>1, <2>2, NoThread, OneThread, Zenon
<1>3. CASE UNCHANGED vars
  BY <1>3, NoThread, Zenon DEF vars, Tally
<1> QED BY <1>1, <1>2, <1>3, JobForward, HandlerForward DEF Next

\* Such a step keeps every counter below the number of ended jobs.
LEMMA CountersKept ==
  ASSUME MaxDelivery = 1, IInv, IInv', CInv, Forward, Tally
  PROVE  CInv'
<1>1. \A j \in Job : Run(j) \in Thread /\ <<j, 1>> \in Thread /\ origin[j] \in Ctrl
  <2>1. 1 \in 1 .. MaxDelivery
    OBVIOUS
  <2> QED BY <2>1, Threads, Sizes, Zenon
<1>2. ASSUME NEW j \in Job
      PROVE  /\ j \in finished' => dest'[j] \notin {None, origin[j]} /\ pc'[<<j, 1>>] = "done"
             /\ pc'[Run(j)] = "count" => j \in finished'
  BY <1>1, Zenon DEF Forward, CInv
<1>3. ASSUME NEW c \in Ctrl
      PROVE  /\ Ended(c) \subseteq Ended(c)' /\ IsFiniteSet(Ended(c)')
             /\ IsFiniteSet(Ended(c))
             /\ Cardinality(Ended(c)) \in Nat /\ Cardinality(Ended(c)') \in Nat
  <2>1. ASSUME NEW j \in Ended(c) PROVE j \in Ended(c)'
    <3>1. CASE pc[Run(j)] = "failed"
      BY <3>1, <1>1, Zenon DEF Ended, Forward
    <3>2. CASE pc[<<j, 1>>] = "done" /\ dest[j] = origin[j]
      <4>1. dest[j] # None
        BY <3>2, <1>1, Sizes, Zenon DEF Ended
      <4> QED BY <4>1, <3>2, <1>1, Zenon DEF Ended, Forward
    <3>3. CASE pc[Run(j)] = "done" /\ dest[j] # origin[j] /\ j \in finished
      BY <3>3, <1>1, Zenon DEF Ended, Forward, CInv
    <3> QED BY <3>1, <3>2, <3>3, Zenon DEF Ended
  <2>2. Ended(c) \subseteq Job /\ Ended(c)' \subseteq Job /\ IsFiniteSet(Job)
    BY JobAssumption, Zenon DEF Ended
  <2>3. IsFiniteSet(Ended(c)) /\ IsFiniteSet(Ended(c)')
    BY <2>2, FS_Subset, Zenon
  <2> QED BY <2>1, <2>3, FS_CardinalityType, Zenon
<1>4. ASSUME NEW c \in Ctrl
      PROVE  num_job_fin'[c] + num_job_fail'[c] <= Cardinality(Ended(c)')
  <2> DEFINE E == Ended(c)
             F == Ended(c)'
  <2>1. /\ num_job_fin \in [Ctrl -> Nat] /\ num_job_fail \in [Ctrl -> Nat]
        /\ num_job_fin[c] + num_job_fail[c] <= Cardinality(E)
    BY Zenon DEF IInv, TypeOK, CInv
  <2>2. /\ E \subseteq F /\ IsFiniteSet(E) /\ IsFiniteSet(F)
        /\ Cardinality(E) \in Nat /\ Cardinality(F) \in Nat
    BY <1>3, Zenon
  <2> SUFFICES num_job_fin'[c] + num_job_fail'[c] <= Cardinality(F)
    BY Zenon
  <2> HIDE DEF E, F
  <2>3. Cardinality(E) <= Cardinality(F)
    BY <2>2, FS_Subset, Zenon
  <2>4. CASE num_job_fin'[c] = num_job_fin[c] /\ num_job_fail'[c] = num_job_fail[c]
    BY <2>1, <2>2, <2>3, <2>4
  <2>5. ASSUME NEW j \in Job, j \notin E, j \in F PROVE Cardinality(E) + 1 <= Cardinality(F)
    <3>1. E \cup {j} \in SUBSET F /\ Cardinality(E \cup {j}) = Cardinality(E) + 1
      BY <2>2, <2>5, FS_AddElement, Zenon
    <3> QED BY <3>1, <2>2, FS_Subset, Zenon
  <2>6. CASE \E j \in Job :
               /\ j \notin Ended(origin[j]) /\ j \in Ended(origin[j])'
               /\ \/ /\ num_job_fin' = [num_job_fin EXCEPT ![origin[j]] = @ + 1]
                     /\ UNCHANGED num_job_fail
                  \/ /\ num_job_fail' = [num_job_fail EXCEPT ![origin[j]] = @ + 1]
                     /\ UNCHANGED num_job_fin
    <3>1. PICK j \in Job :
               /\ j \notin Ended(origin[j]) /\ j \in Ended(origin[j])'
               /\ \/ /\ num_job_fin' = [num_job_fin EXCEPT ![origin[j]] = @ + 1]
                     /\ UNCHANGED num_job_fail
                  \/ /\ num_job_fail' = [num_job_fail EXCEPT ![origin[j]] = @ + 1]
                     /\ UNCHANGED num_job_fin
      BY <2>6, Zenon
    <3>2. CASE origin[j] # c
      BY <3>1, <3>2, <2>1, <2>4, <1>1, Zenon
    <3>3. CASE origin[j] = c
      <4>1. Cardinality(E) + 1 <= Cardinality(F)
        BY <3>1, <3>3, <2>5, Zenon DEF E, F
      <4>2. num_job_fin'[c] + num_job_fail'[c] = num_job_fin[c] + num_job_fail[c] + 1
        BY <3>1, <3>3, <2>1, <1>1
      <4> QED BY <4>1, <4>2, <2>1, <2>2
    <3> QED BY <3>2, <3>3, Zenon
  <2> QED BY <2>4, <2>6, Zenon DEF Tally
<1> QED BY <1>2, <1>4, Zenon DEF CInv

\* "blocked until all jobs are finished" (main): once the counters of a
\* controller let main pass, every job of its workload was given up or its end
\* has been reported, whatever controllers the jobs ended at.  A second delivery
\* of a completion counts a job twice, hence the hypothesis.
THEOREM MainWaits ==
  ASSUME MaxDelivery = 1 PROVE Spec => []MainWaitsForAll
<1>1. Init => CInv
  <2> SUFFICES ASSUME Init PROVE CInv
    BY Zenon
  <2>1. \A c \in Ctrl : num_job_fin[c] = 0 /\ num_job_fail[c] = 0 /\ IsFiniteSet(Ended(c))
    <3>1. \A c \in Ctrl : Ended(c) \subseteq Job
      BY Zenon DEF Ended
    <3> QED BY <3>1, JobAssumption, FS_Subset, Zenon DEF Init
  <2>2. \A c \in Ctrl : Cardinality(Ended(c)) \in Nat
    BY <2>1, FS_CardinalityType, Zenon
  <2>3. \A j \in Job : j \notin finished /\ pc[Run(j)] = "idle"
    BY Threads, Zenon DEF Init
  <2>4. \A c \in Ctrl : num_job_fin[c] + num_job_fail[c] <= Cardinality(Ended(c))
    <3> TAKE c \in Ctrl
    <3> DEFINE n == Cardinality(Ended(c))
    <3>1. n \in Nat /\ num_job_fin[c] = 0 /\ num_job_fail[c] = 0
      BY <2>1, <2>2, Zenon
    <3> HIDE DEF n
    <3>2. num_job_fin[c] + num_job_fail[c] <= n
      BY ONLY <3>1, SMT
    <3> QED BY <3>2, Zenon DEF n
  <2>5. \A j \in Job : pc[Run(j)] # "count"
    BY <2>3, Zenon
  <2> QED BY <2>3, <2>4, <2>5, Zenon DEF CInv
<1>2. IInv /\ CInv /\ [Next]_vars => IInv' /\ CInv'
  BY NextInv, NextForward, CountersKept, Zenon
<1>3. IInv /\ CInv => MainWaitsForAll
  <2> SUFFICES ASSUME IInv, CInv, NEW c \in Ctrl,
                      num_job_fin[c] + num_job_fail[c] >= num_job(c)
               PROVE  \A j \in Job : origin[j] = c =>
                        pc[Run(j)] = "failed" \/ pc[<<j, 1>>] # "idle"
    BY Zenon DEF MainWaitsForAll
  <2> DEFINE E == Ended(c)
             A == {j \in Job : origin[j] = c}
  <2>1. E \in SUBSET A /\ A \in SUBSET Job /\ IsFiniteSet(Job)
    BY JobAssumption, Zenon DEF Ended
  <2>2. /\ num_job_fin[c] \in Nat /\ num_job_fail[c] \in Nat
        /\ num_job_fin[c] + num_job_fail[c] <= Cardinality(E)
        /\ num_job_fin[c] + num_job_fail[c] >= Cardinality(A)
    BY Zenon DEF IInv, TypeOK, CInv, num_job
  <2> HIDE DEF E, A
  <2>3. IsFiniteSet(A) /\ IsFiniteSet(E) /\ Cardinality(E) <= Cardinality(A)
    BY <2>1, FS_Subset, Zenon
  <2>4. Cardinality(A) \in Nat /\ Cardinality(E) \in Nat
    BY <2>3, FS_CardinalityType, Zenon
  <2>5. Cardinality(E) = Cardinality(A)
    BY <2>2, <2>3, <2>4
  <2>6. E = A
    BY <2>1, <2>3, <2>5, FS_Subset
  <2> QED BY <2>6, Zenon DEF E, A, Ended, CInv
<1>4. Init => IInv
  BY InitInv, Zenon
<1> QED BY <1>1, <1>2, <1>3, <1>4, PTL DEF Spec
=============================================================================
