----------------------------- MODULE JobLaunch -----------------------------
(***************************************************************************)
(* Distributed job launch by the SLURM++ controllers.                      *)
(*                                                                         *)
(* Each controller owns a partition of nodes and keeps its idle ones in    *)
(* the shared key-value store ZHT.  The thread of a job takes nodes from   *)
(* the resource string of its own controller or of randomly drawn other    *)
(* ones with compare-and-swap, gives everything back after too many failed *)
(* tries, records the allocation in ZHT, launches the job and waits for    *)
(* its end.  The controller that is told of the end gives the nodes back,  *)
(* and counts the job or notifies the job's own controller through ZHT.    *)
(*                                                                         *)
(* Source: controller/pro_req.c, controller/datastr.c, and the completion  *)
(* handler of controller/controller.c.                                     *)
(***************************************************************************)
EXTENDS FiniteSets, JobRecord

CONSTANTS
  Job,        \* srun lines of all workloads; a job stands for its job id
  part_size,  \* nodes per partition
  origin,     \* the controller whose workload holds the job
  min_nodes,  \* nodes the job asks for
  home,       \* the controller a node is configured with
  MaxDelivery,\* how often the completion of one step may be delivered
  None,       \* no controller
  NoRes       \* no value under a controller's key

ASSUME PartitionAssumption ==
  /\ part_size \in Nat \ {0}
  /\ Partition \in [Ctrl -> Seq(Node)]
  /\ home \in [Node -> Ctrl]
  /\ \A c \in Ctrl : Len(Partition[c]) = part_size
  /\ \A c, d \in Ctrl : \A i, k \in 1 .. part_size :
       Partition[c][i] = Partition[d][k] => c = d /\ i = k
  /\ \A c \in Ctrl : \A i \in 1 .. part_size : home[Partition[c][i]] = c
  /\ \A n \in Node : n \in Range(Partition[home[n]])
  /\ NoRes \notin ResVal(Node)

ASSUME JobAssumption ==
  /\ IsFiniteSet(Job)
  /\ origin \in [Job -> Ctrl]
  /\ min_nodes \in [Job -> Nat \ {0}]
  /\ MaxDelivery \in Nat \ {0}
  /\ None \notin Ctrl

(***************************************************************************)
(* The thread <<j, 0>> launches job j at its origin.  Thread <<j, k>>      *)
(* serves the k-th delivery of its REQUEST_STEP_COMPLETE message, at the   *)
(* controller the message reaches: slurmstepd sends it again until it gets *)
(* an answer.                                                              *)
(***************************************************************************)
Run(j) == <<j, 0>>
Thread == Job \X (0 .. MaxDelivery)

VARIABLES
  res,      \* ZHT: controller id -> resource string, NoRes before the insert
  info,     \* ZHT: what insert_jobinfo_zht stores of a job
  finished, \* ZHT: jobs whose "...Fin" key is "Finished"
  alive,    \* the controller process has not crashed
  pc,       \* where a thread is
  jr,       \* the job_resource structure of a thread
  tgt,      \* ctrl_id in allocate_res
  seen,     \* the resource string a thread last read
  idx,      \* i in the loop of release_res
  dest,     \* the controller that is told of the end of a launched job
  num_job_fin, num_job_fail

vars == <<res, info, finished, alive, pc, jr, tgt, seen, idx, dest,
          num_job_fin, num_job_fail>>

\* The controller process a thread runs in.
At(t) == IF t[2] = 0 THEN origin[t[1]] ELSE dest[t[1]]

num_job(c) == Cardinality({j \in Job : origin[j] = c})
-----------------------------------------------------------------------------
Init ==
  /\ res = [c \in Ctrl |-> NoRes]
  /\ info = [j \in Job |-> [ctrls |-> << >>, alloc |-> [c \in Ctrl |-> << >>],
                            here |-> FALSE]]
  /\ finished = {}
  /\ alive = [c \in Ctrl |-> TRUE]
  /\ pc = [t \in Thread |-> "idle"]
  /\ jr = [t \in Thread |-> init_job_resource]
  /\ tgt = [j \in Job |-> origin[j]]
  /\ seen = [t \in Thread |-> NoRes]
  /\ idx = [t \in Thread |-> 0]
  /\ dest = [j \in Job |-> None]
  /\ num_job_fin = [c \in Ctrl |-> 0]
  /\ num_job_fail = [c \in Ctrl |-> 0]

\* A NULL pointer is dereferenced in a thread of c: the process dies, with
\* all its threads.  ZHT and the other controllers go on.
Crash(c) == alive' = [alive EXCEPT ![c] = FALSE]

Goto(t, label) == pc' = [pc EXCEPT ![t] = label]

\* MUTANT: the new string is stored whatever is there meanwhile.
compare_swap_blind(key, seen_value) == res[key] # NoRes

\* c_zht_compare_swap finds under key the string the thread has read before.
compare_swap(key, seen_value) == res[key] = seen_value

\* The last registration of a partition: its nodes go to ZHT.
Register(c) ==
  /\ res[c] = NoRes
  /\ res' = [res EXCEPT ![c] = [num |-> part_size, nodes |-> Partition[c]]]
  /\ UNCHANGED <<info, finished, alive, pc, jr, tgt, seen, idx, dest,
                 num_job_fin, num_job_fail>>

\* The thread of a job starts, once its controller is ready.
\* A job larger than the whole machine is given up.
JobTooLarge(j) ==
  /\ alive[origin[j]] /\ pc[Run(j)] = "idle" /\ res[origin[j]] # NoRes
  /\ part_size * num_ctrl < min_nodes[j]
  /\ Goto(Run(j), "failed")
  /\ num_job_fail' = [num_job_fail EXCEPT ![origin[j]] = @ + 1]
  /\ UNCHANGED <<res, info, finished, alive, jr, tgt, seen, idx, dest,
                 num_job_fin>>

JobStart(j) ==
  /\ alive[origin[j]] /\ pc[Run(j)] = "idle" /\ res[origin[j]] # NoRes
  /\ part_size * num_ctrl >= min_nodes[j]
  /\ Goto(Run(j), "lookup")
  /\ UNCHANGED <<res, info, finished, alive, jr, tgt, seen, idx, dest,
                 num_job_fin, num_job_fail>>
-----------------------------------------------------------------------------
(***************************************************************************)
(* allocate_res and what it calls.  A try that gets nothing is counted;    *)
(* more than three in a row make the job give back what it holds.          *)
(***************************************************************************)
MaxTry == 3

\* MUTANT: the failed try is not counted.
FailedTry_uncounted(j) ==
  /\ Goto(Run(j), "draw")
  /\ idx' = [idx EXCEPT ![Run(j)] = 0]
  /\ UNCHANGED <<res, info, finished, alive, jr, tgt, seen, dest, num_job_fin,
                 num_job_fail>>

\* num_try++ and the rest of the loop body of allocate_res, up to the draw.
FailedTry(j) ==
  /\ jr' = [jr EXCEPT ![Run(j)].num_try = @ + 1]
  /\ Goto(Run(j), IF jr[Run(j)].num_try + 1 > MaxTry THEN "release" ELSE "draw")
  /\ idx' = [idx EXCEPT ![Run(j)] = 0]
  /\ UNCHANGED <<res, info, finished, alive, tgt, seen, dest, num_job_fin,
                 num_job_fail>>

\* get_ctrl_res in allocate_one_res.
AllocLookup(j) ==
  /\ alive[origin[j]] /\ pc[Run(j)] = "lookup"
  /\ res[tgt[j]] # NoRes
  /\ seen' = [seen EXCEPT ![Run(j)] = res[tgt[j]]]
  /\ Goto(Run(j), "swap")
  /\ UNCHANGED <<res, info, finished, alive, jr, tgt, idx, dest, num_job_fin,
                 num_job_fail>>

AllocNotRegistered(j) ==
  /\ alive[origin[j]] /\ pc[Run(j)] = "lookup"
  /\ res[tgt[j]] = NoRes
  /\ FailedTry(j)

AllocEmpty(j) ==
  /\ alive[origin[j]] /\ pc[Run(j)] = "swap"
  /\ seen[Run(j)].num = 0
  /\ FailedTry(j)

\* do_allocate, when the compare-and-swap finds the string it expects.
AllocSwap(j) ==
  LET t == Run(j)
      c == tgt[j]
      more == min_nodes[j] - jr[t].num_node
      attempt == IF seen[t].num > more THEN more ELSE seen[t].num
  IN  /\ alive[origin[j]] /\ pc[t] = "swap"
      /\ seen[t].num > 0
      /\ compare_swap(c, seen[t])
      /\ res' = [res EXCEPT ![c] = remaining(seen[t], attempt)]
      /\ IF update_slot(jr[t], c) \in Slot
           THEN /\ jr' = [jr EXCEPT ![t] = update_job_resource(@, c,
                                       allocated(seen[t], attempt), origin[j])]
                /\ Goto(t, "draw")
                /\ UNCHANGED alive
           ELSE Crash(origin[j]) /\ UNCHANGED <<jr, pc>>
      /\ UNCHANGED <<info, finished, tgt, seen, idx, dest, num_job_fin,
                     num_job_fail>>

\* ... and when it does not: the value it found is tried next.
AllocStale(j) ==
  /\ alive[origin[j]] /\ pc[Run(j)] = "swap"
  /\ seen[Run(j)].num > 0
  /\ ~ compare_swap(tgt[j], seen[Run(j)])
  /\ seen' = [seen EXCEPT ![Run(j)] = res[tgt[j]]]
  /\ UNCHANGED <<res, info, finished, alive, pc, jr, tgt, idx, dest,
                 num_job_fin, num_job_fail>>

\* ctrl_id = mem_list[_gen_random_value(num_ctrl)], and once more round the loop.
Draw(j, c) ==
  /\ alive[origin[j]] /\ pc[Run(j)] = "draw"
  /\ jr[Run(j)].num_node < min_nodes[j]
  /\ tgt' = [tgt EXCEPT ![j] = c]
  /\ Goto(Run(j), "lookup")
  /\ UNCHANGED <<res, info, finished, alive, jr, seen, idx, dest, num_job_fin,
                 num_job_fail>>
-----------------------------------------------------------------------------
(***************************************************************************)
(* release_res, called by both kinds of threads.                           *)
(***************************************************************************)
Releasing(t) == pc[t] = "release" /\ idx[t] < jr[t].num_ctrl

\* get_ctrl_res; its NULL result is copied from without a test.
ReleaseLookup(t) ==
  LET key == jr[t].ctrl_ids_2[idx[t]]
      found == key # NoStr /\ res[key] # NoRes
  IN  /\ Releasing(t) /\ alive[At(t)]
      /\ IF found
           THEN /\ seen' = [seen EXCEPT ![t] = res[key]]
                /\ Goto(t, "giveback")
                /\ UNCHANGED alive
           ELSE Crash(At(t)) /\ UNCHANGED <<seen, pc>>
      /\ UNCHANGED <<res, info, finished, jr, tgt, idx, dest, num_job_fin,
                     num_job_fail>>

ReleaseSwap(t) ==
  LET key == jr[t].ctrl_ids_2[idx[t]]
  IN  /\ pc[t] = "giveback" /\ alive[At(t)]
      /\ compare_swap(key, seen[t])
      /\ res' = [res EXCEPT ![key] =
                   merge_res_str(seen[t], jr[t].node_alloc[idx[t]])]
      /\ idx' = [idx EXCEPT ![t] = @ + 1]
      /\ Goto(t, "release")
      /\ UNCHANGED <<info, finished, alive, jr, tgt, seen, dest, num_job_fin,
                     num_job_fail>>

ReleaseStale(t) ==
  LET key == jr[t].ctrl_ids_2[idx[t]]
  IN  /\ pc[t] = "giveback" /\ alive[At(t)]
      /\ ~ compare_swap(key, seen[t])
      /\ seen' = [seen EXCEPT ![t] = res[key]]
      /\ UNCHANGED <<res, info, finished, alive, pc, jr, tgt, idx, dest,
                     num_job_fin, num_job_fail>>

\* The job starts over.
ResetJob(j) ==
  /\ alive[origin[j]] /\ pc[Run(j)] = "release" /\ ~ Releasing(Run(j))
  /\ jr' = [jr EXCEPT ![Run(j)] = reset_job_resource(@)]
  /\ Goto(Run(j), "draw")
  /\ UNCHANGED <<res, info, finished, alive, tgt, seen, idx, dest, num_job_fin,
                 num_job_fail>>
-----------------------------------------------------------------------------
(***************************************************************************)
(* From the allocation to the launch.  _job_create_1 returns NULL when     *)
(* nodelist names fewer hosts than asked for, and _create_srun_job         *)
(* dereferences it.  Otherwise insert_jobinfo_zht stores the allocation;   *)
(* its inserts are one step because nobody reads these keys before the     *)
(* launch.                                                                 *)
(***************************************************************************)
\* _job_create_structure_1: "Only allocated %d nodes asked for %d".
too_few_hosts(r, j) == r.nodelist < min_nodes[j]

CreateJob(j) ==
  LET r == jr[Run(j)]
  IN  /\ alive[origin[j]] /\ pc[Run(j)] = "draw"
      /\ r.num_node >= min_nodes[j]
      /\ IF too_few_hosts(r, j)
           THEN Crash(origin[j]) /\ UNCHANGED <<info, pc>>
           ELSE /\ info' = [info EXCEPT ![j] = jobinfo(r, origin[j])]
                /\ Goto(Run(j), "launch")
                /\ UNCHANGED alive
      /\ UNCHANGED <<res, finished, jr, tgt, seen, idx, dest, num_job_fin,
                     num_job_fail>>

\* _one_step_complete_msg of the slurmstepd of rank 0, on the first node of the
\* job, sends to the controller its node is configured with; a launched job has
\* the nodes of one partition only.
reports_to(i) == home[Head(i.alloc[Head(i.ctrls)])]

\* The step starts on its nodes.
Launch(j) ==
  /\ alive[origin[j]] /\ pc[Run(j)] = "launch"
  /\ dest' = [dest EXCEPT ![j] = reports_to(info[j])]
  /\ Goto(Run(j), "belong")
  /\ UNCHANGED <<res, info, finished, alive, jr, tgt, seen, idx, num_job_fin,
                 num_job_fail>>

\* check_job_belong.
BelongsHere(j) ==
  /\ alive[origin[j]] /\ pc[Run(j)] = "belong"
  /\ Goto(Run(j), IF info[j].here THEN "done" ELSE "wait")
  /\ UNCHANGED <<res, info, finished, alive, jr, tgt, seen, idx, dest,
                 num_job_fin, num_job_fail>>

\* c_state_change_callback returned 0.  The counters are read before the mutex
\* of num_job_fin is taken.
Notified(j) ==
  LET c == origin[j]
  IN  /\ alive[c] /\ pc[Run(j)] = "wait"
      /\ j \in finished
      /\ Goto(Run(j), IF num_job_fin[c] + num_job_fail[c] < num_job(c)
                        THEN "count" ELSE "done")
      /\ UNCHANGED <<res, info, finished, alive, jr, tgt, seen, idx, dest,
                     num_job_fin, num_job_fail>>

CountNotified(j) ==
  /\ alive[origin[j]] /\ pc[Run(j)] = "count"
  /\ num_job_fin' = [num_job_fin EXCEPT ![origin[j]] = @ + 1]
  /\ Goto(Run(j), "done")
  /\ UNCHANGED <<res, info, finished, alive, jr, tgt, seen, idx, dest,
                 num_job_fail>>
-----------------------------------------------------------------------------
(***************************************************************************)
(* _step_complete_msg_proc, when the step has ended and its message comes  *)
(* in.  The lookups of _create_job_resource are one step because nobody    *)
(* writes these keys after the launch.                                     *)
(***************************************************************************)
StepComplete(j, k) ==
  /\ dest[j] # None /\ alive[dest[j]]
  /\ pc[<<j, k>>] = "idle" /\ (k > 1 => pc[<<j, k - 1>>] # "idle")
  /\ jr' = [jr EXCEPT ![<<j, k>>] = create_job_resource(info[j])]
  /\ Goto(<<j, k>>, "release")
  /\ UNCHANGED <<res, info, finished, alive, tgt, seen, idx, dest, num_job_fin,
                 num_job_fail>>

\* The end of the handler, at the job's own controller ...
CountHere(j, k) ==
  /\ pc[<<j, k>>] = "release" /\ ~ Releasing(<<j, k>>) /\ alive[dest[j]]
  /\ dest[j] = origin[j]
  /\ num_job_fin' = [num_job_fin EXCEPT ![dest[j]] = @ + 1]
  /\ Goto(<<j, k>>, "done")
  /\ UNCHANGED <<res, info, finished, alive, jr, tgt, seen, idx, dest,
                 num_job_fail>>

\* MUTANT: the job is counted where it ended.
NotifyOrigin_counts(j, k) ==
  /\ pc[<<j, k>>] = "release" /\ ~ Releasing(<<j, k>>) /\ alive[dest[j]]
  /\ dest[j] # origin[j]
  /\ finished' = finished \cup {j}
  /\ num_job_fin' = [num_job_fin EXCEPT ![dest[j]] = @ + 1]
  /\ Goto(<<j, k>>, "done")
  /\ UNCHANGED <<res, info, alive, jr, tgt, seen, idx, dest, num_job_fail>>

\* MUTANT: nobody is notified.
NotifyOrigin_silent(j, k) ==
  /\ pc[<<j, k>>] = "release" /\ ~ Releasing(<<j, k>>) /\ alive[dest[j]]
  /\ dest[j] # origin[j]
  /\ Goto(<<j, k>>, "done")
  /\ UNCHANGED <<res, info, finished, alive, jr, tgt, seen, idx, dest,
                 num_job_fin, num_job_fail>>

\* ... and at another one.
NotifyOrigin(j, k) ==
  /\ pc[<<j, k>>] = "release" /\ ~ Releasing(<<j, k>>) /\ alive[dest[j]]
  /\ dest[j] # origin[j]
  /\ finished' = finished \cup {j}
  /\ Goto(<<j, k>>, "done")
  /\ UNCHANGED <<res, info, alive, jr, tgt, seen, idx, dest, num_job_fin,
                 num_job_fail>>
-----------------------------------------------------------------------------
Allocate(j) ==
  \/ AllocLookup(j) \/ AllocNotRegistered(j) \/ AllocEmpty(j)
  \/ AllocSwap(j) \/ AllocStale(j)

Release(t) == ReleaseLookup(t) \/ ReleaseSwap(t) \/ ReleaseStale(t)

JobThread(j) ==
  \/ JobTooLarge(j) \/ JobStart(j) \/ Allocate(j) \/ ResetJob(j)
  \/ CreateJob(j) \/ Launch(j) \/ BelongsHere(j) \/ Notified(j)
  \/ CountNotified(j)

Handler(j, k) == StepComplete(j, k) \/ CountHere(j, k) \/ NotifyOrigin(j, k)

Next ==
  \/ \E c \in Ctrl : Register(c)
  \/ \E j \in Job : JobThread(j) \/ \E c \in Ctrl : Draw(j, c)
  \/ \E j \in Job, k \in 1 .. MaxDelivery : Handler(j, k)
  \/ \E t \in Thread : Release(t)

Spec == Init /\ [][Next]_vars

(***************************************************************************)
(* Fairness.  The operating system schedules every thread, slurmds         *)
(* register, steps end and slurmstepd sends the completion until it gets   *)
(* through; rand() keeps drawing every controller.                         *)
(***************************************************************************)
FairSpec ==
  /\ Spec
  /\ \A c \in Ctrl : WF_vars(Register(c))
  /\ \A j \in Job : WF_vars(JobThread(j)) /\ WF_vars(Handler(j, 1))
  /\ \A t \in Thread : WF_vars(Release(t))
  /\ \A j \in Job, c \in Ctrl : SF_vars(Draw(j, c))
-----------------------------------------------------------------------------
(***************************************************************************)
(* Properties.                                                             *)
(***************************************************************************)
Label == {"idle", "lookup", "swap", "draw", "release", "giveback", "launch",
          "belong", "wait", "count", "done", "failed"}

\* Every variable keeps its type: the strings in ZHT stay well formed, array
\* accesses stay in range and counters never go below zero.
TypeOK ==
  /\ res \in [Ctrl -> ResVal(Node) \cup {NoRes}]
  /\ info \in [Job -> JobInfo]
  /\ finished \in SUBSET Job
  /\ alive \in [Ctrl -> BOOLEAN]
  /\ pc \in [Thread -> Label]
  /\ jr \in [Thread -> JobResource]
  /\ tgt \in [Job -> Ctrl]
  /\ seen \in [Thread -> ResVal(Node) \cup {NoRes}]
  /\ idx \in [Thread -> Nat]
  /\ dest \in [Job -> Ctrl \cup {None}]
  /\ num_job_fin \in [Ctrl -> Nat]
  /\ num_job_fail \in [Ctrl -> Nat]

\* Idle nodes in the resource string of c.
Free(c) == IF res[c] = NoRes THEN {} ELSE Range(res[c].nodes)

\* The slots of node_alloc a thread has not given back yet.
HeldSlots(t) ==
  CASE pc[t] \in {"lookup", "swap", "draw"} -> Slot
    [] pc[t] \in {"release", "giveback"} -> {i \in Slot : i >= idx[t]}
    [] OTHER -> {}

\* The allocation of j is in ZHT and no completion has been delivered.
Recorded(j) ==
  pc[Run(j)] \in {"launch", "belong", "wait", "count", "done"} /\ pc[<<j, 1>>] = "idle"

\* The nodes a job has: in the structures of its threads or recorded in ZHT.
HeldBy(t) == UNION {Range(jr[t].node_alloc[i]) : i \in HeldSlots(t)}

Holds(j) ==
  (IF Recorded(j) THEN UNION {Range(info[j].alloc[c]) : c \in Ctrl} ELSE {})
    \cup UNION {HeldBy(<<j, k>>) : k \in 0 .. MaxDelivery}

\* No node is ever in two places: twice among the idle nodes, idle and held by
\* a job, or held by two jobs.  It rests on every compare-and-swap of
\* _allocate_node and release_res and on the stale reads before them.
NodeExclusive ==
  /\ \A c \in Ctrl : res[c] # NoRes => IsInjective(res[c].nodes)
  /\ \A c, d \in Ctrl : c # d => Free(c) \cap Free(d) = {}
  /\ \A j \in Job, c \in Ctrl : Holds(j) \cap Free(c) = {}
  /\ \A j, k \in Job : j # k => Holds(j) \cap Holds(k) = {}

\* A stolen node goes back to the partition it was stolen from, and the count
\* in front of a resource string is the number of names behind it: do_allocate
\* decides by the count and takes by position.
ResourceStringsSound ==
  \A c \in Ctrl : res[c] # NoRes =>
    /\ res[c].num = Len(res[c].nodes)
    /\ Free(c) \subseteq Range(Partition[c])

\* "blocked until all jobs are finished" (main): when the counters let main
\* pass, every job of that controller was given up or has ended.
MainWaitsForAll ==
  \A c \in Ctrl : num_job_fin[c] + num_job_fail[c] >= num_job(c) =>
    \A j \in Job : origin[j] = c =>
      pc[Run(j)] = "failed" \/ pc[<<j, 1>>] # "idle"

\* Nobody waits for ever with nodes in their hands: a job that has some of its
\* nodes and not all gets the rest or gives back what it has (allocate_res,
\* after more than three failed tries), or its controller dies.
HoldersLetGo ==
  \A j \in Job :
    (pc[Run(j)] = "draw" /\ jr[Run(j)].num_node \in 1 .. min_nodes[j] - 1) ~>
      (jr[Run(j)].num_node \in {0, min_nodes[j]} \/ ~ alive[origin[j]])

\* Every job ends: its thread is done, and so is the handler of its completion,
\* and the counters let main pass.
AllJobsEnd ==
  <>[](/\ \A j \in Job : \/ pc[Run(j)] = "failed"
                         \/ pc[Run(j)] = "done" /\ pc[<<j, 1>>] = "done"
       /\ \A c \in Ctrl : num_job_fin[c] + num_job_fail[c] = num_job(c))

\* Every node a job took comes back in the end.
AllNodesReturn == <>[](\A c \in Ctrl : Free(c) = Range(Partition[c]))
=============================================================================
