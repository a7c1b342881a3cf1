------------------------------- MODULE Agent -------------------------------
(***************************************************************************)
(* One agent of slurmctld (slurmctld/agent.c): it sends a request to its   *)
(* groups of nodes, a thread for each group but at most AGENT_THREAD_COUNT *)
(* of them at a time, while a watchdog polls the threads, interrupts those *)
(* that take too long and, when all have finished, takes down the results  *)
(* and queues what is to be tried again.                                   *)
(***************************************************************************)
EXTENDS Integers, FiniteSets

CONSTANTS
    thread_count,        \* number of groups of nodes
    AGENT_THREAD_COUNT,
    retry                \* whether the request is to be retried

ASSUME AgentAssumption ==
    /\ {thread_count, AGENT_THREAD_COUNT} \subseteq Nat \ {0}
    /\ retry \in BOOLEAN

Group == 1 .. thread_count
Final == {"DSH_DONE", "DSH_NO_RESP", "DSH_FAILED"}

VARIABLES
    agent,           \* where the agent is
    i,               \* the group it starts a thread for next
    state,           \* thread_struct[g].state
    thread,          \* where the thread of each group is
    killed,          \* threads the watchdog has sent SIGUSR1 to
    threads_active,
    mutex,           \* who holds thread_mutex across steps: the watchdog
    wdog,            \* where the watchdog is
    notified,        \* the results it took down, for each group
    requeued,        \* groups queued for another try
    result           \* history: what each thread found

agentVars == <<agent, i, state, thread, killed, threads_active, mutex, wdog, notified, requeued, result>>

AgentInit ==
    /\ agent = "create" /\ i = 1
    /\ state = [g \in Group |-> "DSH_NEW"]
    /\ thread = [g \in Group |-> "none"]
    /\ killed = {} /\ threads_active = 0 /\ mutex = FALSE
    /\ wdog = "poll"
    /\ notified = [g \in Group |-> "none"] /\ requeued = {}
    /\ result = [g \in Group |-> "none"]

-----------------------------------------------------------------------------
\* agent

HasRoom_one_more == threads_active <= AGENT_THREAD_COUNT

HasRoom == threads_active < AGENT_THREAD_COUNT

\* No room: wait on thread_cond, with thread_mutex released.
WaitRoom ==
    /\ agent = "create" /\ ~mutex /\ i \in Group /\ ~HasRoom
    /\ agent' = "wait_room"
    /\ UNCHANGED <<i, state, thread, killed, threads_active, mutex, wdog, notified, requeued, result>>

CreateThread ==
    /\ agent = "create" /\ ~mutex /\ i \in Group /\ HasRoom
    /\ thread' = [thread EXCEPT ![i] = "start"]
    /\ threads_active' = threads_active + 1
    /\ i' = i + 1
    /\ UNCHANGED <<agent, state, killed, mutex, wdog, notified, requeued, result>>

\* pthread_create fails: wait for a thread to end if there is one, or a
\* moment, and try again.
CreateFails ==
    /\ agent = "create" /\ ~mutex /\ i \in Group /\ HasRoom /\ threads_active > 0
    /\ agent' = "wait_room"
    /\ UNCHANGED <<i, state, thread, killed, threads_active, mutex, wdog, notified, requeued, result>>

AllCreated ==
    /\ agent = "create" /\ i \notin Group
    /\ agent' = "join"
    /\ UNCHANGED <<i, state, thread, killed, threads_active, mutex, wdog, notified, requeued, result>>

Join_no_wdog ==
    /\ agent = "join"
    /\ agent' = IF threads_active = 0 THEN "cleanup" ELSE "wait_threads"
    /\ UNCHANGED <<i, state, thread, killed, threads_active, mutex, wdog, notified, requeued, result>>

\* The watchdog is joined, and then the threads are waited for.
Join ==
    /\ agent = "join" /\ wdog = "ended"
    /\ agent' = IF threads_active = 0 THEN "cleanup" ELSE "wait_threads"
    /\ UNCHANGED <<i, state, thread, killed, threads_active, mutex, wdog, notified, requeued, result>>

-----------------------------------------------------------------------------
\* _thread_per_group_rpc

Activate(g) ==
    /\ thread[g] = "start" /\ ~mutex
    /\ state' = [state EXCEPT ![g] = "DSH_ACTIVE"]
    /\ thread' = [thread EXCEPT ![g] = "rpc"]
    /\ UNCHANGED <<agent, i, killed, threads_active, mutex, wdog, notified, requeued, result>>

\* The RPC gets its answer, or none because of an error.
Rpc(g) ==
    /\ thread[g] = "rpc"
    /\ \E r \in Final : result' = [result EXCEPT ![g] = r]
    /\ thread' = [thread EXCEPT ![g] = "finish"]
    /\ UNCHANGED <<agent, i, state, killed, threads_active, mutex, wdog, notified, requeued>>

\* It hangs until the signal of the watchdog interrupts it.
Interrupted(g) ==
    /\ thread[g] = "rpc" /\ g \in killed
    /\ result' = [result EXCEPT ![g] = "DSH_NO_RESP"]
    /\ thread' = [thread EXCEPT ![g] = "finish"]
    /\ UNCHANGED <<agent, i, state, killed, threads_active, mutex, wdog, notified, requeued>>

\* pthread_cond_signal(thread_cond), on which only the agent may wait; a
\* wait that loops is tested again.
Woken_none(left) == agent

Woken(left) ==
    IF agent = "wait_room" THEN "create"
    ELSE IF agent = "wait_threads" /\ left = 0 THEN "cleanup" ELSE agent

Finish(g) ==
    /\ thread[g] = "finish" /\ ~mutex
    /\ state' = [state EXCEPT ![g] = result[g]]
    /\ threads_active' = threads_active - 1
    /\ agent' = Woken(threads_active - 1)
    /\ thread' = [thread EXCEPT ![g] = "ended"]
    /\ UNCHANGED <<i, killed, mutex, wdog, notified, requeued, result>>

-----------------------------------------------------------------------------
\* _wdog

WorkDone_active == \A g \in Group : state[g] # "DSH_ACTIVE"

WorkDone == \A g \in Group : state[g] \in Final

\* One poll: a signal to the threads that are over their time.  Once all work
\* is done thread_mutex is kept.
Poll ==
    /\ wdog = "poll" /\ ~mutex
    /\ \E late \in SUBSET {g \in Group : state[g] = "DSH_ACTIVE"} : killed' = killed \cup late
    /\ IF WorkDone THEN wdog' = "notify" /\ mutex' = TRUE ELSE UNCHANGED <<wdog, mutex>>
    /\ UNCHANGED <<agent, i, state, thread, threads_active, notified, requeued, result>>

\* _notify_slurmctld_nodes, with _queue_agent_retry.
Notify ==
    /\ wdog = "notify"
    /\ notified' = state
    /\ requeued' = IF retry THEN {g \in Group : state[g] = "DSH_NO_RESP"} ELSE {}
    /\ wdog' = "ended" /\ mutex' = FALSE
    /\ UNCHANGED <<agent, i, state, thread, killed, threads_active, result>>

\* The agent frees what its threads use.
Cleanup ==
    /\ agent = "cleanup"
    /\ agent' = "ended"
    /\ UNCHANGED <<i, state, thread, killed, threads_active, mutex, wdog, notified, requeued, result>>

AgentStep == WaitRoom \/ CreateThread \/ AllCreated \/ Join \/ Cleanup
ThreadStep(g) == Activate(g) \/ Interrupted(g) \/ Finish(g)

AgentNext ==
    \/ AgentStep \/ CreateFails \/ Poll \/ Notify
    \/ \E g \in Group : ThreadStep(g) \/ Rpc(g)

AgentSpec == AgentInit /\ [][AgentNext]_agentVars

\* All threads run, the watchdog finds every late thread at some time, and
\* creating a thread works in the end; that an RPC is answered is not assumed.
AgentFairSpec ==
    /\ AgentSpec
    /\ WF_agentVars(AgentStep) /\ SF_agentVars(CreateThread) /\ WF_agentVars(Poll) /\ WF_agentVars(Notify)
    /\ \A g \in Group :
           WF_agentVars(ThreadStep(g)) /\ WF_agentVars(Poll /\ g \in killed' /\ state[g] = "DSH_ACTIVE")

-----------------------------------------------------------------------------
(***************************************************************************)
(* The agent never has more than AGENT_THREAD_COUNT threads that have not  *)
(* come to their end.                                                      *)
(***************************************************************************)
ThreadsBounded ==
    Cardinality({g \in Group : thread[g] \in {"start", "rpc", "finish"}}) <= AGENT_THREAD_COUNT

(***************************************************************************)
(* The watchdog takes down, and queues for another try, what each thread   *)
(* found: it does not stop before a thread that has not been started or    *)
(* whose answer is still to come.                                          *)
(***************************************************************************)
ResultsAreComplete ==
    wdog = "ended" =>
        /\ notified = result
        /\ retry => requeued = {g \in Group : result[g] = "DSH_NO_RESP"}

(***************************************************************************)
(* When the agent frees its data no thread uses it any more.               *)
(***************************************************************************)
NoThreadLeftBehind ==
    agent \in {"cleanup", "ended"} => wdog = "ended" /\ \A g \in Group : thread[g] = "ended"

(***************************************************************************)
(* The agent ends though RPCs hang: the watchdog's signal ends them, and   *)
(* the signal on thread_cond is not lost.                                  *)
(***************************************************************************)
AgentEnds == <>(agent = "ended")
=============================================================================
