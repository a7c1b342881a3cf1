----------------------------- MODULE AgentQueue -----------------------------
(***************************************************************************)
(* The agents of slurmctld and their queue (slurmctld/agent.c).  A request *)
(* for some nodes is put in retry_list; agent_retry takes one record out   *)
(* and creates an agent thread for it, which waits until fewer than        *)
(* MAX_AGENT_CNT agents work, sends the request (module Agent) and queues  *)
(* the nodes that did not answer for another try.  agent_retry is called   *)
(* for each new request, by the background loop and by an agent that ends. *)
(* The launch of a batch job is deferred while its nodes are not ready.    *)
(***************************************************************************)
EXTENDS Integers, FiniteSetsExt

CONSTANTS
    Node,
    Plain,           \* requests that are queued, and retried if Retried
    Retried,
    Batch,           \* REQUEST_BATCH_JOB_LAUNCH
    Urgent,          \* REQUEST_SHUTDOWN to the nodes
    MAX_AGENT_CNT,
    MaxNoResp        \* bound on how often nodes do not answer

Req == Plain \cup Batch \cup Urgent

\* The script of a batch job goes to its first node.
batch_host == CHOOSE n \in Node : TRUE
Nodes(q) == IF q \in Batch THEN {batch_host} ELSE Node

ASSUME AgentQueueAssumption ==
    /\ MAX_AGENT_CNT \in Nat \ {0} /\ MaxNoResp \in Nat
    /\ IsFiniteSet(Node) /\ Node # {}
    /\ Retried \subseteq Plain
    /\ Plain \cap Batch = {} /\ Urgent \cap (Plain \cup Batch) = {}

\* How old the last attempt of a record is, as far as agent_retry tells ages
\* apart: for a batch launch under 10 seconds (0) or not (1), for others at
\* most RPC_RETRY_INTERVAL (0), at most 999 seconds (1), more (2).
Age(q) == IF q \in Batch THEN 0 .. 1 ELSE 0 .. 2
RPC_RETRY_INTERVAL == 0
Long == 1            \* agent_retry(999, false)

VARIABLES
    retry_list,      \* records, in the order of pos; fresh: last_attempt is 0
    agents,          \* the agent threads, each for one try of a request
    agent_cnt,
    caller,          \* where agent_queue_request is, for each request
    ready,           \* batch jobs whose nodes are ready, or waited for too long
    gone,            \* batch jobs that do not run any more
    shutdown,        \* slurmctld_config.shutdown_time is set
    noresp,          \* how often nodes did not answer
    owed             \* history: nodes each request has still to get to

queueVars == <<retry_list, agents, agent_cnt, caller, ready, gone, shutdown, noresp, owed>>

QueueInit ==
    /\ retry_list = {} /\ agents = {} /\ agent_cnt = 0
    /\ caller = [q \in Req |-> "no"]
    /\ ready = {} /\ gone = {} /\ shutdown = FALSE /\ noresp = 0
    /\ owed = [q \in Req |-> {}]

-----------------------------------------------------------------------------
\* agent_retry

\* A batch launch is looked at every 10 seconds.
Tested(e) == e.req \in Batch /\ (e.fresh \/ e.age > 0)

\* _batch_launch_defer: what it returns, and what it makes of the record.
Verdict(e) ==
    IF e.req \notin Batch THEN "now"
    ELSE IF ~Tested(e) THEN "defer"
    ELSE IF e.req \in gone THEN "abort"
    ELSE IF e.req \in ready THEN "now" ELSE "defer"

Batch_launch_defer(e) ==
    IF Tested(e) THEN [e EXCEPT !.fresh = (Verdict(e) = "now"), !.age = 0] ELSE e

\* A pass over the list s for a record that was never tried, or for one tried
\* longer than min_wait ago.
ToSend(e, new, min_wait) ==
    /\ Verdict(e) = "now"
    /\ LET d == Batch_launch_defer(e) IN IF new THEN d.fresh ELSE d.age > min_wait

First(s) == {e \in s : \A f \in s : e.pos <= f.pos}

\* What the pass leaves of the records it has gone by.
Looked_at(s) == {Batch_launch_defer(e) : e \in {e \in s : Verdict(e) # "abort"}}

\* It ends at the first such record or at the end of the list: the record, if
\* there is one, and the list without it.
Pass(s, new, min_wait) ==
    LET found == First({e \in s : ToSend(e, new, min_wait)})
        before == {e \in s : \A f \in found : e.pos < f.pos}
    IN  [found |-> found, rest |-> Looked_at(before) \cup (s \ (before \cup found))]

\* First a record never tried, then one tried longer than min_wait ago.
Agent_retry_new_only(cnt, s, min_wait) ==
    IF cnt >= MAX_AGENT_CNT THEN [found |-> {}, rest |-> s]
    ELSE Pass(s, TRUE, min_wait)

Agent_retry(cnt, s, min_wait) ==
    IF cnt >= MAX_AGENT_CNT THEN [found |-> {}, rest |-> s]
    ELSE LET new == Pass(s, TRUE, min_wait)
         IN  IF new.found # {} THEN new ELSE Pass(new.rest, FALSE, min_wait)

\* _spawn_retry_agent: a new thread next to those there are.
Spawned(found) == {[req |-> e.req, nodes |-> e.nodes, try |-> e.try, at |-> "start"] : e \in found}

-----------------------------------------------------------------------------
\* list_append
Appended(q, nodes, try) ==
    LET last == Max({e.pos : e \in retry_list} \cup {0})
    IN  retry_list \cup {[pos |-> last + 1, req |-> q, nodes |-> nodes, try |-> try,
                          fresh |-> (try = 1), age |-> 0]}

\* agent_queue_request, in two steps: the record is appended under
\* retry_mutex, and then agent_retry is called.
Queue(q) ==
    /\ caller[q] = "no"
    /\ retry_list' = Appended(q, Nodes(q), 1)
    /\ caller' = [caller EXCEPT ![q] = "queued"]
    /\ owed' = [owed EXCEPT ![q] = Nodes(q)]
    /\ UNCHANGED <<agents, agent_cnt, ready, gone, shutdown, noresp>>

\* A shutdown of the nodes is not queued: its agent is created at once.  It is
\* asked for before the shutdown of slurmctld, never after it.
ExecuteNow(q) ==
    /\ q \in Urgent /\ caller[q] = "no" /\ ~shutdown
    /\ agents' = agents \cup Spawned({[req |-> q, nodes |-> Nodes(q), try |-> 1]})
    /\ caller' = [caller EXCEPT ![q] = "done"]
    /\ owed' = [owed EXCEPT ![q] = Nodes(q)]
    /\ UNCHANGED <<retry_list, agent_cnt, ready, gone, shutdown, noresp>>

QueueRetry(q) ==
    /\ caller[q] = "queued"
    /\ LET r == Agent_retry(agent_cnt, retry_list, Long)
       IN  retry_list' = r.rest /\ agents' = agents \cup Spawned(r.found)
    /\ caller' = [caller EXCEPT ![q] = "done"]
    /\ UNCHANGED <<agent_cnt, ready, gone, shutdown, noresp, owed>>

\* _slurmctld_background calls agent_retry in every round until the shutdown.
BackgroundRetry ==
    /\ ~shutdown
    /\ LET r == Agent_retry(agent_cnt, retry_list, RPC_RETRY_INTERVAL)
       IN  retry_list' = r.rest /\ agents' = agents \cup Spawned(r.found)
    /\ UNCHANGED <<agent_cnt, caller, ready, gone, shutdown, noresp, owed>>

\* Time passes for a record.
Older(e) ==
    /\ ~e.fresh /\ e.age + 1 \in Age(e.req)
    /\ retry_list' = (retry_list \ {e}) \cup {[e EXCEPT !.age = @ + 1]}
    /\ UNCHANGED <<agents, agent_cnt, caller, ready, gone, shutdown, noresp, owed>>

-----------------------------------------------------------------------------
\* agent

Moved(a, at) == (agents \ {a}) \cup {[a EXCEPT !.at = at]}

HasSlot_one_more == shutdown \/ agent_cnt <= MAX_AGENT_CNT

HasSlot_running == ~shutdown /\ agent_cnt < MAX_AGENT_CNT

HasSlot == shutdown \/ agent_cnt < MAX_AGENT_CNT

\* The agent counts itself and goes to work; at a shutdown it goes to its
\* cleanup, with nothing sent.
Start(a) ==
    /\ a.at = "start" /\ HasSlot
    /\ agent_cnt' = agent_cnt + 1
    /\ agents' = Moved(a, IF shutdown THEN "cleanup" ELSE "run")
    /\ UNCHANGED <<retry_list, caller, ready, gone, shutdown, noresp, owed>>

\* All slots are taken: wait on agent_cnt_cond.
WaitSlot(a) ==
    /\ a.at = "start" /\ ~HasSlot
    /\ agents' = Moved(a, "wait")
    /\ UNCHANGED <<retry_list, agent_cnt, caller, ready, gone, shutdown, noresp, owed>>

\* The nodes that are tried again, given those that did not answer.
ToRetry_all(a, late) == IF a.req \in Retried /\ late # {} THEN a.nodes ELSE {}

ToRetry(a, late) == IF a.req \in Retried THEN late ELSE {}

\* The request is sent.  _notify_slurmctld_nodes requeues the batch job whose
\* node did not answer, and _queue_agent_retry appends a record with the nodes
\* that are to be tried again.
Send(a) ==
    /\ a.at = "run"
    /\ \E late \in SUBSET a.nodes :
           LET again == ToRetry(a, late)
           IN  /\ noresp + Cardinality(late) <= MaxNoResp
               /\ noresp' = noresp + Cardinality(late)
               /\ gone' = IF a.req \in Batch /\ late # {} THEN gone \cup {a.req} ELSE gone
               /\ retry_list' = IF again = {} THEN retry_list ELSE Appended(a.req, again, a.try + 1)
               /\ owed' = [owed EXCEPT ![a.req] = @ \ (IF a.req \in Retried THEN a.nodes \ late ELSE a.nodes)]
    /\ agents' = Moved(a, "cleanup")
    /\ UNCHANGED <<agent_cnt, caller, ready, shutdown>>

\* pthread_cond_broadcast(agent_cnt_cond)
WaitersWoken(as) == {IF b.at = "wait" THEN [b EXCEPT !.at = "start"] ELSE b : b \in as}

\* The agent gives up its slot, has a pending request retried if it is not the
\* last one, and wakes the agents that wait.
AgentCleanup(a) ==
    /\ a.at = "cleanup"
    /\ agent_cnt' = Max({agent_cnt - 1, 0})
    /\ LET r == IF agent_cnt' > 0 THEN Agent_retry(agent_cnt', retry_list, RPC_RETRY_INTERVAL)
                ELSE [found |-> {}, rest |-> retry_list]
       IN  retry_list' = r.rest /\ agents' = WaitersWoken(agents \ {a}) \cup Spawned(r.found)
    /\ UNCHANGED <<caller, ready, gone, shutdown, noresp, owed>>

-----------------------------------------------------------------------------
\* The rest of slurmctld

\* The nodes of a batch job are ready, or its launch has waited for them for
\* the resume timeout.
NodesReady(q) ==
    /\ q \in Batch \ ready
    /\ ready' = ready \cup {q}
    /\ UNCHANGED <<retry_list, agents, agent_cnt, caller, gone, shutdown, noresp, owed>>

JobCancelled(q) ==
    /\ q \in Batch \ gone
    /\ gone' = gone \cup {q}
    /\ UNCHANGED <<retry_list, agents, agent_cnt, caller, ready, shutdown, noresp, owed>>

\* The caller of ExecuteNow sleeps to let its agent start.
Shutdown ==
    /\ ~shutdown /\ shutdown' = TRUE
    /\ \A a \in agents : a.req \in Urgent => a.at # "start"
    /\ UNCHANGED <<retry_list, agents, agent_cnt, caller, ready, gone, noresp, owed>>

\* agent_purge
Agent_purge ==
    /\ shutdown /\ retry_list # {}
    /\ retry_list' = {}
    /\ UNCHANGED <<agents, agent_cnt, caller, ready, gone, shutdown, noresp, owed>>

OneAgent(a) == Start(a) \/ WaitSlot(a) \/ Send(a) \/ AgentCleanup(a)

QueueNext ==
    \/ \E q \in Req \ Urgent : Queue(q)
    \/ \E q \in Urgent : ExecuteNow(q)
    \/ \E q \in Req : QueueRetry(q) \/ NodesReady(q) \/ JobCancelled(q)
    \/ \E e \in retry_list : Older(e)
    \/ \E a \in agents : OneAgent(a)
    \/ BackgroundRetry \/ Shutdown \/ Agent_purge

QueueSpec == QueueInit /\ [][QueueNext]_queueVars

\* Agents run, agent_queue_request returns, the background loop runs, and time
\* passes.
QueueFairSpec ==
    /\ QueueSpec
    /\ WF_queueVars(BackgroundRetry)
    /\ WF_queueVars(\E q \in Req : QueueRetry(q))
    /\ WF_queueVars(\E a \in agents : OneAgent(a))
    /\ \A q \in Req \ Urgent : WF_queueVars(\E e \in retry_list : e.req = q /\ Older(e))

-----------------------------------------------------------------------------
Active == {a \in agents : a.at \in {"run", "cleanup"}}

(***************************************************************************)
(* agent_cnt is the number of agents that work, and no more than           *)
(* MAX_AGENT_CNT do before the shutdown, though agent_retry reads agent_cnt*)
(* without its mutex and creates threads that have not counted themselves  *)
(* yet.                                                                    *)
(***************************************************************************)
AgentsBounded ==
    /\ agent_cnt = Cardinality(Active)
    /\ ~shutdown => agent_cnt <= MAX_AGENT_CNT

\* The places where a request is held: records of the list, and agents that
\* have not sent it.
Held(q) ==
    {e \in retry_list : e.req = q} \cup {a \in agents : a.req = q /\ a.at # "cleanup"}

(***************************************************************************)
(* Until the shutdown every node a request has still to get to is in one   *)
(* record of retry_list or with one agent: three callers take records out  *)
(* of the list and agents put others in, and a request is neither lost nor *)
(* sent twice.  The launch of a batch job that is gone may be dropped.     *)
(***************************************************************************)
EachNodeOnce ==
    ~shutdown => \A q \in Req \ gone :
        /\ UNION {h.nodes : h \in Held(q)} = owed[q]
        /\ \A g, h \in Held(q) : g # h => g.nodes \cap h.nodes = {}

(***************************************************************************)
(* A request gets to its nodes unless slurmctld shuts down: it does not    *)
(* stay in the list because all agents were busy when it came, because an  *)
(* agent that ended was the last, or because younger records come first.   *)
(* The launch of a batch job does when its nodes are ready.                *)
(***************************************************************************)
Delivered ==
    <>[](\A q \in Req : caller[q] # "no" /\ (q \in Batch => q \in ready) =>
             owed[q] = {} \/ q \in gone \/ shutdown)

(***************************************************************************)
(* No agent stays: one that waits for a slot is woken by each one that     *)
(* ends, at a shutdown too.                                                *)
(***************************************************************************)
AgentsEnd ==
    <>[](agents = {})
=============================================================================
