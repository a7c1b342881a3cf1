---------------------------- MODULE Registration ----------------------------
(***************************************************************************)
(* How a partition comes up.  Every slurmd sends its registration until it *)
(* gets an answer; the controller answers first, then records the node,    *)
(* and when it has recorded part_size of them puts the partition into ZHT  *)
(* and lets main start the workload.                                       *)
(*                                                                         *)
(* Source: _regist_msg_proc and _initialize of controller/controller.c,    *)
(* find_exist of controller/datastr.c, _registration_engine and            *)
(* send_registration_msg of slurmd/slurmd/slurmd.c.                        *)
(***************************************************************************)
EXTENDS Integers, Sequences, FiniteSets, Functions, ResList

CONSTANTS
  Node,      \* the slurmds a partition may have
  MaxTries,  \* bound on the registrations one slurmd sends
  NoRes      \* no value under the controller's key in ZHT

ASSUME RegistrationAssumption ==
  /\ IsFiniteSet(Node)
  /\ MaxTries \in Nat \ {0}
  /\ NoStr \notin Node
  /\ NoRes \notin ResVal(Node)

VARIABLES
  partition, \* the slurmds of this controller
  slurmd,   \* "send", "wait" for the answer or "registered"
  tries,    \* registrations sent by a slurmd
  net,      \* registrations <<n, k>> on their way to the controller
  handlers, \* service threads that have answered and not yet recorded
  source, num_regist_recv, resource, freed, \* the controller's globals
  ready, zht, up

\* How many the controller was told to expect.
part_size == Cardinality(partition)

regVars == <<partition, slurmd, tries, net, handlers, source, num_regist_recv, resource,
          freed, ready, zht, up>>
ctrlVars == <<partition, source, num_regist_recv, resource, freed, ready, zht, up>>

RegInit ==
  /\ partition \in (SUBSET Node) \ {{}}
  /\ slurmd = [n \in partition |-> "send"]
  /\ tries = [n \in partition |-> 0]
  /\ net = {} /\ handlers = {}
  /\ source = [i \in 0 .. part_size |-> NoStr]
  /\ num_regist_recv = 0
  /\ resource = [num |-> part_size, nodes |-> << >>]
  /\ freed = FALSE /\ ready = FALSE /\ up = TRUE
  /\ zht = NoRes

\* _registration_engine calls send_registration_msg.
Send(n) ==
  /\ n \in partition /\ slurmd[n] = "send" /\ tries[n] < MaxTries
  /\ tries' = [tries EXCEPT ![n] = @ + 1]
  /\ net' = net \cup {<<n, tries[n] + 1>>}
  /\ slurmd' = [slurmd EXCEPT ![n] = "wait"]
  /\ UNCHANGED <<handlers, ctrlVars>>

\* slurm_send_recv_controller_rc_msg fails, no answer in time: retry.
Timeout(n) ==
  /\ n \in partition /\ slurmd[n] = "wait" /\ tries[n] < MaxTries
  /\ slurmd' = [slurmd EXCEPT ![n] = "send"]
  /\ UNCHANGED <<tries, net, handlers, ctrlVars>>

\* The network loses a registration, but not the last one.
Lose(n, k) ==
  /\ <<n, k>> \in net /\ k < MaxTries
  /\ net' = net \ {<<n, k>>}
  /\ UNCHANGED <<slurmd, tries, handlers, ctrlVars>>

\* The first statement of _regist_msg_proc, slurm_send_rc_msg.  The slurmd gets
\* the answer if it still waits for this one and the answer is not lost.
Answer(n, k) ==
  /\ up /\ <<n, k>> \in net
  /\ net' = net \ {<<n, k>>}
  /\ handlers' = handlers \cup {<<n, k>>}
  /\ \/ /\ slurmd[n] = "wait" /\ tries[n] = k
        /\ slurmd' = [slurmd EXCEPT ![n] = "registered"]
     \/ k < MaxTries /\ UNCHANGED slurmd
  /\ UNCHANGED <<tries, ctrlVars>>

\* MUTANT: the node's name is not appended.
enlist_nothing(n) == resource

\* strcat of the node's name to the resource string.
enlist(n) == [resource EXCEPT !.nodes = Append(@, n)]

\* MUTANT: every node after the last one completes the partition again.
complete_from(k) == k >= part_size

\* MUTANT: one node more is expected.
complete_past(k) == k = part_size + 1

\* num_regist_recv == part_size
complete(k) == k = part_size

\* The critical section of _regist_msg_proc.
Record(n, k) ==
  /\ up /\ <<n, k>> \in handlers /\ ~ freed
  /\ handlers' = handlers \ {<<n, k>>}
  /\ IF find_exist(source, n, part_size) < 0
       THEN /\ source' = [source EXCEPT ![num_regist_recv] = n]
            /\ num_regist_recv' = num_regist_recv + 1
            /\ resource' = enlist(n)
            /\ IF complete(num_regist_recv + 1)
                 THEN zht' = enlist(n) /\ ready' = TRUE /\ freed' = TRUE
                 ELSE UNCHANGED <<zht, ready, freed>>
       ELSE UNCHANGED <<source, num_regist_recv, resource, zht, ready, freed>>
  /\ UNCHANGED <<partition, slurmd, tries, net, up>>

\* The same code after source and resource were freed: find_exist reads freed
\* memory and may answer anything, or the process dies.
RecordAfterFree(n, k) ==
  /\ up /\ <<n, k>> \in handlers /\ freed
  /\ handlers' = handlers \ {<<n, k>>}
  /\ \/ UNCHANGED <<num_regist_recv, ready, zht, up>>
     \/ /\ num_regist_recv' = num_regist_recv + 1
        /\ IF complete(num_regist_recv + 1)
             THEN zht' = resource /\ ready' = TRUE
             ELSE UNCHANGED <<zht, ready>>
        /\ UNCHANGED up
     \/ up' = FALSE /\ UNCHANGED <<num_regist_recv, ready, zht>>
  /\ UNCHANGED <<partition, slurmd, tries, net, source, resource, freed>>

\* A job takes an idle node (_allocate_node, modelled in JobLaunch).
JobTakes ==
  /\ zht # NoRes /\ zht.num > 0
  /\ zht' = remaining(zht, 1)
  /\ UNCHANGED <<partition, slurmd, tries, net, handlers, source,
                 num_regist_recv, resource, freed, ready, up>>

Slurmd(n) == Send(n) \/ Timeout(n)

RegNext ==
  \/ \E n \in Node : Slurmd(n)
  \/ \E n \in Node, k \in 1 .. MaxTries :
       Lose(n, k) \/ Answer(n, k) \/ Record(n, k) \/ RecordAfterFree(n, k)
  \/ JobTakes

RegSpec == RegInit /\ [][RegNext]_regVars

(***************************************************************************)
(* A slurmd keeps trying, what the network does not lose arrives, and the  *)
(* threads of the controller run.                                          *)
(***************************************************************************)
RegFairSpec ==
  /\ RegSpec
  /\ \A n \in Node : WF_regVars(Slurmd(n))
  /\ \A n \in Node, k \in 1 .. MaxTries :
       WF_regVars(Answer(n, k)) /\ WF_regVars(Record(n, k))
-----------------------------------------------------------------------------
\* When main starts the workload, the whole partition is registered: part_size
\* different nodes, each of which has sent a registration, are in the list that
\* went to ZHT.
ReadyMeansRegistered ==
  ready => /\ zht # NoRes
           /\ resource.num = part_size /\ Len(resource.nodes) = part_size
           /\ IsInjective(resource.nodes)
           /\ \A n \in Range(resource.nodes) : tries[n] > 0

\* The partition is put into ZHT once.  A registration that a slurmd sends
\* again after a lost answer never brings back a node that a job has taken
\* meanwhile, not even through the freed arrays.
InsertedOnce ==
  [][zht # NoRes => Range(zht'.nodes) \subseteq Range(zht.nodes)]_regVars

\* "blocked until all the slurmds have already registered" (main): once the
\* slurmds have their answer main gets past the loop on ready, if the partition
\* has one node.  Of a larger one it never does, since find_exist takes every
\* node after the first for known.
BecomesReady ==
  /\ (part_size = 1 /\ \A n \in partition : slurmd[n] = "registered") ~> ready
  /\ [](ready => part_size = 1)
=============================================================================
