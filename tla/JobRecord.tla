----------------------------- MODULE JobRecord -----------------------------
(***************************************************************************)
(* The job_resource structure a thread of SLURM++ fills while it allocates *)
(* nodes, and what insert_jobinfo_zht and _create_job_resource store of it *)
(* in ZHT and read back.                                                   *)
(*                                                                         *)
(* Source: controller/datastr.c, controller/pro_req.c and                  *)
(* _create_job_resource of controller/controller.c.                        *)
(***************************************************************************)
EXTENDS Integers, Sequences, Functions, ResList

CONSTANTS
  Ctrl,       \* controllers
  Node,       \* compute nodes
  mem_list,   \* the controller membership list, a sequence
  Partition   \* the nodes of each controller, in the order they registered

num_ctrl == Len(mem_list)

ASSUME CtrlAssumption ==
  /\ mem_list \in Seq(Ctrl)
  /\ \A c \in Ctrl : \E i \in 1 .. Len(mem_list) : mem_list[i] = c
  /\ \A i, k \in 1 .. Len(mem_list) : mem_list[i] = mem_list[k] => i = k
  /\ Len(mem_list) >= 1
  /\ NoStr \notin Ctrl

\* The indices of the arrays of a job_resource.
Slot == 0 .. num_ctrl - 1

\* The type of a job_resource structure.
JobResource ==
  [num_try : Nat, num_node : Nat, nodelist : Nat, ctrl_ids_1 : Seq(Ctrl),
   num_ctrl : Nat, ctrl_ids_2 : [Slot -> Ctrl \cup {NoStr}],
   node_alloc : [Slot -> Seq(Node)], self : BOOLEAN]

JobInfo == [ctrls : Seq(Ctrl), alloc : [Ctrl -> Seq(Node)], here : BOOLEAN]

(***************************************************************************)
(* job_resource.  The string nodelist is kept as the number of host names  *)
(* hostlist_create finds in it: strcat puts no comma between two parts, so *)
(* the last name of one and the first of the next become one name.         *)
(***************************************************************************)
init_job_resource ==
  [num_try |-> 0, num_node |-> 0, nodelist |-> 0, ctrl_ids_1 |-> << >>,
   num_ctrl |-> 0, ctrl_ids_2 |-> [i \in Slot |-> NoStr],
   node_alloc |-> [i \in Slot |-> << >>], self |-> TRUE]

\* Everything but num_ctrl goes back to its initial value.
reset_job_resource(r) == [init_job_resource EXCEPT !.num_ctrl = r.num_ctrl]

strcat_nodelist(n, k) == IF n = 0 THEN k ELSE n + k - 1

get_index(c) == CHOOSE i \in 1 .. num_ctrl : mem_list[i] = c

\* The array slot update_job_resource writes to; it can be out of range.
update_slot(r, c) ==
  LET index == find_exist(r.ctrl_ids_2, c, num_ctrl)
  IN  IF index < 0 THEN r.num_ctrl ELSE index

\* update_job_resource at controller me, with a slot in range.
update_job_resource(r, c, nodelist, me) ==
  LET new  == find_exist(r.ctrl_ids_2, c, num_ctrl) < 0
      slot == update_slot(r, c)
  IN  [num_try    |-> 0,
       num_node   |-> r.num_node + Len(nodelist),
       nodelist   |-> strcat_nodelist(r.nodelist, Len(nodelist)),
       ctrl_ids_1 |-> IF new THEN Append(r.ctrl_ids_1, c) ELSE r.ctrl_ids_1,
       num_ctrl   |-> IF new THEN r.num_ctrl + 1 ELSE r.num_ctrl,
       ctrl_ids_2 |-> IF new THEN [r.ctrl_ids_2 EXCEPT ![slot] = c]
                             ELSE r.ctrl_ids_2,
       node_alloc |-> [r.node_alloc EXCEPT ![slot] = @ \o nodelist],
       self       |-> r.self /\ get_index(c) >= get_index(me)]
-----------------------------------------------------------------------------
(***************************************************************************)
(* What insert_jobinfo_zht stores: the list of controllers, the nodes of   *)
(* each, and the mark "I am here".  The insert for an unset slot has the   *)
(* key of that mark.                                                       *)
(***************************************************************************)
jobinfo(r, me) ==
  LET used == {i \in Slot : i < r.num_ctrl}
  IN  [ctrls |-> r.ctrl_ids_1,
       alloc |-> [c \in Ctrl |->
                    IF \E i \in used : r.ctrl_ids_2[i] = c
                      THEN r.node_alloc[CHOOSE i \in used : r.ctrl_ids_2[i] = c]
                      ELSE << >>],
       here  |-> /\ r.self /\ find_exist(r.ctrl_ids_2, me, r.num_ctrl) >= 0
                 /\ \A i \in used : r.ctrl_ids_2[i] # NoStr]
-----------------------------------------------------------------------------
(***************************************************************************)
(* _create_job_resource builds the structure again from what is stored.    *)
(***************************************************************************)
\* MUTANT: the last controller of the list is left out.
create_job_resource_short(i) ==
  [init_job_resource EXCEPT
     !.ctrl_ids_1 = i.ctrls,
     !.num_ctrl   = Len(i.ctrls) - 1,
     !.ctrl_ids_2 = [k \in Slot |-> IF k < Len(i.ctrls) - 1 THEN i.ctrls[k + 1]
                                                            ELSE NoStr]]

create_job_resource(i) ==
  [init_job_resource EXCEPT
     !.ctrl_ids_1 = i.ctrls,
     !.num_ctrl   = Len(i.ctrls),
     !.ctrl_ids_2 = [k \in Slot |-> IF k < Len(i.ctrls) THEN i.ctrls[k + 1]
                                                        ELSE NoStr],
     !.node_alloc = [k \in Slot |-> IF k < Len(i.ctrls)
                                      THEN i.alloc[i.ctrls[k + 1]] ELSE << >>]]
=============================================================================
