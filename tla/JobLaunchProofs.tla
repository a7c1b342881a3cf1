-------------------------- MODULE JobLaunchProofs ---------------------------
(***************************************************************************)
(* Proofs about JobLaunch, for every set of controllers, nodes and jobs,   *)
(* every partition size and every number of deliveries of a completion:    *)
(* what the string functions of ResList and the operations on a            *)
(* job_resource structure do; the inductive invariant behind type          *)
(* correctness and the soundness of the resource strings; that it holds;   *)
(* and what it says of the steps that move nodes.  JobLaunchHoldings shows *)
(* what follows for the nodes of the jobs.                                 *)
(***************************************************************************)
EXTENDS JobLaunch, WellFoundedInduction, TLAPS

\* The structure r of the thread of a job that asks for need nodes.  Written
\* slots name a controller and hold nodes of its partition; a slot without a
\* name can only hold nodes behind a named slot 0; every allocation but the
\* first one costs a host name.
Shape(r, need) ==
  /\ r.num_ctrl <= num_ctrl
  /\ \A i \in Slot : i >= r.num_ctrl => r.ctrl_ids_2[i] = NoStr
  /\ \A i \in Slot : r.ctrl_ids_2[i] # NoStr =>
       /\ r.node_alloc[i] # << >>
       /\ Range(r.node_alloc[i]) \subseteq Range(Partition[r.ctrl_ids_2[i]])
  /\ r.ctrl_ids_2[0] = NoStr =>
       \A i \in Slot : r.ctrl_ids_2[i] = NoStr => r.node_alloc[i] = << >>
  /\ \A k \in 1 .. Len(r.ctrl_ids_1) :
       \E i \in Slot : i < r.num_ctrl /\ r.ctrl_ids_2[i] = r.ctrl_ids_1[k]
  /\ Len(r.ctrl_ids_1) <= r.num_ctrl
  /\ r.ctrl_ids_1 = << >> =>
       /\ \A i \in Slot : r.ctrl_ids_2[i] = NoStr
       /\ r.num_node = 0 /\ r.nodelist = 0
  /\ r.ctrl_ids_1 # << >> =>
       r.nodelist >= 1 /\ r.nodelist + Len(r.ctrl_ids_1) <= r.num_node + 1
  /\ r.num_node <= need

\* The record of a job that can be launched: the nodes of one controller.
OneController(i) ==
  /\ Len(i.ctrls) = 1
  /\ i.alloc[i.ctrls[1]] # << >>
  /\ \A c \in Ctrl : Range(i.alloc[c]) \subseteq Range(Partition[c])

\* A resource string whose count is the number of its names.
Sound(v) == v.num = Len(v.nodes)

Launched == {"launch", "belong", "wait", "count", "done"}

\* The thread of a job.
RunOK(j) ==
  LET t == Run(j)
  IN  /\ Shape(jr[t], min_nodes[j])
      /\ pc[t] = "idle" => jr[t].num_node = 0
      /\ pc[t] \in {"lookup", "swap"} => jr[t].num_node < min_nodes[j]
      /\ pc[t] = "swap" => seen[t] # NoRes /\ res[tgt[j]] # NoRes
      /\ pc[t] \in Launched => OneController(info[j])
      /\ pc[t] \notin Launched \ {"launch"} => dest[j] = None

RunInv == \A j \in Job : RunOK(j)

\* The thread of the k-th delivery of its completion.
HandlerOK(j, k) ==
  LET t == <<j, k>>
  IN  /\ pc[t] \in {"idle", "release", "giveback", "done"}
      /\ pc[t] # "idle" => dest[j] # None /\ jr[t] = create_job_resource(info[j])

HandlerInv == \A j \in Job : \A k \in 1 .. MaxDelivery : HandlerOK(j, k)

\* A thread in the compare-and-swap of release_res.
GiveOK(t) ==
  LET key == jr[t].ctrl_ids_2[idx[t]]
  IN  pc[t] = "giveback" => /\ idx[t] < jr[t].num_ctrl /\ key \in Ctrl
                            /\ seen[t] # NoRes /\ res[key] # NoRes

GiveInv == \A t \in Thread : GiveOK(t)

IInv == TypeOK /\ ResourceStringsSound /\ RunInv /\ HandlerInv /\ GiveInv
-----------------------------------------------------------------------------
(***************************************************************************)
(* The strings.                                                            *)
(***************************************************************************)
\* Taking k nodes from a sound string splits it: what the job gets and what is
\* left behind have different nodes, together those of the string, and the
\* string left behind is sound.
THEOREM TakeSplits ==
  ASSUME NEW N, NEW v \in ResVal(N), Sound(v), NEW k \in Nat, k <= v.num
  PROVE  LET a == allocated(v, k)
             r == remaining(v, k)
         IN  /\ a \in Seq(N) /\ Len(a) = k /\ r \in ResVal(N) /\ Sound(r)
             /\ \A i \in 1 .. k : a[i] = v.nodes[i]
             /\ \A i \in 1 .. Len(r.nodes) : r.nodes[i] = v.nodes[k + i]
             /\ Len(r.nodes) = v.num - k
<1>1. v.num \in Nat /\ v.nodes \in Seq(N) /\ Len(v.nodes) = v.num
  BY Zenon DEF ResVal, Sound
<1>2. \A i \in 1 .. v.num : v.nodes[i] \in N
  BY <1>1
<1>3. /\ allocated(v, k) \in Seq(N) /\ Len(allocated(v, k)) = k
      /\ \A i \in 1 .. k : allocated(v, k)[i] = v.nodes[i]
  BY <1>1, <1>2 DEF allocated
<1> DEFINE s == SubSeq(v.nodes, k + 1, v.num)
<1>4. /\ s \in Seq(N) /\ Len(s) = v.num - k
      /\ \A i \in 1 .. v.num - k : s[i] = v.nodes[k + i]
  BY <1>1, <1>2
<1>5. remaining(v, k).num = v.num - k /\ remaining(v, k).nodes = s
      /\ remaining(v, k) = [num |-> v.num - k, nodes |-> s]
  BY Zenon DEF remaining
<1> HIDE DEF s
<1>6. remaining(v, k) \in ResVal(N) /\ Sound(remaining(v, k))
  BY <1>1, <1>4, <1>5 DEF ResVal, Sound
<1> QED BY <1>1, <1>3, <1>4, <1>5, <1>6, Zenon

\* What is taken from a sound string and what is left were in it.
LEMMA TakeRange ==
  ASSUME NEW v \in ResVal(Node), Sound(v), NEW k \in Nat, k <= v.num
  PROVE  /\ allocated(v, k) \in Seq(Node) /\ Len(allocated(v, k)) = k
         /\ remaining(v, k) \in ResVal(Node) /\ Sound(remaining(v, k))
         /\ Range(allocated(v, k)) \subseteq Range(v.nodes)
         /\ Range(remaining(v, k).nodes) \subseteq Range(v.nodes)
<1> DEFINE a == allocated(v, k)
           n == remaining(v, k).nodes
<1>1. /\ a \in Seq(Node) /\ Len(a) = k
      /\ remaining(v, k) \in ResVal(Node) /\ Sound(remaining(v, k))
      /\ \A i \in 1 .. k : a[i] = v.nodes[i]
      /\ \A i \in 1 .. Len(n) : n[i] = v.nodes[k + i]
      /\ Len(n) = v.num - k
  BY TakeSplits
<1>2. v.nodes \in Seq(Node) /\ n \in Seq(Node) /\ Len(v.nodes) = v.num /\ v.num \in Nat
  BY <1>1, Zenon DEF ResVal, Sound
<1> HIDE DEF a, n
<1>3. /\ DOMAIN a = 1 .. k /\ DOMAIN n = 1 .. v.num - k /\ DOMAIN v.nodes = 1 .. v.num
  BY <1>1, <1>2
<1>4. /\ \A i \in 1 .. k : i \in 1 .. v.num
      /\ \A i \in 1 .. v.num - k : k + i \in 1 .. v.num
  BY ONLY <1>2, k \in Nat, k <= v.num, SMTT(40)
<1>5. Range(a) \subseteq Range(v.nodes)
  BY <1>1, <1>3, <1>4 DEF Range
<1>6. Range(n) \subseteq Range(v.nodes)
  <2>1. \A i \in 1 .. v.num - k : n[i] \in Range(v.nodes)
    BY <1>1, <1>3, <1>4, Zenon DEF Range
  <2> QED BY <2>1, <1>3, Zenon DEF Range
<1> QED BY <1>1, <1>5, <1>6, Zenon DEF a, n

\* Nothing of it gets lost.
LEMMA TakeAll ==
  ASSUME NEW v \in ResVal(Node), Sound(v), NEW k \in Nat, k <= v.num
  PROVE  Range(v.nodes) \subseteq Range(allocated(v, k)) \cup Range(remaining(v, k).nodes)
<1> DEFINE a == allocated(v, k)
           n == remaining(v, k).nodes
<1>1. /\ a \in Seq(Node) /\ Len(a) = k /\ remaining(v, k) \in ResVal(Node)
      /\ \A i \in 1 .. k : a[i] = v.nodes[i]
      /\ \A i \in 1 .. Len(n) : n[i] = v.nodes[k + i]
      /\ Len(n) = v.num - k
  BY TakeSplits
<1>2. v.nodes \in Seq(Node) /\ n \in Seq(Node) /\ Len(v.nodes) = v.num /\ v.num \in Nat
  BY <1>1, Zenon DEF ResVal, Sound
<1> HIDE DEF a, n
<1>3. DOMAIN a = 1 .. k /\ DOMAIN n = 1 .. v.num - k /\ DOMAIN v.nodes = 1 .. v.num
  BY <1>1, <1>2
<1>4. ASSUME NEW i \in 1 .. v.num PROVE v.nodes[i] \in Range(a) \cup Range(n)
  <2>1. CASE i <= k
    <3>1. i \in 1 .. k
      BY <2>1
    <3> QED BY <3>1, <1>1, <1>3, Zenon DEF Range
  <2>2. CASE i > k
    <3>1. i - k \in 1 .. v.num - k /\ k + (i - k) = i
      BY <2>2, <1>2
    <3>2. n[i - k] = v.nodes[i]
      BY <3>1, <1>1, Zenon
    <3> QED BY <3>1, <3>2, <1>3, Zenon DEF Range
  <2> QED BY <2>1, <2>2, <1>2
<1>5. Range(v.nodes) \subseteq Range(a) \cup Range(n)
  BY <1>3, <1>4, Zenon DEF Range
<1> QED BY <1>5, Zenon DEF a, n

\* merge_res_str appends the returned nodes, and its result is sound whatever
\* count its first argument had.
THEOREM MergeAppends ==
  ASSUME NEW N, NEW p \in ResVal(N), NEW a \in Seq(N)
  PROVE  /\ merge_res_str(p, a) \in ResVal(N) /\ Sound(merge_res_str(p, a))
         /\ merge_res_str(p, a).nodes = p.nodes \o a
BY DEF merge_res_str, ResVal, Sound

\* The elements of two lists put together.
LEMMA RangeConcat ==
  ASSUME NEW S, NEW p \in Seq(S), NEW q \in Seq(S)
  PROVE  Range(p \o q) = Range(p) \cup Range(q)
<1>1. /\ DOMAIN p = 1 .. Len(p) /\ DOMAIN q = 1 .. Len(q)
      /\ DOMAIN (p \o q) = 1 .. Len(p) + Len(q)
      /\ Len(p) \in Nat /\ Len(q) \in Nat
  OBVIOUS
<1>2. /\ \A i \in 1 .. Len(p) : (p \o q)[i] = p[i]
      /\ \A i \in 1 .. Len(q) : (p \o q)[Len(p) + i] = q[i]
      /\ \A i \in 1 .. Len(p) + Len(q) :
           i \in 1 .. Len(p) \/ (i - Len(p) \in 1 .. Len(q)
                                /\ (p \o q)[i] = q[i - Len(p)])
  BY <1>1
<1>3. \A i \in 1 .. Len(p) : i \in 1 .. Len(p) + Len(q)
  BY <1>1
<1>4. \A i \in 1 .. Len(q) : Len(p) + i \in 1 .. Len(p) + Len(q)
  BY <1>1
<1>5. Range(p \o q) \subseteq Range(p) \cup Range(q)
  BY <1>1, <1>2 DEF Range
<1>6. Range(p) \subseteq Range(p \o q)
  BY <1>1, <1>2, <1>3 DEF Range
<1>7. Range(q) \subseteq Range(p \o q)
  <2>1. \A i \in 1 .. Len(q) : q[i] \in Range(p \o q)
    <3>1. \A i \in 1 .. Len(p) + Len(q) : (p \o q)[i] \in Range(p \o q)
      BY <1>1, Zenon DEF Range
    <3>2. \A i \in 1 .. Len(q) : (p \o q)[Len(p) + i] \in Range(p \o q)
      BY ONLY <3>1, <1>4, Zenon
    <3> QED BY ONLY <3>2, <1>2, Zenon
  <2> QED BY <2>1, <1>1, Zenon DEF Range
<1> QED BY <1>5, <1>6, <1>7, Zenon

\* Lists without repetition and without a common element, put together.
LEMMA ConcatInjective ==
  ASSUME NEW S, NEW p \in Seq(S), NEW q \in Seq(S), IsInjective(p), IsInjective(q),
         Range(p) \cap Range(q) = {}
  PROVE  IsInjective(p \o q)
<1>1. /\ DOMAIN p = 1 .. Len(p) /\ DOMAIN q = 1 .. Len(q)
      /\ DOMAIN (p \o q) = 1 .. Len(p) + Len(q)
      /\ Len(p) \in Nat /\ Len(q) \in Nat
  OBVIOUS
<1>2. \A i \in 1 .. Len(p) + Len(q) :
        \/ i \in 1 .. Len(p) /\ (p \o q)[i] = p[i]
        \/ i - Len(p) \in 1 .. Len(q) /\ (p \o q)[i] = q[i - Len(p)]
  BY <1>1
<1>3. \A i \in 1 .. Len(p) : \A k \in 1 .. Len(q) : p[i] # q[k]
  BY <1>1, Zenon DEF Range
<1>4. /\ \A i, k \in 1 .. Len(p) : p[i] = p[k] => i = k
      /\ \A i, k \in 1 .. Len(q) : q[i] = q[k] => i = k
  BY <1>1, Zenon DEF IsInjective
<1> DEFINE s == p \o q
<1>5. ASSUME NEW i \in 1 .. Len(p) + Len(q), NEW k \in 1 .. Len(p) + Len(q), s[i] = s[k]
      PROVE  i = k
  <2> HIDE DEF s
  <2>1. CASE i \in 1 .. Len(p) /\ k \in 1 .. Len(p) /\ s[i] = p[i] /\ s[k] = p[k]
    BY ONLY <2>1, <1>4, <1>5, Zenon
  <2>2. CASE i \in 1 .. Len(p) /\ k - Len(p) \in 1 .. Len(q)
             /\ s[i] = p[i] /\ s[k] = q[k - Len(p)]
    BY ONLY <2>2, <1>3, <1>5, Zenon
  <2>3. CASE i - Len(p) \in 1 .. Len(q) /\ k \in 1 .. Len(p)
             /\ s[i] = q[i - Len(p)] /\ s[k] = p[k]
    BY ONLY <2>3, <1>3, <1>5, Zenon
  <2>4. CASE i - Len(p) \in 1 .. Len(q) /\ k - Len(p) \in 1 .. Len(q)
             /\ s[i] = q[i - Len(p)] /\ s[k] = q[k - Len(p)]
    <3>1. i - Len(p) = k - Len(p)
      BY ONLY <2>4, <1>4, <1>5, Zenon
    <3>2. i \in Int /\ k \in Int /\ Len(p) \in Int
      BY <1>1
    <3> QED BY ONLY <3>1, <3>2, SMTT(40)
  <2> QED BY <1>2, <2>1, <2>2, <2>3, <2>4, Zenon DEF s
<1> QED BY <1>1, <1>5, Zenon DEF IsInjective

\* Taking from a string without repetition gives two disjoint ones.
LEMMA TakeInjective ==
  ASSUME NEW v \in ResVal(Node), Sound(v), NEW k \in Nat, k <= v.num,
         IsInjective(v.nodes)
  PROVE  /\ IsInjective(allocated(v, k)) /\ IsInjective(remaining(v, k).nodes)
         /\ Range(allocated(v, k)) \cap Range(remaining(v, k).nodes) = {}
<1> DEFINE a == allocated(v, k)
           n == remaining(v, k).nodes
<1>1. /\ a \in Seq(Node) /\ Len(a) = k /\ remaining(v, k) \in ResVal(Node)
      /\ \A i \in 1 .. k : a[i] = v.nodes[i]
      /\ \A i \in 1 .. Len(n) : n[i] = v.nodes[k + i]
      /\ Len(n) = v.num - k
  BY TakeSplits
<1>2. /\ v.nodes \in Seq(Node) /\ n \in Seq(Node) /\ Len(v.nodes) = v.num
      /\ v.num \in Nat
  BY <1>1, Zenon DEF ResVal, Sound
<1>3. \A i, m \in 1 .. v.num : v.nodes[i] = v.nodes[m] => i = m
  BY <1>2 DEF IsInjective
<1> HIDE DEF a, n
<1>4. DOMAIN a = 1 .. k /\ DOMAIN n = 1 .. v.num - k
  BY <1>1, <1>2
<1>5. /\ \A i \in 1 .. k : i \in 1 .. v.num
      /\ \A i \in 1 .. v.num - k : k + i \in 1 .. v.num
      /\ \A i \in 1 .. k : \A m \in 1 .. v.num - k : i # k + m
      /\ \A i, m \in 1 .. v.num - k : k + i = k + m => i = m
  BY ONLY <1>2, k \in Nat, k <= v.num, SMTT(40)
<1>6. \A i \in 1 .. v.num - k : n[i] = v.nodes[k + i]
  BY <1>1, Zenon
<1>7. IsInjective(a)
  BY <1>1, <1>3, <1>4, <1>5, Zenon DEF IsInjective
<1>8. \A i, m \in 1 .. v.num - k : n[i] = n[m] => i = m
  BY ONLY <1>3, <1>5, <1>6, Zenon
<1>9. ASSUME NEW i \in 1 .. k, NEW m \in 1 .. v.num - k PROVE a[i] # n[m]
  <2>1. a[i] = v.nodes[i] /\ n[m] = v.nodes[k + m]
    BY <1>1, <1>6, Zenon
  <2>2. i \in 1 .. v.num /\ k + m \in 1 .. v.num /\ i # k + m
    BY ONLY <1>5, i \in 1 .. k, m \in 1 .. v.num - k, Zenon
  <2> QED BY ONLY <2>1, <2>2, <1>3, Zenon
<1>10. IsInjective(n)
  BY <1>4, <1>8, Zenon DEF IsInjective
<1>11. Range(a) \cap Range(n) = {}
  BY <1>4, <1>9, Zenon DEF Range
<1> QED BY <1>7, <1>10, <1>11, Zenon DEF a, n
-----------------------------------------------------------------------------
(***************************************************************************)
(* The structures.                                                         *)
(***************************************************************************)
\* The arrays of a job_resource have an entry for every controller.
LEMMA Slots ==
  /\ num_ctrl \in Nat /\ num_ctrl >= 1 /\ 0 \in Slot /\ Slot \subseteq Nat
  /\ NoStr \notin Ctrl
  /\ \A c \in Ctrl : get_index(c) \in Nat
<1>1. Len(mem_list) \in Nat /\ Len(mem_list) >= 1
  BY CtrlAssumption
<1>2. \A c \in Ctrl : get_index(c) \in 1 .. num_ctrl
  BY CtrlAssumption, Zenon DEF get_index, num_ctrl
<1>3. num_ctrl \in Nat /\ num_ctrl >= 1 /\ 0 \in Slot /\ Slot \subseteq Nat
  BY <1>1 DEF num_ctrl, Slot
<1>4. \A c \in Ctrl : get_index(c) \in Nat
  BY <1>2, <1>3
<1> QED BY <1>3, <1>4, CtrlAssumption, Zenon

\* An index below num_ctrl is one of a slot.
LEMMA SlotIndex ==
  ASSUME NEW i \in Nat, NEW n \in Nat, i < n, n <= num_ctrl
  PROVE  i \in Slot
<1>1. num_ctrl \in Nat
  BY Slots, Zenon
<1>2. i \in 0 .. num_ctrl - 1
  BY ONLY <1>1, i \in Nat, n \in Nat, i < n, n <= num_ctrl, SMTT(40)
<1> QED BY <1>2, Zenon DEF Slot

\* What do_allocate attempts to take is positive and available.
LEMMA MinOf ==
  ASSUME NEW x \in Nat, NEW y \in Nat, NEW n \in Nat, x < y, n > 0
  PROVE  LET k == IF n > y - x THEN y - x ELSE n
         IN  k \in Nat /\ k >= 1 /\ k <= n /\ x + k <= y
OBVIOUS

\* A structure that was just initialised.
LEMMA InitialShape ==
  /\ init_job_resource \in JobResource
  /\ \A need \in Nat : Shape(init_job_resource, need)
<1>1. init_job_resource \in JobResource
  BY DEF init_job_resource, JobResource
<1>2. ASSUME NEW need \in Nat PROVE Shape(init_job_resource, need)
  BY Slots DEF init_job_resource, Shape
<1> QED BY <1>1, <1>2, Zenon

\* reset_job_resource keeps num_ctrl and nothing else.
LEMMA ResetShape ==
  ASSUME NEW r \in JobResource, NEW need \in Nat, Shape(r, need)
  PROVE  /\ reset_job_resource(r) \in JobResource
         /\ Shape(reset_job_resource(r), need)
         /\ reset_job_resource(r).num_node = 0
<1>1. r.num_ctrl \in Nat /\ r.num_ctrl <= num_ctrl
  BY Zenon DEF JobResource, Shape
<1> DEFINE e == reset_job_resource(r)
<1>2. /\ e \in JobResource /\ e.num_ctrl = r.num_ctrl
      /\ e.num_node = init_job_resource.num_node
      /\ e.nodelist = init_job_resource.nodelist
      /\ e.ctrl_ids_1 = init_job_resource.ctrl_ids_1
      /\ e.ctrl_ids_2 = init_job_resource.ctrl_ids_2
      /\ e.node_alloc = init_job_resource.node_alloc
  BY <1>1, InitialShape, Zenon DEF reset_job_resource, JobResource
<1>3. /\ e.num_node = 0 /\ e.nodelist = 0 /\ e.ctrl_ids_1 = << >>
      /\ e.ctrl_ids_2 = [i \in Slot |-> NoStr]
      /\ e.node_alloc = [i \in Slot |-> << >>]
  BY <1>2, Zenon DEF init_job_resource
<1> HIDE DEF e
<1>4. Shape(e, need)
  BY <1>1, <1>2, <1>3, Slots DEF Shape
<1> QED BY <1>2, <1>3, <1>4, Zenon DEF e

\* What _create_job_resource reads back of such a record.
LEMMA CompletionShape ==
  ASSUME NEW i \in JobInfo, OneController(i)
  PROVE  LET r == create_job_resource(i)
         IN  /\ r \in JobResource /\ r.num_ctrl = 1 /\ i.ctrls[1] \in Ctrl
             /\ r.ctrl_ids_2 = [k \in Slot |-> IF k = 0 THEN i.ctrls[1] ELSE NoStr]
             /\ r.node_alloc = [k \in Slot |-> IF k = 0 THEN i.alloc[i.ctrls[1]]
                                                        ELSE << >>]
<1> DEFINE r == create_job_resource(i)
<1>1. /\ i.ctrls \in Seq(Ctrl) /\ Len(i.ctrls) = 1 /\ i.ctrls[1] \in Ctrl
      /\ i.alloc[i.ctrls[1]] \in Seq(Node)
  BY DEF JobInfo, OneController
<1> DEFINE ids == [k \in Slot |-> IF k < Len(i.ctrls) THEN i.ctrls[k + 1] ELSE NoStr]
           nds == [k \in Slot |-> IF k < Len(i.ctrls)
                                    THEN i.alloc[i.ctrls[k + 1]] ELSE << >>]
<1>2. \A k \in Slot : k < 1 <=> k = 0
  BY Slots
<1>3. /\ ids = [k \in Slot |-> IF k = 0 THEN i.ctrls[1] ELSE NoStr]
      /\ nds = [k \in Slot |-> IF k = 0 THEN i.alloc[i.ctrls[1]] ELSE << >>]
  BY <1>1, <1>2
<1>4. ids \in [Slot -> Ctrl \cup {NoStr}] /\ nds \in [Slot -> Seq(Node)]
  <2>1. << >> \in Seq(Node)
    OBVIOUS
  <2> HIDE DEF ids, nds
  <2>2. ids \in [Slot -> Ctrl \cup {NoStr}]
    BY ONLY <1>1, <1>3, Zenon
  <2>3. nds \in [Slot -> Seq(Node)]
    BY ONLY <1>1, <1>3, <2>1, Zenon
  <2> QED BY <2>2, <2>3, Zenon
<1> HIDE DEF ids, nds
<1>5. r = [init_job_resource EXCEPT !.ctrl_ids_1 = i.ctrls, !.num_ctrl = Len(i.ctrls),
             !.ctrl_ids_2 = ids, !.node_alloc = nds]
  BY Zenon DEF create_job_resource, ids, nds
<1>6. r \in JobResource /\ r.num_ctrl = 1 /\ r.ctrl_ids_2 = ids /\ r.node_alloc = nds
  <2> HIDE DEF r
  <2>1. \A x \in JobResource : \A ids1 \in Seq(Ctrl) :
          LET e == [x EXCEPT !.ctrl_ids_1 = ids1, !.num_ctrl = 1,
                             !.ctrl_ids_2 = ids, !.node_alloc = nds]
          IN  /\ e \in JobResource /\ e.num_ctrl = 1
              /\ e.ctrl_ids_2 = ids /\ e.node_alloc = nds
    BY ONLY <1>4, Zenon DEF JobResource
  <2> QED BY <2>1, <1>1, <1>5, InitialShape, ZenonT(40)
<1> QED BY <1>1, <1>3, <1>6, Zenon
-----------------------------------------------------------------------------
(***************************************************************************)
(* The threads, and the nodes they take and give back.                     *)
(***************************************************************************)
\* What the assumptions say of the constants.
LEMMA Sizes ==
  /\ num_ctrl \in Nat /\ num_ctrl >= 1 /\ 0 \in Slot /\ Slot \subseteq Nat
  /\ \A j \in Job : min_nodes[j] \in Nat /\ min_nodes[j] >= 1 /\ origin[j] \in Ctrl
  /\ NoStr \notin Ctrl /\ None \notin Ctrl /\ NoRes \notin ResVal(Node)
<1>1. \A j \in Job : min_nodes[j] \in Nat /\ min_nodes[j] >= 1 /\ origin[j] \in Ctrl
  BY JobAssumption
<1>2. None \notin Ctrl /\ NoRes \notin ResVal(Node)
  BY JobAssumption, PartitionAssumption, Zenon
<1> QED BY <1>1, <1>2, Slots, Zenon

\* A thread runs one job or handles one delivery, and no thread does both.
LEMMA Threads ==
  /\ \A j \in Job : Run(j) \in Thread
  /\ \A j \in Job, k \in 1 .. MaxDelivery : <<j, k>> \in Thread /\ k # 0
  /\ \A t \in Thread : \E j \in Job : \/ t = Run(j)
                                      \/ \E k \in 1 .. MaxDelivery : t = <<j, k>>
  /\ \A j, m \in Job : Run(j) = Run(m) => j = m
  /\ \A j, m \in Job : \A k \in 1 .. MaxDelivery : Run(j) # <<m, k>>
BY JobAssumption DEF Run, Thread

\* The places a thread can be at.
LEMMA Labels ==
  /\ {"idle", "lookup", "swap", "draw", "release", "giveback"} \subseteq Label
  /\ {"launch", "belong", "wait", "count", "done", "failed"} \subseteq Label
BY Zenon DEF Label

\* What the invariant says of the thread of job j, and of types.
LEMMA RunFacts ==
  ASSUME IInv, NEW j \in Job
  PROVE  /\ TypeOK /\ ResourceStringsSound /\ RunOK(j) /\ GiveOK(Run(j))
         /\ Run(j) \in Thread /\ jr[Run(j)] \in JobResource /\ tgt[j] \in Ctrl
         /\ origin[j] \in Ctrl
BY Threads, Sizes, Zenon DEF IInv, TypeOK, RunInv, GiveInv

\* What the compare-and-swap of _allocate_node takes and leaves.
LEMMA SwapFacts ==
  ASSUME IInv, NEW j \in Job, AllocSwap(j)
  PROVE  LET t == Run(j)
             more == min_nodes[j] - jr[t].num_node
             k == IF seen[t].num > more THEN more ELSE seen[t].num
             v == res[tgt[j]]
         IN  /\ v = seen[t] /\ v \in ResVal(Node) /\ Sound(v)
             /\ Range(v.nodes) \subseteq Range(Partition[tgt[j]])
             /\ k \in Nat /\ k >= 1 /\ k <= v.num
             /\ jr[t].num_node + k <= min_nodes[j]
<1> DEFINE t == Run(j)
           more == min_nodes[j] - jr[t].num_node
           k == IF seen[t].num > more THEN more ELSE seen[t].num
           v == res[tgt[j]]
<1>1. /\ TypeOK /\ ResourceStringsSound /\ RunOK(j) /\ t \in Thread
      /\ jr[t] \in JobResource /\ tgt[j] \in Ctrl
  BY RunFacts, Zenon
<1>2. v = seen[t] /\ pc[t] = "swap" /\ seen[t].num > 0
  BY Zenon DEF AllocSwap, compare_swap
<1>3. v # NoRes /\ v \in ResVal(Node)
  BY <1>1, <1>2, Zenon DEF RunOK, TypeOK
<1>4. Sound(v) /\ Range(v.nodes) \subseteq Range(Partition[tgt[j]])
  BY <1>1, <1>3, Zenon DEF ResourceStringsSound, Sound, Free
<1>5. /\ jr[t].num_node < min_nodes[j] /\ jr[t].num_node \in Nat
      /\ min_nodes[j] \in Nat /\ v.num \in Nat /\ v.num > 0
  BY <1>1, <1>2, <1>3, Sizes, Zenon DEF RunOK, JobResource, ResVal
<1>6. k \in Nat /\ k >= 1 /\ k <= v.num /\ jr[t].num_node + k <= min_nodes[j]
  <2>1. seen[t].num \in Nat /\ seen[t].num > 0
    BY ONLY <1>2, <1>5, Zenon
  <2>2. k \in Nat /\ k >= 1 /\ k <= seen[t].num /\ jr[t].num_node + k <= min_nodes[j]
    BY ONLY <2>1, <1>5, MinOf, Zenon
  <2> QED BY ONLY <2>2, <1>2, Zenon
<1> HIDE DEF k, v
<1> QED BY <1>2, <1>3, <1>4, <1>6, Zenon DEF k, v

\* The structure release_res works on, in either kind of thread.
LEMMA ReleaseSlots ==
  ASSUME IInv, NEW t \in Thread, pc[t] \in {"release", "giveback"}
  PROVE  /\ jr[t] \in JobResource /\ jr[t].num_ctrl <= num_ctrl
         /\ \A i \in Slot : jr[t].ctrl_ids_2[i] \in Ctrl =>
              Range(jr[t].node_alloc[i]) \subseteq Range(Partition[jr[t].ctrl_ids_2[i]])
<1>1. jr[t] \in JobResource
  BY Zenon DEF IInv, TypeOK
<1>2. PICK j \in Job : t = Run(j) \/ \E k \in 1 .. MaxDelivery : t = <<j, k>>
  BY Threads, Zenon
<1>3. RunOK(j) /\ info[j] \in JobInfo
  BY Zenon DEF IInv, RunInv, TypeOK
<1>4. CASE t = Run(j)
  <2>1. Shape(jr[t], min_nodes[j])
    BY <1>3, <1>4, Zenon DEF RunOK
  <2> QED BY <2>1, <1>1, Sizes, Zenon DEF Shape
<1>5. CASE \E k \in 1 .. MaxDelivery : t = <<j, k>>
  <2>1. PICK k \in 1 .. MaxDelivery : t = <<j, k>>
    BY <1>5, Zenon
  <2>2. HandlerOK(j, k)
    BY Zenon DEF IInv, HandlerInv
  <2>3. dest[j] # None /\ jr[t] = create_job_resource(info[j])
    BY <2>1, <2>2, Zenon DEF HandlerOK
  <2>4. OneController(info[j])
    BY <2>3, <1>3, Zenon DEF RunOK, Launched
  <2>5. /\ jr[t].num_ctrl = 1 /\ info[j].ctrls[1] \in Ctrl
        /\ jr[t].ctrl_ids_2 = [m \in Slot |-> IF m = 0 THEN info[j].ctrls[1] ELSE NoStr]
        /\ jr[t].node_alloc = [m \in Slot |-> IF m = 0 THEN info[j].alloc[info[j].ctrls[1]]
                                                       ELSE << >>]
    BY <2>3, <2>4, <1>3, CompletionShape, Zenon
  <2>6. Range(info[j].alloc[info[j].ctrls[1]]) \subseteq Range(Partition[info[j].ctrls[1]])
    BY <2>4, <2>5, Zenon DEF OneController
  <2>7. \A i \in Slot : jr[t].ctrl_ids_2[i] \in Ctrl =>
          Range(jr[t].node_alloc[i]) \subseteq Range(Partition[jr[t].ctrl_ids_2[i]])
    BY <2>5, <2>6, Sizes, Zenon
  <2> QED BY <2>5, <2>7, <1>1, Sizes, Zenon
<1> QED BY <1>2, <1>4, <1>5, Zenon

\* What a compare-and-swap of release_res writes.
LEMMA GiveFacts ==
  ASSUME IInv, NEW t \in Thread, pc[t] = "giveback"
  PROVE  LET key == jr[t].ctrl_ids_2[idx[t]]
             part == jr[t].node_alloc[idx[t]]
         IN  /\ idx[t] \in Slot /\ key \in Ctrl /\ res[key] \in ResVal(Node)
             /\ Sound(res[key]) /\ Range(res[key].nodes) \subseteq Range(Partition[key])
             /\ part \in Seq(Node) /\ Range(part) \subseteq Range(Partition[key])
<1> DEFINE key == jr[t].ctrl_ids_2[idx[t]]
           part == jr[t].node_alloc[idx[t]]
<1>1. TypeOK /\ ResourceStringsSound /\ GiveOK(t)
  BY Zenon DEF IInv, GiveInv
<1>2. idx[t] < jr[t].num_ctrl /\ key \in Ctrl /\ res[key] # NoRes /\ idx[t] \in Nat
  BY <1>1, Zenon DEF GiveOK, TypeOK
<1>3. /\ jr[t] \in JobResource /\ jr[t].num_ctrl <= num_ctrl
      /\ \A i \in Slot : jr[t].ctrl_ids_2[i] \in Ctrl =>
           Range(jr[t].node_alloc[i]) \subseteq Range(Partition[jr[t].ctrl_ids_2[i]])
  BY ReleaseSlots, Zenon
<1>4. jr[t].num_ctrl \in Nat /\ jr[t].node_alloc \in [Slot -> Seq(Node)]
  BY <1>3, Zenon DEF JobResource
<1>5. idx[t] \in Slot
  BY <1>2, <1>3, <1>4, SlotIndex, Zenon
<1>6. res[key] \in ResVal(Node)
  BY <1>1, <1>2, Zenon DEF TypeOK
<1>7. Sound(res[key]) /\ Range(res[key].nodes) \subseteq Range(Partition[key])
  BY <1>1, <1>2, Zenon DEF ResourceStringsSound, Sound, Free
<1> QED BY <1>2, <1>3, <1>4, <1>5, <1>6, <1>7, Zenon

-----------------------------------------------------------------------------
(***************************************************************************)
(* The slots of a structure, and what an allocation does to it.            *)
(***************************************************************************)
\* A nonempty set of naturals has a least element.
LEMMA NatMin ==
  ASSUME NEW S \in SUBSET Nat, S # {}
  PROVE  \E i \in S : \A k \in S : i <= k
<1>1. \E x \in S : \A y \in S : ~ (<<y, x>> \in OpToRel(<, Nat))
  BY NatLessThanWellFounded, WFMin, Zenon
<1>2. PICK x \in S : \A y \in S : ~ (<<y, x>> \in OpToRel(<, Nat))
  BY <1>1, Zenon
<1>3. ASSUME NEW y \in S, y < x PROVE FALSE
  <2>1. <<y, x>> \in OpToRel(<, Nat)
    BY <1>3, Zenon DEF OpToRel
  <2> QED BY <2>1, <1>2, Zenon
<1>4. \A k \in S : x <= k
  BY ONLY <1>3, S \in SUBSET Nat, x \in S
<1> QED BY ONLY <1>4, x \in S, Zenon

\* find_exist returns -1, or an index that holds target or is unset behind a
\* set first entry.  It returns -1 only when the first entry is unset or when
\* every entry is set and differs from target.
THEOREM FindExist ==
  ASSUME NEW source, NEW target, NEW size \in Nat
  PROVE  LET f == find_exist(source, target, size)
         IN  /\ f \in Int
             /\ \/ /\ f = -1
                   /\ \/ source[0] = NoStr
                      \/ \A i \in 0 .. size - 1 : source[i] \notin {target, NoStr}
                \/ /\ f \in 0 .. size - 1
                   /\ source[0] # NoStr
                   /\ source[f] \in {target, NoStr}
<1> DEFINE stops == {i \in 0 .. size - 1 : source[i] \in {target, NoStr}}
           f == find_exist(source, target, size)
           least(i) == i \in stops /\ \A k \in stops : i <= k
<1>1. CASE source[0] = NoStr \/ stops = {}
  <2>1. f = -1
    BY <1>1, Zenon DEF find_exist
  <2> QED BY <1>1, <2>1
<1>2. CASE source[0] # NoStr /\ stops # {}
  <2>1. f = CHOOSE i \in stops : \A k \in stops : i <= k
    BY <1>2, Zenon DEF find_exist
  <2>2. \E i \in stops : \A k \in stops : i <= k
    <3>1. stops \in SUBSET Nat
      OBVIOUS
    <3> HIDE DEF stops
    <3> QED BY <3>1, <1>2, NatMin, Zenon
  <2>3. f \in stops
    <3> HIDE DEF stops, f
    <3> QED BY <2>1, <2>2, Zenon
  <2> QED BY <1>2, <2>3
<1> QED BY <1>1, <1>2, Zenon

\* Sums and minima, kept apart from what they count.
LEMMA SumShift ==
  ASSUME NEW x \in Nat, NEW y \in Nat, NEW z \in Nat, NEW w \in Nat,
         x + y <= z + 1
  PROVE  (x + w - 1) + (y + 1) <= (z + w) + 1
OBVIOUS

\* update_job_resource with nodes of the partition of c.
LEMMA UpdateShape ==
  ASSUME NEW r \in JobResource, NEW need \in Nat, Shape(r, need),
         NEW c \in Ctrl, NEW me \in Ctrl, NEW a \in Seq(Node), a # << >>,
         Range(a) \subseteq Range(Partition[c]), r.num_node + Len(a) <= need,
         update_slot(r, c) \in Slot
  PROVE  /\ update_job_resource(r, c, a, me) \in JobResource
         /\ Shape(update_job_resource(r, c, a, me), need)
<1> DEFINE f == find_exist(r.ctrl_ids_2, c, num_ctrl)
           slot == update_slot(r, c)
           u == update_job_resource(r, c, a, me)
<1>1. /\ r.num_node \in Nat /\ r.nodelist \in Nat /\ r.num_ctrl \in Nat
      /\ r.ctrl_ids_1 \in Seq(Ctrl) /\ r.ctrl_ids_2 \in [Slot -> Ctrl \cup {NoStr}]
      /\ r.node_alloc \in [Slot -> Seq(Node)] /\ r.self \in BOOLEAN
      /\ Len(r.ctrl_ids_1) \in Nat /\ Len(a) \in Nat /\ Len(a) >= 1
  BY DEF JobResource
<1>n. /\ r.num_node \in Nat /\ r.nodelist \in Nat /\ r.num_ctrl \in Nat
      /\ Len(r.ctrl_ids_1) \in Nat /\ Len(a) \in Nat /\ Len(a) >= 1
  BY <1>1, Zenon
<1>2. /\ f \in Int
      /\ \/ f = -1 /\ (\/ r.ctrl_ids_2[0] = NoStr
                       \/ \A i \in Slot : r.ctrl_ids_2[i] # NoStr)
         \/ f >= 0 /\ r.ctrl_ids_2[0] # NoStr /\ r.ctrl_ids_2[f] \in {c, NoStr}
  BY FindExist, Slots DEF Slot
<1>3. slot \in Slot /\ slot = IF f < 0 THEN r.num_ctrl ELSE f
  BY Zenon DEF update_slot
<1>4. /\ u.num_try = 0 /\ u.num_node = r.num_node + Len(a)
      /\ u.nodelist = IF r.nodelist = 0 THEN Len(a) ELSE r.nodelist + Len(a) - 1
      /\ u.node_alloc = [r.node_alloc EXCEPT ![slot] = r.node_alloc[slot] \o a]
      /\ f < 0 => /\ u.ctrl_ids_1 = Append(r.ctrl_ids_1, c)
                  /\ u.num_ctrl = r.num_ctrl + 1
                  /\ u.ctrl_ids_2 = [r.ctrl_ids_2 EXCEPT ![slot] = c]
      /\ ~ (f < 0) => /\ u.ctrl_ids_1 = r.ctrl_ids_1
                      /\ u.num_ctrl = r.num_ctrl
                      /\ u.ctrl_ids_2 = r.ctrl_ids_2
  <2> DEFINE new == f < 0
             list == IF r.nodelist = 0 THEN Len(a) ELSE r.nodelist + Len(a) - 1
             num == r.num_node + Len(a)
             ids1 == IF new THEN Append(r.ctrl_ids_1, c) ELSE r.ctrl_ids_1
             ctrls == IF new THEN r.num_ctrl + 1 ELSE r.num_ctrl
             ids2 == IF new THEN [r.ctrl_ids_2 EXCEPT ![slot] = c] ELSE r.ctrl_ids_2
             alloc == [r.node_alloc EXCEPT ![slot] = r.node_alloc[slot] \o a]
             mine == r.self /\ get_index(c) >= get_index(me)
  <2>1. u = [num_try |-> 0, num_node |-> num, nodelist |-> list, ctrl_ids_1 |-> ids1,
             num_ctrl |-> ctrls, ctrl_ids_2 |-> ids2, node_alloc |-> alloc,
             self |-> mine]
    BY Zenon DEF update_job_resource, strcat_nodelist
  <2>2. /\ new => /\ ids1 = Append(r.ctrl_ids_1, c) /\ ctrls = r.num_ctrl + 1
                  /\ ids2 = [r.ctrl_ids_2 EXCEPT ![slot] = c]
        /\ ~ new => ids1 = r.ctrl_ids_1 /\ ctrls = r.num_ctrl /\ ids2 = r.ctrl_ids_2
    BY ONLY Zenon
  <2> HIDE DEF u, new, list, num, ids1, ctrls, ids2, alloc, mine
  <2>3. /\ u.num_try = 0 /\ u.num_node = num /\ u.nodelist = list
        /\ u.ctrl_ids_1 = ids1 /\ u.num_ctrl = ctrls /\ u.ctrl_ids_2 = ids2
        /\ u.node_alloc = alloc
    BY ONLY <2>1, Zenon
  <2> QED BY ONLY <2>2, <2>3, Zenon DEF new, list, num, alloc
<1>m. /\ u.node_alloc = [r.node_alloc EXCEPT ![slot] = r.node_alloc[slot] \o a]
      /\ u.node_alloc[slot] = r.node_alloc[slot] \o a
  BY <1>1, <1>3, <1>4, Zenon
<1>5. u \in JobResource
  <2>1. (r.self /\ get_index(c) >= get_index(me)) \in BOOLEAN
    BY <1>1, Slots, Zenon
  <2>2. /\ u.num_node \in Nat /\ u.nodelist \in Nat /\ u.num_ctrl \in Nat
        /\ u.ctrl_ids_1 \in Seq(Ctrl)
        /\ u.ctrl_ids_2 \in [Slot -> Ctrl \cup {NoStr}]
    <3>1. CASE f < 0
      <4>1. Append(r.ctrl_ids_1, c) \in Seq(Ctrl)
        BY <1>1
      <4>2. [r.ctrl_ids_2 EXCEPT ![slot] = c] \in [Slot -> Ctrl \cup {NoStr}]
        BY <1>1, <1>3, Zenon
      <4>3. u.num_node \in Nat /\ u.nodelist \in Nat /\ u.num_ctrl \in Nat
        <5>1. /\ u.num_node = r.num_node + Len(a) /\ u.num_ctrl = r.num_ctrl + 1
              /\ u.nodelist = IF r.nodelist = 0 THEN Len(a)
                                                ELSE r.nodelist + Len(a) - 1
          BY <1>4, <3>1, Zenon
        <5> QED BY ONLY <5>1, <1>n, SMTT(40)
      <4> QED BY <4>1, <4>2, <4>3, <3>1, <1>4, Zenon
    <3>2. CASE ~ (f < 0)
      BY ONLY <3>2, <1>1, <1>4, SMTT(40)
    <3> QED BY <3>1, <3>2, Zenon
  <2>3. u.node_alloc \in [Slot -> Seq(Node)]
    <3>1. r.node_alloc[slot] \o a \in Seq(Node)
      BY <1>1, <1>3
    <3> QED BY ONLY <3>1, <1>1, <1>3, <1>m, Zenon
  <2> QED BY <2>1, <2>2, <2>3, <1>4, Zenon DEF update_job_resource, JobResource
<1> HIDE DEF u, f, slot
<1>a. /\ r.num_ctrl <= num_ctrl
      /\ \A i \in Slot : i >= r.num_ctrl => r.ctrl_ids_2[i] = NoStr
  BY Zenon DEF Shape
<1>b. \A k \in 1 .. Len(r.ctrl_ids_1) :
        \E i \in Slot : i < r.num_ctrl /\ r.ctrl_ids_2[i] = r.ctrl_ids_1[k]
  BY Zenon DEF Shape
<1>c. /\ Len(r.ctrl_ids_1) <= r.num_ctrl
      /\ r.ctrl_ids_1 = << >> => r.num_node = 0 /\ r.nodelist = 0
      /\ r.ctrl_ids_1 # << >> => /\ r.nodelist >= 1
                                 /\ r.nodelist + Len(r.ctrl_ids_1) <= r.num_node + 1
  BY Zenon DEF Shape
<1>6. ASSUME f < 0 PROVE Shape(u, need)
  <2>1. /\ slot = r.num_ctrl /\ r.ctrl_ids_2[slot] = NoStr
        /\ r.num_ctrl < num_ctrl /\ r.ctrl_ids_2[0] = NoStr
    <3>1. slot = r.num_ctrl /\ r.ctrl_ids_2[slot] = NoStr
      BY ONLY <1>3, <1>6, <1>n, <1>a, SMTT(40)
    <3>2. r.num_ctrl < num_ctrl
      BY ONLY <3>1, <1>3, Slots, SMTT(40) DEF Slot
    <3> QED BY ONLY <3>1, <3>2, <1>2, <1>3, <1>6, SMTT(40)
  <2>2. r.node_alloc[slot] = << >>
    BY <2>1, <1>3, Zenon DEF Shape
  <2>3. \A i \in Slot :
          /\ u.ctrl_ids_2[i] = IF i = slot THEN c ELSE r.ctrl_ids_2[i]
          /\ u.node_alloc[i] = IF i = slot THEN a ELSE r.node_alloc[i]
    <3>1. << >> \o a = a
      OBVIOUS
    <3>2. /\ u.node_alloc = [r.node_alloc EXCEPT ![slot] = a]
          /\ u.ctrl_ids_2 = [r.ctrl_ids_2 EXCEPT ![slot] = c]
      BY <3>1, <1>4, <1>6, <2>2, Zenon
    <3> QED BY ONLY <3>2, <1>1, <1>3, Zenon
  <2>4. /\ u.num_ctrl <= num_ctrl
        /\ \A i \in Slot : i >= u.num_ctrl => u.ctrl_ids_2[i] = NoStr
    <3>1. u.num_ctrl = r.num_ctrl + 1
      BY <1>4, <1>6, Zenon
    <3> QED BY ONLY <3>1, <1>n, <1>a, <2>1, <2>3, Slots, SMTT(40)
  <2>5. \A i \in Slot : u.ctrl_ids_2[i] # NoStr =>
          /\ u.node_alloc[i] # << >>
          /\ Range(u.node_alloc[i]) \subseteq Range(Partition[u.ctrl_ids_2[i]])
    BY <2>3, Zenon DEF Shape
  <2>6. u.ctrl_ids_2[0] = NoStr =>
          \A i \in Slot : u.ctrl_ids_2[i] = NoStr => u.node_alloc[i] = << >>
    BY <2>1, <2>3, Slots DEF Shape
  <2>7. \A k \in 1 .. Len(u.ctrl_ids_1) :
          \E i \in Slot : i < u.num_ctrl /\ u.ctrl_ids_2[i] = u.ctrl_ids_1[k]
    <3> SUFFICES ASSUME NEW k \in 1 .. Len(u.ctrl_ids_1)
                 PROVE  \E i \in Slot : /\ i < u.num_ctrl
                                        /\ u.ctrl_ids_2[i] = u.ctrl_ids_1[k]
      BY Zenon
    <3>1. CASE k = Len(r.ctrl_ids_1) + 1
      <4>1. u.ctrl_ids_1[k] = c
        BY <3>1, <1>1, <1>4, <1>6
      <4>2. u.ctrl_ids_2[slot] = c
        BY <1>3, <2>3, Zenon
      <4>3. slot < u.num_ctrl
        BY <1>1, <1>3, <1>4, <1>6, <2>1
      <4> QED BY ONLY <4>1, <4>2, <4>3, <1>3, Zenon
    <3>2. CASE k # Len(r.ctrl_ids_1) + 1
      <4>1. k \in 1 .. Len(r.ctrl_ids_1) /\ u.ctrl_ids_1[k] = r.ctrl_ids_1[k]
        <5>1. u.ctrl_ids_1 = Append(r.ctrl_ids_1, c)
          BY <1>4, <1>6, Zenon
        <5> QED BY <5>1, <3>2, <1>1
      <4>2. PICK i \in Slot : /\ i < r.num_ctrl
                              /\ r.ctrl_ids_2[i] = r.ctrl_ids_1[k]
        BY <4>1, <1>b, Zenon
      <4>3. i # slot /\ i < u.num_ctrl
        <5>1. u.num_ctrl = r.num_ctrl + 1
          BY <1>4, <1>6, Zenon
        <5> QED BY ONLY <5>1, <4>2, <2>1, <1>n, Slots, SMTT(40)
      <4> QED BY <4>1, <4>2, <4>3, <2>3, Zenon
    <3> QED BY <3>1, <3>2, Zenon
  <2>8. /\ u.ctrl_ids_1 # << >> /\ Len(u.ctrl_ids_1) = Len(r.ctrl_ids_1) + 1
        /\ Len(u.ctrl_ids_1) <= u.num_ctrl
    <3>1. u.num_ctrl = r.num_ctrl + 1 /\ u.ctrl_ids_1 = Append(r.ctrl_ids_1, c)
      BY <1>4, <1>6, Zenon
    <3>2. u.ctrl_ids_1 # << >> /\ Len(u.ctrl_ids_1) = Len(r.ctrl_ids_1) + 1
      BY ONLY <3>1, <1>1, SMTT(40)
    <3> QED BY ONLY <3>1, <3>2, <1>n, <1>c, SMTT(40)
  <2>9. u.nodelist >= 1 /\ u.nodelist + Len(u.ctrl_ids_1) <= u.num_node + 1
    <3>1. CASE r.ctrl_ids_1 = << >>
      BY <3>1, <2>8, <1>1, <1>4, <1>c
    <3>2. CASE r.ctrl_ids_1 # << >>
      <4>1. r.nodelist >= 1 /\ r.nodelist + Len(r.ctrl_ids_1) <= r.num_node + 1
        BY <3>2, <1>c, Zenon
      <4>2. u.nodelist = r.nodelist + Len(a) - 1 /\ u.num_node = r.num_node + Len(a)
        BY <4>1, <1>1, <1>4
      <4>3. Len(u.ctrl_ids_1) = Len(r.ctrl_ids_1) + 1
        BY <2>8, Zenon
      <4>4. u.nodelist >= 1
        BY ONLY <4>1, <4>2, <1>n, SMTT(40)
      <4>5. u.nodelist + Len(u.ctrl_ids_1)
              = (r.nodelist + Len(a) - 1) + (Len(r.ctrl_ids_1) + 1)
        BY ONLY <4>2, <4>3, Zenon
      <4>6. (r.nodelist + Len(a) - 1) + (Len(r.ctrl_ids_1) + 1)
              <= (r.num_node + Len(a)) + 1
        BY ONLY <4>1, <1>n, SumShift, Zenon
      <4> QED BY ONLY <4>2, <4>4, <4>5, <4>6, Zenon
    <3> QED BY <3>1, <3>2, Zenon
  <2>10. u.num_node <= need
    BY <1>4, Zenon
  <2> QED BY <2>4, <2>5, <2>6, <2>7, <2>8, <2>9, <2>10, Zenon DEF Shape
<1>7. ASSUME ~ (f < 0) PROVE Shape(u, need)
  <2>1. /\ slot = f /\ r.ctrl_ids_2[slot] \in {c, NoStr}
        /\ r.ctrl_ids_2[0] # NoStr
    BY <1>2, <1>3, <1>7
  <2>2. r.ctrl_ids_1 # << >>
    BY <2>1, Slots, Zenon DEF Shape
  <2>3. \A i \in Slot : i # slot => u.node_alloc[i] = r.node_alloc[i]
    BY <1>1, <1>4, Zenon
  <2>4. /\ u.node_alloc[slot] # << >>
        /\ Range(u.node_alloc[slot]) = Range(r.node_alloc[slot]) \cup Range(a)
    <3>1. u.node_alloc[slot] = r.node_alloc[slot] \o a
      BY <1>m, Zenon
    <3>2. r.node_alloc[slot] \in Seq(Node)
      BY <1>1, <1>3, Zenon
    <3> QED BY <3>1, <3>2, <1>1, RangeConcat
  <2>5. \A i \in Slot : u.ctrl_ids_2[i] # NoStr =>
          /\ u.node_alloc[i] # << >>
          /\ Range(u.node_alloc[i]) \subseteq Range(Partition[u.ctrl_ids_2[i]])
    <3>1. /\ u.ctrl_ids_2 = r.ctrl_ids_2
          /\ \A i \in Slot : r.ctrl_ids_2[i] # NoStr =>
               /\ r.node_alloc[i] # << >>
               /\ Range(r.node_alloc[i]) \subseteq Range(Partition[r.ctrl_ids_2[i]])
      BY <1>4, <1>7, Zenon DEF Shape
    <3>2. r.ctrl_ids_2[slot] # NoStr =>
            Range(u.node_alloc[slot]) \subseteq Range(Partition[r.ctrl_ids_2[slot]])
      BY ONLY <2>1, <2>4, <3>1, <1>3, Range(a) \subseteq Range(Partition[c]), Zenon
    <3> QED BY ONLY <3>1, <3>2, <2>3, <2>4, Zenon
  <2>6. u.nodelist >= 1 /\ u.nodelist + Len(u.ctrl_ids_1) <= u.num_node + 1
    <3>1. r.nodelist >= 1 /\ r.nodelist + Len(r.ctrl_ids_1) <= r.num_node + 1
      BY <2>2, <1>c, Zenon
    <3>2. /\ u.nodelist = r.nodelist + Len(a) - 1
          /\ u.num_node = r.num_node + Len(a) /\ u.ctrl_ids_1 = r.ctrl_ids_1
      BY ONLY <3>1, <1>n, <1>4, <1>7, SMTT(40)
    <3> QED BY ONLY <3>1, <3>2, <1>n, SMTT(40)
  <2>7. u.num_node <= need /\ u.ctrl_ids_2[0] # NoStr /\ u.ctrl_ids_1 # << >>
    BY <1>4, <1>7, <2>1, <2>2, Zenon
  <2>8. /\ u.num_ctrl = r.num_ctrl /\ u.ctrl_ids_1 = r.ctrl_ids_1
        /\ u.ctrl_ids_2 = r.ctrl_ids_2
    BY <1>4, <1>7, Zenon
  <2> QED BY ONLY <2>5, <2>6, <2>7, <2>8, <1>a, <1>b, <1>c, Zenon DEF Shape
<1> QED BY <1>2, <1>5, <1>6, <1>7, Zenon DEF u

\* num_try is not part of the shape.
LEMMA TryShape ==
  ASSUME NEW r \in JobResource, NEW need \in Nat, Shape(r, need)
  PROVE  LET u == [r EXCEPT !.num_try = @ + 1]
         IN  u \in JobResource /\ Shape(u, need) /\ u.num_node = r.num_node
<1> DEFINE u == [r EXCEPT !.num_try = @ + 1]
<1>1. /\ u \in JobResource
      /\ u.num_ctrl = r.num_ctrl /\ u.num_node = r.num_node
      /\ u.nodelist = r.nodelist /\ u.ctrl_ids_1 = r.ctrl_ids_1
      /\ u.ctrl_ids_2 = r.ctrl_ids_2 /\ u.node_alloc = r.node_alloc
  <2>1. r.num_try + 1 \in Nat
    BY DEF JobResource
  <2>2. u = [r EXCEPT !.num_try = r.num_try + 1]
    BY Zenon DEF JobResource
  <2>3. \A x \in Nat : LET e == [r EXCEPT !.num_try = x] IN
          /\ e \in JobResource
          /\ e.num_ctrl = r.num_ctrl /\ e.num_node = r.num_node
          /\ e.nodelist = r.nodelist /\ e.ctrl_ids_1 = r.ctrl_ids_1
          /\ e.ctrl_ids_2 = r.ctrl_ids_2 /\ e.node_alloc = r.node_alloc
    BY ONLY r \in JobResource, Zenon DEF JobResource
  <2> QED BY <2>1, <2>2, <2>3, Zenon
<1> HIDE DEF u
<1>2. Shape(u, need)
  BY ONLY <1>1, Shape(r, need), SMTT(40) DEF Shape
<1> QED BY <1>1, <1>2, Zenon DEF u

\* insert_jobinfo_zht is only reached with the nodes of one controller.
LEMMA RecordShape ==
  ASSUME NEW r \in JobResource, NEW need \in Nat, need >= 1, Shape(r, need),
         NEW me \in Ctrl, r.nodelist >= need
  PROVE  jobinfo(r, me) \in JobInfo /\ OneController(jobinfo(r, me))
<1> DEFINE used == {i \in Slot : i < r.num_ctrl}
           i == jobinfo(r, me)
<1>1. /\ r.num_node \in Nat /\ r.nodelist \in Nat /\ r.num_ctrl \in Nat
      /\ r.ctrl_ids_1 \in Seq(Ctrl) /\ r.ctrl_ids_2 \in [Slot -> Ctrl \cup {NoStr}]
      /\ r.node_alloc \in [Slot -> Seq(Node)] /\ r.self \in BOOLEAN
      /\ Len(r.ctrl_ids_1) \in Nat
  BY DEF JobResource
<1>2. Len(r.ctrl_ids_1) = 1
  <2>1. r.ctrl_ids_1 # << >>
    <3>1. r.ctrl_ids_1 = << >> => r.nodelist = 0
      BY Zenon DEF Shape
    <3> QED BY ONLY <3>1, r.nodelist >= need, need >= 1, need \in Nat, SMTT(40)
  <2>2. r.nodelist + Len(r.ctrl_ids_1) <= r.num_node + 1 /\ r.num_node <= need
    BY <2>1, Zenon DEF Shape
  <2>3. Len(r.ctrl_ids_1) # 0
    BY <2>1, <1>1
  <2>4. r.num_node \in Nat /\ r.nodelist \in Nat /\ Len(r.ctrl_ids_1) \in Nat
    BY <1>1, Zenon
  <2> DEFINE len == Len(r.ctrl_ids_1)
  <2>5. len \in Nat /\ len # 0 /\ r.nodelist + len <= r.num_node + 1
    BY <2>2, <2>3, <2>4, Zenon
  <2> HIDE DEF len
  <2>6. len = 1
    BY ONLY <2>2, <2>4, <2>5, r.nodelist >= need, need \in Nat, SMTT(40)
  <2> QED BY <2>6, Zenon DEF len
<1>3. \A c \in Ctrl : \/ i.alloc[c] = << >>
                      \/ \E k \in used : /\ r.ctrl_ids_2[k] = c
                                         /\ i.alloc[c] = r.node_alloc[k]
  BY Zenon DEF jobinfo
<1>4. \A c \in Ctrl : (\E k \in used : r.ctrl_ids_2[k] = c) =>
        \E k \in used : r.ctrl_ids_2[k] = c /\ i.alloc[c] = r.node_alloc[k]
  BY Zenon DEF jobinfo
<1>5. /\ i.ctrls = r.ctrl_ids_1 /\ i.here \in BOOLEAN
      /\ i.alloc = [c \in Ctrl |-> i.alloc[c]]
      /\ i = [ctrls |-> i.ctrls, alloc |-> i.alloc, here |-> i.here]
  <2>1. find_exist(r.ctrl_ids_2, me, r.num_ctrl) \in Int
    BY <1>1, FindExist, Zenon
  <2> QED BY <2>1, <1>1, Zenon DEF jobinfo
<1> HIDE DEF i
<1>6. \A c \in Ctrl : /\ i.alloc[c] \in Seq(Node)
                      /\ Range(i.alloc[c]) \subseteq Range(Partition[c])
  <2> SUFFICES ASSUME NEW c \in Ctrl
               PROVE  /\ i.alloc[c] \in Seq(Node)
                      /\ Range(i.alloc[c]) \subseteq Range(Partition[c])
    BY Zenon
  <2>1. CASE i.alloc[c] = << >>
    <3>1. Range(<< >>) = {}
      BY DEF Range
    <3> QED BY <2>1, <3>1
  <2>2. CASE \E k \in used : r.ctrl_ids_2[k] = c /\ i.alloc[c] = r.node_alloc[k]
    <3>1. PICK k \in used : r.ctrl_ids_2[k] = c /\ i.alloc[c] = r.node_alloc[k]
      BY <2>2, Zenon
    <3>2. k \in Slot /\ r.ctrl_ids_2[k] # NoStr /\ r.node_alloc[k] \in Seq(Node)
      BY <3>1, <1>1, Slots, Zenon
    <3>3. Range(r.node_alloc[k]) \subseteq Range(Partition[c])
      BY <3>1, <3>2, Zenon DEF Shape
    <3> QED BY <3>1, <3>2, <3>3, Zenon
  <2> QED BY <1>3, <2>1, <2>2, Zenon
<1>7. i \in JobInfo
  <2>1. i.alloc \in [Ctrl -> Seq(Node)]
    BY <1>5, <1>6, Zenon
  <2> QED BY <2>1, <1>1, <1>5, Zenon DEF JobInfo
<1>8. i.alloc[i.ctrls[1]] # << >>
  <2>1. PICK k \in Slot : k < r.num_ctrl /\ r.ctrl_ids_2[k] = r.ctrl_ids_1[1]
    BY <1>2 DEF Shape
  <2>2. r.ctrl_ids_1[1] \in Ctrl
    BY <1>1, <1>2
  <2>3. PICK m \in used : /\ r.ctrl_ids_2[m] = r.ctrl_ids_1[1]
                          /\ i.alloc[r.ctrl_ids_1[1]] = r.node_alloc[m]
    BY <2>1, <2>2, <1>4, Zenon
  <2>4. r.node_alloc[m] # << >>
    BY <2>2, <2>3, Slots DEF Shape
  <2> QED BY <2>3, <2>4, <1>5, Zenon
<1> QED BY <1>2, <1>5, <1>6, <1>7, <1>8, Zenon DEF OneController, i
-----------------------------------------------------------------------------
(***************************************************************************)
(* The invariant.  A step of one thread can disturb the others' part of it *)
(* only through the resource strings, and no step takes one away.          *)
(***************************************************************************)
\* Initially all structures are empty.
LEMMA InitInv == Init => IInv
<1> SUFFICES ASSUME Init PROVE IInv
  BY Zenon
<1>1. TypeOK
  <2>1. \A j \in Job : info[j] \in JobInfo
    <3>1. [c \in Ctrl |-> << >>] \in [Ctrl -> Seq(Node)] /\ << >> \in Seq(Ctrl)
      OBVIOUS
    <3> QED BY <3>1, Zenon DEF Init, JobInfo
  <2>2. info \in [Job -> JobInfo] /\ jr \in [Thread -> JobResource]
    BY <2>1, InitialShape, Zenon DEF Init
  <2>3. tgt \in [Job -> Ctrl] /\ pc \in [Thread -> Label]
    BY JobAssumption, Labels, Zenon DEF Init
  <2>4. /\ res \in [Ctrl -> ResVal(Node) \cup {NoRes}]
        /\ seen \in [Thread -> ResVal(Node) \cup {NoRes}]
        /\ idx \in [Thread -> Nat] /\ dest \in [Job -> Ctrl \cup {None}]
    BY Zenon DEF Init
  <2>5. /\ finished \in SUBSET Job /\ alive \in [Ctrl -> BOOLEAN]
        /\ num_job_fin \in [Ctrl -> Nat] /\ num_job_fail \in [Ctrl -> Nat]
    BY Zenon DEF Init
  <2> QED BY <2>2, <2>3, <2>4, <2>5, Zenon DEF TypeOK
<1>2. ResourceStringsSound
  BY Zenon DEF Init, ResourceStringsSound
<1>3. \A t \in Thread : pc[t] = "idle" /\ jr[t] = init_job_resource
  BY Zenon DEF Init
<1>4. RunInv
  <2>1. \A j \in Job : dest[j] = None
    BY Zenon DEF Init
  <2>2. init_job_resource.num_node = 0
    BY Zenon DEF init_job_resource
  <2> QED BY <2>1, <2>2, <1>3, InitialShape, Sizes, Threads, Zenon
          DEF RunInv, RunOK, Launched
<1>5. HandlerInv /\ GiveInv
  BY <1>3, Threads, Zenon DEF HandlerInv, HandlerOK, GiveInv, GiveOK
<1> QED BY <1>1, <1>2, <1>4, <1>5, Zenon DEF IInv

\* A step of the thread of job j.
LEMMA RunStep ==
  ASSUME IInv, NEW j \in Job, TypeOK', ResourceStringsSound',
         \A t \in Thread \ {Run(j)} : /\ pc'[t] = pc[t] /\ jr'[t] = jr[t]
                                      /\ seen'[t] = seen[t] /\ idx'[t] = idx[t],
         \A m \in Job \ {j} : /\ info'[m] = info[m] /\ tgt'[m] = tgt[m]
                              /\ dest'[m] = dest[m],
         dest[j] # None => info'[j] = info[j] /\ dest'[j] = dest[j],
         \A c \in Ctrl : res[c] # NoRes => res'[c] # NoRes,
         RunOK(j)', GiveOK(Run(j))'
  PROVE  IInv'
<1>1. \A m \in Job : RunOK(m)'
  <2> SUFFICES ASSUME NEW m \in Job \ {j} PROVE RunOK(m)'
    BY Zenon
  <2>1. Run(m) \in Thread \ {Run(j)}
    BY Threads, Zenon
  <2>2. RunOK(m) /\ tgt[m] \in Ctrl
    BY Zenon DEF IInv, RunInv, TypeOK
  <2> QED BY <2>1, <2>2, Zenon DEF RunOK
<1>2. \A m \in Job : \A k \in 1 .. MaxDelivery : HandlerOK(m, k)'
  <2> SUFFICES ASSUME NEW m \in Job, NEW k \in 1 .. MaxDelivery
               PROVE  HandlerOK(m, k)'
    BY Zenon
  <2>1. <<m, k>> \in Thread \ {Run(j)}
    BY Threads, Zenon
  <2>2. HandlerOK(m, k)
    BY Zenon DEF IInv, HandlerInv
  <2> QED BY <2>1, <2>2, Zenon DEF HandlerOK
<1>3. \A t \in Thread : GiveOK(t)'
  <2> SUFFICES ASSUME NEW t \in Thread \ {Run(j)} PROVE GiveOK(t)'
    BY Zenon
  <2>1. GiveOK(t)
    BY Zenon DEF IInv, GiveInv
  <2> QED BY <2>1, Zenon DEF GiveOK
<1> QED BY <1>1, <1>2, <1>3, Zenon DEF IInv, RunInv, HandlerInv, GiveInv

\* A step of the thread of a completion of job j.
LEMMA HandlerStep ==
  ASSUME IInv, NEW j \in Job, NEW k \in 1 .. MaxDelivery,
         TypeOK', ResourceStringsSound',
         \A t \in Thread \ {<<j, k>>} : /\ pc'[t] = pc[t] /\ jr'[t] = jr[t]
                                        /\ seen'[t] = seen[t] /\ idx'[t] = idx[t],
         UNCHANGED <<info, tgt, dest>>,
         \A c \in Ctrl : res[c] # NoRes => res'[c] # NoRes,
         HandlerOK(j, k)', GiveOK(<<j, k>>)'
  PROVE  IInv'
<1>1. \A m \in Job : RunOK(m)'
  <2> SUFFICES ASSUME NEW m \in Job PROVE RunOK(m)'
    BY Zenon
  <2>1. Run(m) \in Thread \ {<<j, k>>}
    BY Threads, Zenon
  <2>2. RunOK(m) /\ tgt[m] \in Ctrl
    BY Zenon DEF IInv, RunInv, TypeOK
  <2> QED BY <2>1, <2>2, Zenon DEF RunOK
<1>2. \A m \in Job : \A l \in 1 .. MaxDelivery : HandlerOK(m, l)'
  <2> SUFFICES ASSUME NEW m \in Job, NEW l \in 1 .. MaxDelivery,
                      <<m, l>> # <<j, k>>
               PROVE  HandlerOK(m, l)'
    BY Zenon
  <2>1. <<m, l>> \in Thread \ {<<j, k>>}
    BY Threads, Zenon
  <2>2. HandlerOK(m, l)
    BY Zenon DEF IInv, HandlerInv
  <2> QED BY <2>1, <2>2, Zenon DEF HandlerOK
<1>3. \A t \in Thread : GiveOK(t)'
  <2> SUFFICES ASSUME NEW t \in Thread \ {<<j, k>>} PROVE GiveOK(t)'
    BY Zenon
  <2>1. GiveOK(t)
    BY Zenon DEF IInv, GiveInv
  <2> QED BY <2>1, Zenon DEF GiveOK
<1> QED BY <1>1, <1>2, <1>3, Zenon DEF IInv, RunInv, HandlerInv, GiveInv

\* A step that writes no resource string keeps the strings sound.
LEMMA StringsKept ==
  ASSUME ResourceStringsSound, UNCHANGED res PROVE ResourceStringsSound'
BY Zenon DEF ResourceStringsSound, Free

\* The last registration of a partition.
LEMMA RegisterInv ==
  ASSUME IInv, NEW c \in Ctrl, Register(c) PROVE IInv'
<1> DEFINE v == [num |-> part_size, nodes |-> Partition[c]]
<1>1. v \in ResVal(Node) /\ Sound(v)
  BY PartitionAssumption, Zenon DEF ResVal, Sound
<1>2. TypeOK /\ res' = [res EXCEPT ![c] = v]
  BY Zenon DEF IInv, Register
<1>3. TypeOK'
  <2>1. res' \in [Ctrl -> ResVal(Node) \cup {NoRes}]
    BY <1>1, <1>2, Zenon DEF TypeOK
  <2> QED BY <1>2, <2>1, Zenon DEF TypeOK, Register
<1>4. res'[c] = v /\ \A d \in Ctrl \ {c} : res'[d] = res[d]
  BY <1>2, Zenon DEF TypeOK
<1>5. ResourceStringsSound'
  <2>1. ASSUME NEW d \in Ctrl, res'[d] # NoRes
        PROVE  res'[d].num = Len(res'[d].nodes) /\ Free(d)' \subseteq Range(Partition[d])
    <3>1. CASE d = c
      BY <3>1, <1>1, <1>4 DEF Free, Sound
    <3>2. CASE d # c
      BY <2>1, <3>2, <1>4, Zenon DEF Free, IInv, ResourceStringsSound
    <3> QED BY <3>1, <3>2, Zenon
  <2> QED BY <2>1, Zenon DEF ResourceStringsSound
<1>6. \A d \in Ctrl : res[d] # NoRes => res'[d] # NoRes
  BY <1>1, <1>4, Sizes, Zenon
<1>7. UNCHANGED <<info, pc, jr, tgt, seen, idx, dest>>
  BY Zenon DEF Register
<1>8. \A m \in Job : RunOK(m)'
  BY <1>2, <1>6, <1>7, Zenon DEF IInv, RunInv, RunOK, TypeOK
<1>9. \A m \in Job : \A k \in 1 .. MaxDelivery : HandlerOK(m, k)'
  BY <1>7, Zenon DEF IInv, HandlerInv, HandlerOK
<1>10. \A t \in Thread : GiveOK(t)'
  BY <1>6, <1>7, Zenon DEF IInv, GiveInv, GiveOK
<1> QED BY <1>3, <1>5, <1>8, <1>9, <1>10, Zenon DEF IInv, RunInv, HandlerInv, GiveInv

\* Steps of the thread of j that move on and leave the structures alone.
LEMMA QuietInv ==
  ASSUME IInv, NEW j \in Job,
         JobTooLarge(j) \/ JobStart(j) \/ BelongsHere(j) \/ Notified(j)
           \/ CountNotified(j)
  PROVE  IInv'
<1>1. /\ TypeOK /\ ResourceStringsSound /\ RunOK(j) /\ Run(j) \in Thread
      /\ origin[j] \in Ctrl
  BY RunFacts, Zenon
<1>2. /\ UNCHANGED <<res, info, jr, tgt, seen, idx, dest, finished, alive>>
      /\ \E l \in Label : pc' = [pc EXCEPT ![Run(j)] = l]
  BY Labels, Zenon DEF JobTooLarge, JobStart, BelongsHere, Notified, CountNotified, Goto
<1>3. num_job_fin' \in [Ctrl -> Nat] /\ num_job_fail' \in [Ctrl -> Nat]
  <2>1. num_job_fin \in [Ctrl -> Nat] /\ num_job_fail \in [Ctrl -> Nat]
    BY <1>1, Zenon DEF TypeOK
  <2>2. num_job_fin[origin[j]] + 1 \in Nat /\ num_job_fail[origin[j]] + 1 \in Nat
    BY ONLY <2>1, <1>1, SMTT(40)
  <2>3. CASE JobTooLarge(j)
    BY ONLY <2>1, <2>2, <2>3, <1>1, Zenon DEF JobTooLarge
  <2>4. CASE CountNotified(j)
    BY ONLY <2>1, <2>2, <2>4, <1>1, Zenon DEF CountNotified
  <2>5. CASE JobStart(j) \/ BelongsHere(j) \/ Notified(j)
    BY ONLY <2>1, <2>5, Zenon DEF JobStart, BelongsHere, Notified
  <2> QED BY <2>3, <2>4, <2>5, Zenon
<1>4. TypeOK'
  BY <1>1, <1>2, <1>3, Zenon DEF TypeOK
<1>5. pc \in [Thread -> Label]
  BY <1>1, Zenon DEF TypeOK
<1>6. RunOK(j)'
  <2>1. CASE JobTooLarge(j)
    <3>1. pc[Run(j)] = "idle" /\ pc'[Run(j)] = "failed"
      BY <2>1, <1>1, <1>5, Zenon DEF JobTooLarge, Goto
    <3> QED BY <3>1, <1>1, <1>2, Zenon DEF RunOK, Launched
  <2>2. CASE JobStart(j)
    <3>1. pc[Run(j)] = "idle" /\ pc'[Run(j)] = "lookup"
      BY <2>2, <1>1, <1>5, Zenon DEF JobStart, Goto
    <3>2. jr[Run(j)].num_node = 0
      BY <3>1, <1>1, Zenon DEF RunOK
    <3>3. min_nodes[j] \in Nat /\ min_nodes[j] >= 1
      BY Sizes, Zenon
    <3>4. jr[Run(j)].num_node < min_nodes[j]
      BY ONLY <3>2, <3>3, SMTT(40)
    <3> QED BY <3>1, <3>4, <1>1, <1>2, Zenon DEF RunOK, Launched
  <2>3. CASE BelongsHere(j) \/ Notified(j) \/ CountNotified(j)
    <3>1. /\ pc[Run(j)] \in Launched \ {"launch"}
          /\ pc'[Run(j)] \in Launched \ {"launch"}
      BY <2>3, <1>1, <1>5, Zenon DEF BelongsHere, Notified, CountNotified, Goto, Launched
    <3> QED BY <3>1, <1>1, <1>2, Zenon DEF RunOK, Launched
  <2> QED BY <2>1, <2>2, <2>3, Zenon
<1>7. GiveOK(Run(j))'
  <2>1. pc'[Run(j)] # "giveback"
    BY <1>1, <1>5, Zenon DEF JobTooLarge, JobStart, BelongsHere, Notified, CountNotified, Goto
  <2> QED BY <2>1, Zenon DEF GiveOK
<1>8. \A t \in Thread \ {Run(j)} : pc'[t] = pc[t]
  BY <1>2, <1>5, Zenon
<1> QED BY <1>1, <1>2, <1>4, <1>6, <1>7, <1>8, RunStep, StringsKept, Zenon

\* Reading the string of a controller, first or again, and drawing one.
LEMMA ReadInv ==
  ASSUME IInv, NEW j \in Job,
         AllocLookup(j) \/ AllocStale(j) \/ \E c \in Ctrl : Draw(j, c)
  PROVE  IInv'
<1>1. /\ TypeOK /\ ResourceStringsSound /\ RunOK(j) /\ Run(j) \in Thread
      /\ tgt[j] \in Ctrl
  BY RunFacts, Zenon
<1>2. /\ pc \in [Thread -> Label] /\ seen \in [Thread -> ResVal(Node) \cup {NoRes}]
      /\ tgt \in [Job -> Ctrl] /\ res[tgt[j]] \in ResVal(Node) \cup {NoRes}
  BY <1>1, Zenon DEF TypeOK
<1>3. UNCHANGED <<res, info, jr, idx, dest, finished, alive, num_job_fin, num_job_fail>>
  BY Zenon DEF AllocLookup, AllocStale, Draw
<1>4. /\ pc' \in [Thread -> Label] /\ seen' \in [Thread -> ResVal(Node) \cup {NoRes}]
      /\ tgt' \in [Job -> Ctrl]
  BY <1>2, Labels DEF AllocLookup, AllocStale, Draw, Goto
<1>5. TypeOK'
  BY <1>1, <1>3, <1>4, Zenon DEF TypeOK
<1>6. /\ \A t \in Thread \ {Run(j)} : pc'[t] = pc[t] /\ seen'[t] = seen[t]
      /\ \A m \in Job \ {j} : tgt'[m] = tgt[m]
  BY <1>2, Zenon DEF AllocLookup, AllocStale, Draw, Goto
<1>7. RunOK(j)' /\ pc'[Run(j)] # "giveback"
  <2>1. CASE AllocLookup(j)
    <3>1. /\ pc[Run(j)] = "lookup" /\ pc'[Run(j)] = "swap" /\ res[tgt[j]] # NoRes
          /\ seen'[Run(j)] = res[tgt[j]] /\ tgt' = tgt
      BY <2>1, <1>1, <1>2, Zenon DEF AllocLookup, Goto
    <3> QED BY <3>1, <1>1, <1>3, Zenon DEF RunOK, Launched
  <2>2. CASE AllocStale(j)
    <3>1. /\ pc[Run(j)] = "swap" /\ pc'[Run(j)] = "swap"
          /\ seen'[Run(j)] = res[tgt[j]] /\ tgt' = tgt
      BY <2>2, <1>1, <1>2, Zenon DEF AllocStale
    <3> QED BY <3>1, <1>1, <1>3, Zenon DEF RunOK, Launched
  <2>3. CASE \E c \in Ctrl : Draw(j, c)
    <3>1. /\ pc[Run(j)] = "draw" /\ pc'[Run(j)] = "lookup"
          /\ jr[Run(j)].num_node < min_nodes[j]
      BY <2>3, <1>1, <1>2, Zenon DEF Draw, Goto
    <3> QED BY <3>1, <1>1, <1>3, Zenon DEF RunOK, Launched
  <2> QED BY <2>1, <2>2, <2>3, Zenon
<1>8. GiveOK(Run(j))'
  BY <1>7, Zenon DEF GiveOK
<1> QED BY <1>1, <1>3, <1>5, <1>6, <1>7, <1>8, RunStep, StringsKept, Zenon

\* A try that got nothing.
LEMMA FailedTryInv ==
  ASSUME IInv, NEW j \in Job, pc[Run(j)] \in {"lookup", "swap"}, FailedTry(j)
  PROVE  IInv'
<1>1. /\ TypeOK /\ ResourceStringsSound /\ RunOK(j) /\ Run(j) \in Thread
      /\ jr[Run(j)] \in JobResource
  BY RunFacts, Zenon
<1>2. /\ pc \in [Thread -> Label] /\ jr \in [Thread -> JobResource]
      /\ idx \in [Thread -> Nat]
  BY <1>1, Zenon DEF TypeOK
<1> DEFINE u == [jr[Run(j)] EXCEPT !.num_try = @ + 1]
<1>3. UNCHANGED <<res, info, seen, tgt, dest, finished, alive, num_job_fin, num_job_fail>>
  BY Zenon DEF FailedTry
<1>4. Shape(jr[Run(j)], min_nodes[j]) /\ min_nodes[j] \in Nat
  BY <1>1, Sizes, Zenon DEF RunOK
<1>5. u \in JobResource /\ Shape(u, min_nodes[j]) /\ u.num_node = jr[Run(j)].num_node
  BY <1>1, <1>4, TryShape, Zenon
<1>6. jr' = [jr EXCEPT ![Run(j)] = u]
  BY <1>2, <1>1, Zenon DEF FailedTry
<1> HIDE DEF u
<1>7. /\ jr' \in [Thread -> JobResource] /\ idx' \in [Thread -> Nat]
      /\ pc' \in [Thread -> Label]
  BY <1>2, <1>5, <1>6, Labels, Zenon DEF FailedTry, Goto
<1>8. TypeOK'
  BY <1>1, <1>3, <1>7, Zenon DEF TypeOK
<1>9. \A t \in Thread \ {Run(j)} : pc'[t] = pc[t] /\ jr'[t] = jr[t] /\ idx'[t] = idx[t]
  BY <1>2, <1>6, Zenon DEF FailedTry, Goto
<1>10. pc'[Run(j)] \in {"release", "draw"} /\ jr'[Run(j)] = u
  BY <1>1, <1>2, <1>6, Zenon DEF FailedTry, Goto
<1>11. RunOK(j)'
  BY <1>1, <1>3, <1>5, <1>10, Zenon DEF RunOK, Launched
<1>12. GiveOK(Run(j))'
  BY <1>10, Zenon DEF GiveOK
<1> QED BY <1>1, <1>3, <1>8, <1>9, <1>11, <1>12, RunStep, StringsKept, Zenon

\* reset_job_resource after everything was given back.
LEMMA ResetInv ==
  ASSUME IInv, NEW j \in Job, ResetJob(j) PROVE IInv'
<1>1. /\ TypeOK /\ ResourceStringsSound /\ RunOK(j) /\ Run(j) \in Thread
      /\ jr[Run(j)] \in JobResource
  BY RunFacts, Zenon
<1>2. pc \in [Thread -> Label] /\ jr \in [Thread -> JobResource]
  BY <1>1, Zenon DEF TypeOK
<1> DEFINE u == reset_job_resource(jr[Run(j)])
<1>3. /\ UNCHANGED <<res, info, seen, tgt, dest, idx>>
      /\ UNCHANGED <<finished, alive, num_job_fin, num_job_fail>>
  BY Zenon DEF ResetJob
<1>4. Shape(jr[Run(j)], min_nodes[j]) /\ min_nodes[j] \in Nat
  BY <1>1, Sizes, Zenon DEF RunOK
<1>5. u \in JobResource /\ Shape(u, min_nodes[j])
  BY <1>1, <1>4, ResetShape, Zenon
<1>6. jr' = [jr EXCEPT ![Run(j)] = u] /\ pc' = [pc EXCEPT ![Run(j)] = "draw"]
  BY <1>1, <1>2, Zenon DEF ResetJob, Goto
<1> HIDE DEF u
<1>7. TypeOK'
  BY <1>1, <1>2, <1>3, <1>5, <1>6, Labels, Zenon DEF TypeOK
<1>8. /\ \A t \in Thread \ {Run(j)} : pc'[t] = pc[t] /\ jr'[t] = jr[t]
      /\ pc'[Run(j)] = "draw" /\ jr'[Run(j)] = u /\ pc[Run(j)] = "release"
  BY <1>1, <1>2, <1>6, Zenon DEF ResetJob
<1>9. RunOK(j)'
  BY <1>1, <1>3, <1>5, <1>8, Zenon DEF RunOK, Launched
<1>10. GiveOK(Run(j))'
  BY <1>8, Zenon DEF GiveOK
<1> QED BY <1>1, <1>3, <1>7, <1>8, <1>9, <1>10, RunStep, StringsKept, Zenon

\* One resource string is replaced by a sound one over the same partition.
LEMMA StringReplaced ==
  ASSUME TypeOK, ResourceStringsSound, NEW c \in Ctrl, NEW v \in ResVal(Node),
         Sound(v), Range(v.nodes) \subseteq Range(Partition[c]),
         res' = [res EXCEPT ![c] = v]
  PROVE  /\ res' \in [Ctrl -> ResVal(Node) \cup {NoRes}]
         /\ ResourceStringsSound'
         /\ \A d \in Ctrl : res[d] # NoRes => res'[d] # NoRes
<1>1. /\ res \in [Ctrl -> ResVal(Node) \cup {NoRes}]
      /\ res'[c] = v /\ \A d \in Ctrl \ {c} : res'[d] = res[d]
  BY Zenon DEF TypeOK
<1>2. ASSUME NEW d \in Ctrl, res'[d] # NoRes
      PROVE  res'[d].num = Len(res'[d].nodes) /\ Free(d)' \subseteq Range(Partition[d])
  <2>1. CASE d = c
    BY <2>1, <1>1, Zenon DEF Free, Sound
  <2>2. CASE d # c
    BY <1>2, <2>2, <1>1, Zenon DEF Free, ResourceStringsSound
  <2> QED BY <2>1, <2>2, Zenon
<1>3. v # NoRes
  BY Sizes, Zenon
<1> QED BY <1>1, <1>2, <1>3, Zenon DEF ResourceStringsSound

\* do_allocate.
LEMMA SwapInv ==
  ASSUME IInv, NEW j \in Job, AllocSwap(j) PROVE IInv'
<1> DEFINE t == Run(j)
           c == tgt[j]
           more == min_nodes[j] - jr[t].num_node
           k == IF seen[t].num > more THEN more ELSE seen[t].num
           v == res[c]
           a == allocated(v, k)
           u == update_job_resource(jr[t], c, a, origin[j])
<1>1. /\ TypeOK /\ ResourceStringsSound /\ RunOK(j) /\ t \in Thread
      /\ jr[t] \in JobResource /\ c \in Ctrl /\ origin[j] \in Ctrl
  BY RunFacts, Zenon
<1>2. /\ v = seen[t] /\ v \in ResVal(Node) /\ Sound(v)
      /\ Range(v.nodes) \subseteq Range(Partition[c])
      /\ k \in Nat /\ k >= 1 /\ k <= v.num /\ jr[t].num_node + k <= min_nodes[j]
  BY SwapFacts, Zenon
<1>3. /\ res' = [res EXCEPT ![c] = remaining(v, k)]
      /\ \/ /\ update_slot(jr[t], c) \in Slot
            /\ jr' = [jr EXCEPT ![t] = u] /\ pc' = [pc EXCEPT ![t] = "draw"]
            /\ alive' = alive
         \/ /\ alive' = [alive EXCEPT ![origin[j]] = FALSE]
            /\ UNCHANGED <<jr, pc>>
      /\ UNCHANGED <<info, finished, tgt, seen, idx, dest, num_job_fin, num_job_fail>>
      /\ pc[t] = "swap"
  <2>1. jr \in [Thread -> JobResource]
    BY <1>1, Zenon DEF TypeOK
  <2> QED BY <1>1, <1>2, <2>1, Zenon DEF AllocSwap, Crash, Goto
<1> HIDE DEF k
<1>4. /\ a \in Seq(Node) /\ Len(a) = k
      /\ remaining(v, k) \in ResVal(Node) /\ Sound(remaining(v, k))
      /\ Range(a) \subseteq Range(v.nodes)
      /\ Range(remaining(v, k).nodes) \subseteq Range(v.nodes)
  BY <1>2, TakeRange, Zenon
<1> HIDE DEF a, u, v, c
<1>5. /\ res' \in [Ctrl -> ResVal(Node) \cup {NoRes}]
      /\ ResourceStringsSound'
      /\ \A d \in Ctrl : res[d] # NoRes => res'[d] # NoRes
  <2>1. Range(remaining(v, k).nodes) \subseteq Range(Partition[c])
    BY <1>2, <1>4, Zenon
  <2> QED BY <2>1, <1>1, <1>3, <1>4, StringReplaced, Zenon
<1>6. update_slot(jr[t], c) \in Slot => u \in JobResource /\ Shape(u, min_nodes[j])
  <2>a. a # << >>
    <3>1. Len(a) = k /\ k >= 1
      BY ONLY <1>2, <1>4, Zenon
    <3> QED BY ONLY <3>1, SMTT(40)
  <2>1. a # << >> /\ Range(a) \subseteq Range(Partition[c])
    BY ONLY <2>a, <1>2, <1>4, Zenon
  <2>2. Shape(jr[t], min_nodes[j]) /\ min_nodes[j] \in Nat
    BY <1>1, Sizes, Zenon DEF RunOK
  <2>3. jr[t].num_node + Len(a) <= min_nodes[j]
    BY <1>2, <1>4, Zenon
  <2> QED BY <2>1, <2>2, <2>3, <1>1, <1>4, UpdateShape, Zenon DEF u
<1>7. /\ pc \in [Thread -> Label] /\ jr \in [Thread -> JobResource]
      /\ alive \in [Ctrl -> BOOLEAN]
  BY <1>1, Zenon DEF TypeOK
<1>8. TypeOK'
  <2>1. /\ pc' \in [Thread -> Label] /\ jr' \in [Thread -> JobResource]
        /\ alive' \in [Ctrl -> BOOLEAN]
    BY <1>3, <1>6, <1>7, Labels, Zenon
  <2> QED BY <2>1, <1>1, <1>3, <1>5, Zenon DEF TypeOK
<1>9. \A x \in Thread \ {t} : pc'[x] = pc[x] /\ jr'[x] = jr[x]
  BY <1>3, <1>7, Zenon
<1>10. RunOK(j)' /\ pc'[t] # "giveback"
  <2>1. CASE update_slot(jr[t], c) \in Slot /\ jr'[t] = u /\ pc'[t] = "draw"
    BY <2>1, <1>1, <1>3, <1>6, Zenon DEF RunOK, Launched
  <2>2. CASE UNCHANGED <<jr, pc>>
    BY <2>2, <1>1, <1>3, <1>5, Zenon DEF RunOK, Launched, c
  <2> QED BY <2>1, <2>2, <1>1, <1>3, <1>7, Zenon
<1>11. GiveOK(t)'
  BY <1>10, Zenon DEF GiveOK
<1> QED BY <1>3, <1>5, <1>8, <1>9, <1>10, <1>11, RunStep, Zenon

\* The creation of the job, which records the allocation or dies.
LEMMA CreateInv ==
  ASSUME IInv, NEW j \in Job, CreateJob(j) PROVE IInv'
<1> DEFINE t == Run(j)
           i == jobinfo(jr[t], origin[j])
<1>1. /\ TypeOK /\ ResourceStringsSound /\ RunOK(j) /\ t \in Thread
      /\ jr[t] \in JobResource /\ origin[j] \in Ctrl
  BY RunFacts, Zenon
<1>2. /\ \/ /\ ~ (jr[t].nodelist < min_nodes[j])
            /\ info' = [info EXCEPT ![j] = i] /\ pc' = [pc EXCEPT ![t] = "launch"]
            /\ alive' = alive
         \/ alive' = [alive EXCEPT ![origin[j]] = FALSE] /\ UNCHANGED <<info, pc>>
      /\ UNCHANGED <<res, finished, jr, tgt, seen, idx, dest, num_job_fin, num_job_fail>>
      /\ pc[t] = "draw"
  BY Zenon DEF CreateJob, Crash, Goto, too_few_hosts
<1>3. dest[j] = None /\ Shape(jr[t], min_nodes[j])
  BY <1>1, <1>2, Zenon DEF RunOK, Launched
<1>4. ~ (jr[t].nodelist < min_nodes[j]) => i \in JobInfo /\ OneController(i)
  <2>1. jr[t].nodelist \in Nat /\ min_nodes[j] \in Nat /\ min_nodes[j] >= 1
    BY <1>1, Sizes, Zenon DEF JobResource
  <2>2. ~ (jr[t].nodelist < min_nodes[j]) => jr[t].nodelist >= min_nodes[j]
    BY ONLY <2>1, SMTT(40)
  <2> QED BY <2>1, <2>2, <1>1, <1>3, RecordShape, Zenon
<1> HIDE DEF i
<1>5. /\ pc \in [Thread -> Label] /\ info \in [Job -> JobInfo]
      /\ alive \in [Ctrl -> BOOLEAN]
  BY <1>1, Zenon DEF TypeOK
<1>6. TypeOK'
  <2>1. /\ pc' \in [Thread -> Label] /\ info' \in [Job -> JobInfo]
        /\ alive' \in [Ctrl -> BOOLEAN]
    BY <1>2, <1>4, <1>5, Labels, Zenon
  <2> QED BY <2>1, <1>1, <1>2, Zenon DEF TypeOK
<1>7. /\ \A x \in Thread \ {t} : pc'[x] = pc[x]
      /\ \A m \in Job \ {j} : info'[m] = info[m]
  BY <1>2, <1>5, Zenon
<1>8. RunOK(j)' /\ pc'[t] # "giveback"
  <2>1. CASE info'[j] = i /\ pc'[t] = "launch" /\ OneController(i)
    BY <2>1, <1>1, <1>2, <1>3, Zenon DEF RunOK, Launched
  <2>2. CASE UNCHANGED <<info, pc>>
    BY <2>2, <1>1, <1>2, Zenon DEF RunOK, Launched
  <2> QED BY <2>1, <2>2, <1>1, <1>2, <1>4, <1>5, Zenon
<1>9. GiveOK(t)'
  BY <1>8, Zenon DEF GiveOK
<1> QED BY <1>1, <1>2, <1>3, <1>6, <1>7, <1>8, <1>9, RunStep, StringsKept, Zenon

\* The launch, which fixes who will be told of the end.
LEMMA LaunchInv ==
  ASSUME IInv, NEW j \in Job, Launch(j) PROVE IInv'
<1> DEFINE t == Run(j)
           d == reports_to(info[j])
<1>1. /\ TypeOK /\ ResourceStringsSound /\ RunOK(j) /\ t \in Thread
  BY RunFacts, Zenon
<1>2. /\ dest' = [dest EXCEPT ![j] = d] /\ pc' = [pc EXCEPT ![t] = "belong"]
      /\ UNCHANGED <<res, info, jr, tgt, seen, idx>>
      /\ UNCHANGED <<finished, alive, num_job_fin, num_job_fail>>
      /\ pc[t] = "launch"
  BY Zenon DEF Launch, Goto
<1>3. dest[j] = None /\ OneController(info[j]) /\ info[j] \in JobInfo
  BY <1>1, <1>2, Zenon DEF RunOK, Launched, TypeOK
<1>4. d \in Ctrl
  <2>1. /\ info[j].ctrls \in Seq(Ctrl) /\ Len(info[j].ctrls) = 1
        /\ info[j].alloc \in [Ctrl -> Seq(Node)]
    BY <1>3, Zenon DEF JobInfo, OneController
  <2>2. Head(info[j].ctrls) = info[j].ctrls[1] /\ info[j].ctrls[1] \in Ctrl
    BY <2>1
  <2>3. Head(info[j].alloc[Head(info[j].ctrls)]) \in Node
    BY <2>1, <2>2, <1>3 DEF OneController
  <2> QED BY <2>3, PartitionAssumption, Zenon DEF reports_to
<1> HIDE DEF d
<1>5. pc \in [Thread -> Label] /\ dest \in [Job -> Ctrl \cup {None}]
  BY <1>1, Zenon DEF TypeOK
<1>6. TypeOK'
  BY <1>1, <1>2, <1>4, <1>5, Labels, Zenon DEF TypeOK
<1>7. /\ \A x \in Thread \ {t} : pc'[x] = pc[x]
      /\ \A m \in Job \ {j} : dest'[m] = dest[m]
      /\ pc'[t] = "belong"
  BY <1>1, <1>2, <1>5, Zenon
<1>8. RunOK(j)'
  BY <1>1, <1>2, <1>3, <1>7, Zenon DEF RunOK, Launched
<1>9. GiveOK(t)'
  BY <1>7, Zenon DEF GiveOK
<1> QED BY <1>1, <1>2, <1>3, <1>6, <1>7, <1>8, <1>9, RunStep, StringsKept, Zenon

\* _step_complete_msg_proc, but for its release_res.
LEMMA HandlerStepsInv ==
  ASSUME IInv, NEW j \in Job, NEW k \in 1 .. MaxDelivery, Handler(j, k)
  PROVE  IInv'
<1> DEFINE t == <<j, k>>
<1>1. /\ TypeOK /\ ResourceStringsSound /\ RunOK(j) /\ HandlerOK(j, k) /\ t \in Thread
      /\ info[j] \in JobInfo
  BY Threads, Zenon DEF IInv, RunInv, HandlerInv, TypeOK
<1>2. /\ pc \in [Thread -> Label] /\ jr \in [Thread -> JobResource]
      /\ dest[j] \in Ctrl \cup {None} /\ num_job_fin \in [Ctrl -> Nat]
      /\ finished \in SUBSET Job
  BY <1>1, Zenon DEF TypeOK
<1>3. /\ UNCHANGED <<res, info, tgt, seen, idx, dest, alive, num_job_fail>>
      /\ \A x \in Thread \ {t} : pc'[x] = pc[x] /\ jr'[x] = jr[x]
      /\ pc' \in [Thread -> Label]
  BY <1>2, Labels DEF Handler, StepComplete, CountHere, NotifyOrigin, Goto
<1>4. dest[j] # None /\ pc'[t] \in {"release", "done"}
  <2>1. CASE StepComplete(j, k)
    BY <2>1, <1>1, <1>2, Zenon DEF StepComplete, Goto
  <2>2. CASE CountHere(j, k) \/ NotifyOrigin(j, k)
    <3>1. pc[t] = "release" /\ pc'[t] = "done"
      BY <2>2, <1>1, <1>2, Zenon DEF CountHere, NotifyOrigin, Goto
    <3> QED BY <3>1, <1>1, Zenon DEF HandlerOK
  <2> QED BY <2>1, <2>2, Zenon DEF Handler
<1>5. jr'[t] = create_job_resource(info[j]) /\ jr' \in [Thread -> JobResource]
  <2>1. CASE StepComplete(j, k)
    <3>1. OneController(info[j])
      BY <1>1, <1>4, Zenon DEF RunOK, Launched
    <3>2. create_job_resource(info[j]) \in JobResource
      BY <3>1, <1>1, CompletionShape, Zenon
    <3> QED BY <2>1, <3>2, <1>1, <1>2, Zenon DEF StepComplete
  <2>2. CASE CountHere(j, k) \/ NotifyOrigin(j, k)
    BY <2>2, <1>1, <1>2, Zenon DEF CountHere, NotifyOrigin, HandlerOK
  <2> QED BY <2>1, <2>2, Zenon DEF Handler
<1>6. num_job_fin' \in [Ctrl -> Nat] /\ finished' \in SUBSET Job
  <2>1. CASE StepComplete(j, k)
    BY <2>1, <1>2, Zenon DEF StepComplete
  <2>2. CASE CountHere(j, k)
    <3>1. dest[j] \in Ctrl
      BY <1>2, <1>4, Zenon
    <3>2. num_job_fin[dest[j]] + 1 \in Nat
      BY ONLY <3>1, <1>2, SMTT(40)
    <3> QED BY ONLY <2>2, <3>1, <3>2, <1>2, Zenon DEF CountHere
  <2>3. CASE NotifyOrigin(j, k)
    BY <2>3, <1>2, Zenon DEF NotifyOrigin
  <2> QED BY <2>1, <2>2, <2>3, Zenon DEF Handler
<1>7. TypeOK'
  BY <1>1, <1>3, <1>5, <1>6, Zenon DEF TypeOK
<1>8. HandlerOK(j, k)' /\ GiveOK(t)'
  BY <1>3, <1>4, <1>5, Zenon DEF HandlerOK, GiveOK
<1> QED BY <1>1, <1>3, <1>7, <1>8, HandlerStep, StringsKept, Zenon

\* release_res gives back to every string the nodes that came from it.
LEMMA ReleaseInv ==
  ASSUME IInv, NEW t \in Thread, Release(t) PROVE IInv'
<1> DEFINE key == jr[t].ctrl_ids_2[idx[t]]
           part == jr[t].node_alloc[idx[t]]
<1>1. /\ TypeOK /\ ResourceStringsSound /\ pc \in [Thread -> Label]
      /\ seen \in [Thread -> ResVal(Node) \cup {NoRes}]
      /\ res \in [Ctrl -> ResVal(Node) \cup {NoRes}]
      /\ idx \in [Thread -> Nat] /\ alive \in [Ctrl -> BOOLEAN]
  BY Zenon DEF IInv, TypeOK
<1>2. UNCHANGED <<info, finished, jr, tgt, dest, num_job_fin, num_job_fail>>
  BY Zenon DEF Release, ReleaseLookup, ReleaseSwap, ReleaseStale
<1>3. /\ \A x \in Thread \ {t} : pc'[x] = pc[x] /\ seen'[x] = seen[x] /\ idx'[x] = idx[x]
      /\ pc[t] \in {"release", "giveback"} /\ pc'[t] \in {"release", "giveback"}
  BY <1>1, Zenon DEF Release, ReleaseLookup, ReleaseSwap, ReleaseStale, Releasing, Crash, Goto
<1>4. /\ pc' \in [Thread -> Label] /\ idx' \in [Thread -> Nat]
      /\ alive' \in [Ctrl -> BOOLEAN]
  <2>1. CASE ReleaseLookup(t)
    BY <2>1, <1>1, Labels, Zenon DEF ReleaseLookup, Crash, Goto
  <2>2. CASE ReleaseSwap(t)
    <3>1. idx[t] + 1 \in Nat
      BY <1>1
    <3> QED BY ONLY <2>2, <3>1, <1>1, Labels, Zenon DEF ReleaseSwap, Goto
  <2>3. CASE ReleaseStale(t)
    BY <2>3, <1>1, Zenon DEF ReleaseStale
  <2> QED BY <2>1, <2>2, <2>3, Zenon DEF Release
<1>5. ReleaseLookup(t) => key \in Ctrl \cup {NoStr}
  <2>1. /\ jr[t] \in JobResource /\ jr[t].num_ctrl <= num_ctrl /\ idx[t] \in Nat
    BY <1>1, <1>3, ReleaseSlots, Zenon
  <2>2. jr[t].num_ctrl \in Nat /\ jr[t].ctrl_ids_2 \in [Slot -> Ctrl \cup {NoStr}]
    BY <2>1, Zenon DEF JobResource
  <2>3. ReleaseLookup(t) => idx[t] < jr[t].num_ctrl
    BY Zenon DEF ReleaseLookup, Releasing
  <2>4. ReleaseLookup(t) => idx[t] \in Slot
    BY <2>1, <2>2, <2>3, SlotIndex, Zenon
  <2> QED BY <2>2, <2>4, Zenon
<1>6. /\ seen' \in [Thread -> ResVal(Node) \cup {NoRes}]
      /\ res' \in [Ctrl -> ResVal(Node) \cup {NoRes}] /\ ResourceStringsSound'
      /\ \A d \in Ctrl : res[d] # NoRes => res'[d] # NoRes
      /\ GiveOK(t)'
  <2>1. CASE ReleaseLookup(t)
    <3>1. /\ res' = res /\ idx' = idx
          /\ \/ /\ key # NoStr /\ res[key] # NoRes
                /\ seen' = [seen EXCEPT ![t] = res[key]] /\ pc'[t] = "giveback"
             \/ seen' = seen /\ pc' = pc
          /\ pc[t] = "release" /\ idx[t] < jr[t].num_ctrl
      BY <2>1, <1>1, Zenon DEF ReleaseLookup, Releasing, Goto
    <3>2. key # NoStr => key \in Ctrl
      BY <2>1, <1>5, Zenon
    <3>3. seen' \in [Thread -> ResVal(Node) \cup {NoRes}]
      BY <3>1, <3>2, <1>1, Zenon
    <3>4. GiveOK(t)'
      BY <3>1, <3>2, <1>1, <1>2, Zenon DEF GiveOK
    <3> QED BY <3>1, <3>3, <3>4, <1>1, StringsKept, Zenon
  <2>2. CASE ReleaseSwap(t)
    <3>1. /\ pc[t] = "giveback" /\ res[key] = seen[t] /\ seen' = seen
          /\ res' = [res EXCEPT ![key] = merge_res_str(seen[t], part)]
          /\ pc'[t] = "release"
      BY <2>2, <1>1, Zenon DEF ReleaseSwap, compare_swap, Goto
    <3>2. /\ key \in Ctrl /\ res[key] \in ResVal(Node)
          /\ Range(res[key].nodes) \subseteq Range(Partition[key])
          /\ part \in Seq(Node) /\ Range(part) \subseteq Range(Partition[key])
      BY <3>1, GiveFacts, Zenon
    <3> DEFINE v == merge_res_str(res[key], part)
    <3> HIDE DEF key, part
    <3>3. v \in ResVal(Node) /\ Sound(v) /\ v.nodes = res[key].nodes \o part
      BY <3>2, MergeAppends, Zenon
    <3>4. res[key].nodes \in Seq(Node)
      BY ONLY <3>2, Zenon DEF ResVal
    <3>5. Range(v.nodes) \subseteq Range(Partition[key])
      <4>1. Range(res[key].nodes \o part) = Range(res[key].nodes) \cup Range(part)
        BY ONLY <3>2, <3>4, RangeConcat, SMTT(40)
      <4> QED BY ONLY <4>1, <3>2, <3>3, Zenon
    <3>6. res' = [res EXCEPT ![key] = v]
      BY <3>1, Zenon
    <3> HIDE DEF v
    <3>7. /\ res' \in [Ctrl -> ResVal(Node) \cup {NoRes}] /\ ResourceStringsSound'
          /\ \A d \in Ctrl : res[d] # NoRes => res'[d] # NoRes
      BY <3>2, <3>3, <3>5, <3>6, <1>1, StringReplaced, Zenon
    <3> QED BY <3>1, <3>7, <1>1, Zenon DEF GiveOK
  <2>3. CASE ReleaseStale(t)
    <3>1. /\ res' = res /\ seen' = [seen EXCEPT ![t] = res[key]]
          /\ idx' = idx /\ pc' = pc /\ pc[t] = "giveback"
      BY <2>3, Zenon DEF ReleaseStale
    <3>2. GiveOK(t)
      BY Zenon DEF IInv, GiveInv
    <3>3. /\ key \in Ctrl /\ res[key] # NoRes /\ idx[t] < jr[t].num_ctrl
      BY <3>1, <3>2, Zenon DEF GiveOK
    <3> QED BY <3>1, <3>3, <1>1, <1>2, StringsKept, Zenon DEF GiveOK
  <2> QED BY <2>1, <2>2, <2>3, Zenon DEF Release
<1>7. TypeOK'
  BY <1>1, <1>2, <1>4, <1>6, Zenon DEF TypeOK
<1>8. PICK j \in Job : t = Run(j) \/ \E k \in 1 .. MaxDelivery : t = <<j, k>>
  BY Threads, Zenon
<1>9. CASE t = Run(j)
  <2>1. RunOK(j)
    BY Zenon DEF IInv, RunInv
  <2>2. RunOK(j)'
    BY <2>1, <1>2, <1>3, <1>9, Zenon DEF RunOK, Launched
  <2> QED BY <2>2, <1>2, <1>3, <1>6, <1>7, <1>9, RunStep, Zenon
<1>10. CASE \E k \in 1 .. MaxDelivery : t = <<j, k>>
  <2>1. PICK k \in 1 .. MaxDelivery : t = <<j, k>>
    BY <1>10, Zenon
  <2>2. HandlerOK(j, k)
    BY Zenon DEF IInv, HandlerInv
  <2>3. HandlerOK(j, k)'
    BY <2>1, <2>2, <1>2, <1>3, Zenon DEF HandlerOK
  <2> QED BY <2>1, <2>3, <1>2, <1>3, <1>6, <1>7, HandlerStep, Zenon
<1> QED BY <1>8, <1>9, <1>10, Zenon

\* Every step keeps the invariant.
LEMMA NextInv == IInv /\ [Next]_vars => IInv'
<1> SUFFICES ASSUME IInv, [Next]_vars PROVE IInv'
  BY Zenon
<1>1. ASSUME NEW c \in Ctrl, Register(c) PROVE IInv'
  BY <1>1, RegisterInv, Zenon
<1>2. ASSUME NEW j \in Job, JobThread(j) PROVE IInv'
  <2>1. CASE \/ JobTooLarge(j) \/ JobStart(j) \/ BelongsHere(j) \/ Notified(j)
             \/ CountNotified(j)
    BY <2>1, QuietInv, Zenon
  <2>2. CASE AllocLookup(j) \/ AllocStale(j)
    BY <2>2, ReadInv, Zenon
  <2>3. CASE AllocNotRegistered(j) \/ AllocEmpty(j)
    BY <2>3, FailedTryInv, Zenon DEF AllocNotRegistered, AllocEmpty
  <2>4. CASE AllocSwap(j)
    BY <2>4, SwapInv, Zenon
  <2>5. CASE ResetJob(j)
    BY <2>5, ResetInv, Zenon
  <2>6. CASE CreateJob(j)
    BY <2>6, CreateInv, Zenon
  <2>7. CASE Launch(j)
    BY <2>7, LaunchInv, Zenon
  <2> QED BY <1>2, <2>1, <2>2, <2>3, <2>4, <2>5, <2>6, <2>7, Zenon
          DEF JobThread, Allocate
<1>3. ASSUME NEW j \in Job, NEW c \in Ctrl, Draw(j, c) PROVE IInv'
  BY <1>3, ReadInv, Zenon
<1>4. ASSUME NEW j \in Job, NEW k \in 1 .. MaxDelivery, Handler(j, k) PROVE IInv'
  BY <1>4, HandlerStepsInv, Zenon
<1>5. ASSUME NEW t \in Thread, Release(t) PROVE IInv'
  BY <1>5, ReleaseInv, Zenon
<1>6. CASE UNCHANGED vars
  <2>1. TypeOK' /\ ResourceStringsSound'
    BY <1>6, StringsKept, Zenon DEF vars, IInv, TypeOK
  <2>2. RunInv' /\ HandlerInv' /\ GiveInv'
    BY <1>6, Zenon DEF vars, IInv, RunInv, RunOK, HandlerInv, HandlerOK, GiveInv, GiveOK
  <2> QED BY <2>1, <2>2, Zenon DEF IInv
<1> QED BY <1>1, <1>2, <1>3, <1>4, <1>5, <1>6, Zenon DEF Next

\* The invariant always holds.
LEMMA Invariance == Spec => []IInv
BY InitInv, NextInv, PTL DEF Spec

\* Every variable keeps its type.  In particular the indices of release_res stay
\* in range, no thread swaps a string it has not read, and a launched job has a
\* first node, whose controller _one_step_complete_msg reports to.
THEOREM TypeCorrect == Spec => []TypeOK
<1>1. IInv => TypeOK
  BY Zenon DEF IInv
<1> QED BY <1>1, Invariance, PTL

\* The count in front of a resource string is the number of names behind it,
\* and a node only comes back to the partition it was taken from, whatever
\* compare-and-swaps of allocate_res and release_res are interleaved.
THEOREM StringsAreSound == Spec => []ResourceStringsSound
<1>1. IInv => ResourceStringsSound
  BY Zenon DEF IInv
<1> QED BY <1>1, Invariance, PTL
=============================================================================
