------------------------- MODULE JobLaunchHoldings --------------------------
(***************************************************************************)
(* The nodes that the threads of JobLaunch hold, when the completion of a  *)
(* step is delivered once: the invariant that makes them exclusive, and    *)
(* that every step keeps it.                                               *)
(*                                                                         *)
(* The invariant of JobLaunchProofs gives the shape of the structures.     *)
(* Added here: the lists in them repeat no node, and all nodes of a job    *)
(* come from partitions that have registered.                              *)
(***************************************************************************)
EXTENDS JobLaunchProofs

\* The lists a thread holds repeat no node, alone or together.
SlotsOK(t) ==
  /\ \A i \in HeldSlots(t) : IsInjective(jr[t].node_alloc[i])
  /\ \A i, k \in HeldSlots(t) :
       i # k => Range(jr[t].node_alloc[i]) \cap Range(jr[t].node_alloc[k]) = {}

\* Nor do the recorded ones.
RecordOK(j) ==
  pc[Run(j)] \in Launched => \A c \in Ctrl : IsInjective(info[j].alloc[c])

\* The nodes of partitions that have registered.
Known == UNION {Range(Partition[c]) : c \in {d \in Ctrl : res[d] # NoRes}}

\* All of that of the two threads of job j.
JobOK(j) ==
  /\ SlotsOK(Run(j)) /\ SlotsOK(<<j, 1>>) /\ RecordOK(j)
  /\ Holds(j) \subseteq Known
  /\ pc[<<j, 1>>] = "idle" => idx[<<j, 1>>] = 0

XInv == NodeExclusive /\ \A j \in Job : JobOK(j)

\* The nodes in all resource strings.
AllFree == UNION {Free(c) : c \in Ctrl}

\* What a step of job j does to the nodes.  It keeps those of other jobs.  Its
\* own get lost, or go to the idle ones; or idle ones go to it, or get lost.
HandOver(j) ==
  /\ \A m \in Job \ {j} : Holds(m)' = Holds(m)
  /\ \A c \in Ctrl : res'[c] = NoRes <=> res[c] = NoRes
  /\ \/ AllFree' = AllFree /\ Holds(j)' \subseteq Holds(j)
     \/ AllFree \subseteq AllFree' /\ Holds(j) = Holds(j)' \cup (AllFree' \ AllFree)
     \/ AllFree' \subseteq AllFree /\ Holds(j)' = Holds(j) \cup (AllFree \ AllFree')
     \/ AllFree' \subseteq AllFree /\ Holds(j)' = Holds(j)

\* What the registration of the partition of c does: its nodes become idle.
ComesUp(c) ==
  /\ \A m \in Job : Holds(m)' = Holds(m)
  /\ res[c] = NoRes /\ res'[c] # NoRes /\ \A d \in Ctrl \ {c} : res'[d] = res[d]
  /\ AllFree' = AllFree \cup Range(Partition[c])
-----------------------------------------------------------------------------
\* Partitions have no node in common, so resource strings have none.
LEMMA FreeDisjoint ==
  /\ \A c, d \in Ctrl : c # d => Range(Partition[c]) \cap Range(Partition[d]) = {}
  /\ \A c \in Ctrl : IsInjective(Partition[c])
  /\ ResourceStringsSound =>
       /\ \A c \in Ctrl : Free(c) \subseteq Range(Partition[c])
       /\ \A c, d \in Ctrl : c # d => Free(c) \cap Free(d) = {}
<1>1. \A c \in Ctrl : DOMAIN Partition[c] = 1 .. part_size
  BY PartitionAssumption
<1>2. \A c, d \in Ctrl : c # d => Range(Partition[c]) \cap Range(Partition[d]) = {}
  <2> SUFFICES ASSUME NEW c \in Ctrl, NEW d \in Ctrl, c # d,
                      NEW n \in Range(Partition[c]), n \in Range(Partition[d])
               PROVE  FALSE
    BY Zenon
  <2>1. PICK i \in 1 .. part_size : n = Partition[c][i]
    BY <1>1, Zenon DEF Range
  <2>2. PICK k \in 1 .. part_size : n = Partition[d][k]
    BY <1>1, Zenon DEF Range
  <2>3. Partition[c][i] = Partition[d][k] => c = d
    BY ONLY PartitionAssumption, c \in Ctrl, d \in Ctrl,
            i \in 1 .. part_size, k \in 1 .. part_size, Zenon
  <2> QED BY <2>1, <2>2, <2>3, Zenon
<1>3. \A c \in Ctrl : IsInjective(Partition[c])
  BY <1>1, PartitionAssumption DEF IsInjective
<1>4. ASSUME ResourceStringsSound, NEW c \in Ctrl
      PROVE  Free(c) \subseteq Range(Partition[c])
  BY <1>4, Zenon DEF ResourceStringsSound, Free
<1> QED BY <1>2, <1>3, <1>4, Zenon

\* The same after a step.
LEMMA FreeDisjointNext ==
  ASSUME IInv' PROVE \A c, d \in Ctrl : c # d => Free(c)' \cap Free(d)' = {}
<1>1. \A c \in Ctrl : Free(c)' \subseteq Range(Partition[c])
  BY Zenon DEF IInv, ResourceStringsSound, Free
<1> QED BY <1>1, FreeDisjoint, Zenon
-----------------------------------------------------------------------------
(***************************************************************************)
(* Frames: what a step of one job leaves alone.                            *)
(***************************************************************************)
\* With one delivery a job has a recorded allocation and two threads.
LEMMA HoldsSplit ==
  ASSUME MaxDelivery = 1, NEW j \in Job
  PROVE  Holds(j) =
           (IF Recorded(j) THEN UNION {Range(info[j].alloc[c]) : c \in Ctrl} ELSE {})
             \cup HeldBy(Run(j)) \cup HeldBy(<<j, 1>>)
<1>1. 0 .. MaxDelivery = {0, 1}
  OBVIOUS
<1>2. UNION {HeldBy(<<j, k>>) : k \in {0, 1}} = HeldBy(<<j, 0>>) \cup HeldBy(<<j, 1>>)
  BY Zenon
<1> QED BY <1>1, <1>2, Zenon DEF Holds, Run

\* The same after a step.
LEMMA HoldsSplitNext ==
  ASSUME MaxDelivery = 1, NEW j \in Job
  PROVE  Holds(j)' =
           (IF Recorded(j)' THEN UNION {Range(info'[j].alloc[c]) : c \in Ctrl} ELSE {})
             \cup HeldBy(Run(j))' \cup HeldBy(<<j, 1>>)'
<1>1. 0 .. MaxDelivery = {0, 1}
  OBVIOUS
<1>2. UNION {HeldBy(<<j, k>>)' : k \in {0, 1}} = HeldBy(<<j, 0>>)' \cup HeldBy(<<j, 1>>)'
  BY Zenon
<1> QED BY <1>1, <1>2, Zenon DEF Holds, Run

\* A thread whose structure, index and place stay the same.
LEMMA ThreadKept ==
  ASSUME NEW t, pc'[t] = pc[t], jr'[t] = jr[t], idx'[t] = idx[t]
  PROVE  /\ HeldSlots(t)' = HeldSlots(t) /\ HeldBy(t)' = HeldBy(t)
         /\ SlotsOK(t) => SlotsOK(t)'
<1>1. HeldSlots(t)' = HeldSlots(t)
  BY Zenon DEF HeldSlots
<1> QED BY <1>1, Zenon DEF HeldBy, SlotsOK

\* A thread that holds the same slots, or fewer, of the same structure.
LEMMA SlotsFewer ==
  ASSUME NEW t, jr'[t] = jr[t], HeldSlots(t)' \subseteq HeldSlots(t)
  PROVE  HeldBy(t)' \subseteq HeldBy(t) /\ (SlotsOK(t) => SlotsOK(t)')
BY Zenon DEF HeldBy, SlotsOK

\* A job none of whose threads moves.
LEMMA JobKept ==
  ASSUME MaxDelivery = 1, NEW m \in Job, info'[m] = info[m],
         pc'[Run(m)] = pc[Run(m)], jr'[Run(m)] = jr[Run(m)],
         idx'[Run(m)] = idx[Run(m)],
         pc'[<<m, 1>>] = pc[<<m, 1>>], jr'[<<m, 1>>] = jr[<<m, 1>>],
         idx'[<<m, 1>>] = idx[<<m, 1>>], Known \subseteq Known'
  PROVE  Holds(m)' = Holds(m) /\ (JobOK(m) => JobOK(m)')
<1>1. /\ HeldBy(Run(m))' = HeldBy(Run(m)) /\ HeldBy(<<m, 1>>)' = HeldBy(<<m, 1>>)
      /\ SlotsOK(Run(m)) => SlotsOK(Run(m))'
      /\ SlotsOK(<<m, 1>>) => SlotsOK(<<m, 1>>)'
  <2>1. HeldBy(Run(m))' = HeldBy(Run(m)) /\ (SlotsOK(Run(m)) => SlotsOK(Run(m))')
    BY ThreadKept, Zenon
  <2>2. /\ HeldBy(<<m, 1>>)' = HeldBy(<<m, 1>>)
        /\ SlotsOK(<<m, 1>>) => SlotsOK(<<m, 1>>)'
    BY ThreadKept, Zenon
  <2> QED BY <2>1, <2>2, Zenon
<1>2. Recorded(m)' = Recorded(m) /\ (RecordOK(m) => RecordOK(m)')
  BY Zenon DEF Recorded, RecordOK
<1>4. Holds(m)' = Holds(m)
  <2>1. Holds(m) =
          (IF Recorded(m) THEN UNION {Range(info[m].alloc[c]) : c \in Ctrl} ELSE {})
            \cup HeldBy(Run(m)) \cup HeldBy(<<m, 1>>)
    BY HoldsSplit, Zenon
  <2>2. Holds(m)' =
          (IF Recorded(m)' THEN UNION {Range(info[m].alloc[c]) : c \in Ctrl} ELSE {})
            \cup HeldBy(Run(m))' \cup HeldBy(<<m, 1>>)'
    BY HoldsSplitNext, Zenon
  <2> QED BY ONLY <2>1, <2>2, <1>1, <1>2, Zenon
<1> QED BY <1>1, <1>2, <1>4, Zenon DEF JobOK

\* The two threads of each job, when a completion is delivered once.
LEMMA TwoThreads ==
  ASSUME MaxDelivery = 1
  PROVE  /\ \A j \in Job : Run(j) \in Thread /\ <<j, 1>> \in Thread /\ Run(j) # <<j, 1>>
         /\ \A j \in Job : \A m \in Job \ {j} :
              Run(m) \notin {Run(j), <<j, 1>>} /\ <<m, 1>> \notin {Run(j), <<j, 1>>}
         /\ \A t \in Thread : \E j \in Job : t = Run(j) \/ t = <<j, 1>>
BY DEF Run, Thread

\* A step of job j keeps the invariant when it keeps the part of j, and j takes
\* nothing that another job has or that stays idle.
LEMMA JobStep ==
  ASSUME MaxDelivery = 1, XInv, IInv', NEW j \in Job,
         \A t \in Thread \ {Run(j), <<j, 1>>} :
           pc'[t] = pc[t] /\ jr'[t] = jr[t] /\ idx'[t] = idx[t],
         \A m \in Job \ {j} : info'[m] = info[m],
         \A c \in Ctrl : res[c] # NoRes => res'[c] # NoRes,
         \A c \in Ctrl : res'[c] # NoRes => IsInjective(res'[c].nodes),
         JobOK(j)',
         \A c \in Ctrl : Holds(j)' \cap Free(c)' = {},
         \A m \in Job \ {j} : Holds(m) \cap Holds(j)' = {},
         \A m \in Job \ {j} : \A c \in Ctrl : Holds(m) \cap Free(c)' = {}
  PROVE  XInv' /\ \A m \in Job \ {j} : Holds(m)' = Holds(m)
<1>1. Known \subseteq Known'
  BY Zenon DEF Known
<1>2. \A m \in Job \ {j} : Holds(m)' = Holds(m) /\ JobOK(m)'
  <2> SUFFICES ASSUME NEW m \in Job \ {j} PROVE Holds(m)' = Holds(m) /\ JobOK(m)'
    BY Zenon
  <2>1. /\ Run(m) \in Thread \ {Run(j), <<j, 1>>}
        /\ <<m, 1>> \in Thread \ {Run(j), <<j, 1>>}
    BY TwoThreads, Zenon
  <2>2. JobOK(m)
    BY Zenon DEF XInv
  <2> QED BY <1>1, <2>1, <2>2, JobKept, Zenon
<1>3. \A c, d \in Ctrl : c # d => Free(c)' \cap Free(d)' = {}
  BY FreeDisjointNext, Zenon
<1>4. \A m \in Job, c \in Ctrl : Holds(m)' \cap Free(c)' = {}
  BY <1>2, Zenon
<1>5. \A m, k \in Job : m # k => Holds(m)' \cap Holds(k)' = {}
  <2> SUFFICES ASSUME NEW m \in Job, NEW k \in Job, m # k
               PROVE  Holds(m)' \cap Holds(k)' = {}
    BY Zenon
  <2>1. CASE m # j /\ k # j
    BY <2>1, <1>2, Zenon DEF XInv, NodeExclusive
  <2>2. CASE m = j \/ k = j
    BY <2>2, <1>2, Zenon
  <2> QED BY <2>1, <2>2, Zenon
<1>6. NodeExclusive'
  BY <1>3, <1>4, <1>5, Zenon DEF NodeExclusive
<1> QED BY <1>2, <1>6, Zenon DEF XInv

\* A step of job j that leaves ZHT's strings alone and takes nothing.
LEMMA QuietStep ==
  ASSUME MaxDelivery = 1, XInv, IInv', NEW j \in Job,
         \A t \in Thread \ {Run(j), <<j, 1>>} :
           pc'[t] = pc[t] /\ jr'[t] = jr[t] /\ idx'[t] = idx[t],
         \A m \in Job \ {j} : info'[m] = info[m], res' = res,
         SlotsOK(Run(j))', SlotsOK(<<j, 1>>)', RecordOK(j)',
         Holds(j)' \subseteq Holds(j),
         pc'[<<j, 1>>] = "idle" => idx'[<<j, 1>>] = 0
  PROVE  XInv' /\ HandOver(j)
<1>1. NodeExclusive /\ JobOK(j)
  BY Zenon DEF XInv
<1>2. \A c \in Ctrl : Free(c)' = Free(c)
  BY Zenon DEF Free
<1>3. Known' = Known
  BY Zenon DEF Known
<1>4. JobOK(j)'
  BY <1>1, <1>3, Zenon DEF JobOK
<1>5. /\ \A c \in Ctrl : Holds(j)' \cap Free(c)' = {}
      /\ \A m \in Job \ {j} : Holds(m) \cap Holds(j)' = {}
      /\ \A m \in Job \ {j} : \A c \in Ctrl : Holds(m) \cap Free(c)' = {}
      /\ \A c \in Ctrl : res'[c] # NoRes => IsInjective(res'[c].nodes)
  BY <1>1, <1>2 DEF NodeExclusive
<1>6. XInv' /\ \A m \in Job \ {j} : Holds(m)' = Holds(m)
  BY <1>4, <1>5, JobStep, Zenon
<1>7. AllFree' = AllFree
  BY Zenon DEF AllFree, Free
<1> QED BY <1>6, <1>7, Zenon DEF HandOver

\* Such a step of the thread of j, with nothing new in ZHT.
LEMMA RunQuiet ==
  ASSUME MaxDelivery = 1, XInv, IInv', NEW j \in Job,
         \A t \in Thread \ {Run(j)} :
           pc'[t] = pc[t] /\ jr'[t] = jr[t] /\ idx'[t] = idx[t],
         info' = info, res' = res, SlotsOK(Run(j))',
         HeldBy(Run(j))' \subseteq HeldBy(Run(j)),
         pc'[Run(j)] \in Launched => pc[Run(j)] \in Launched
  PROVE  XInv' /\ HandOver(j)
<1>1. /\ Run(j) \in Thread /\ <<j, 1>> \in Thread \ {Run(j)}
      /\ Thread \ {Run(j), <<j, 1>>} \subseteq Thread \ {Run(j)}
  BY TwoThreads, Zenon
<1>2. JobOK(j)
  BY Zenon DEF XInv
<1>3. HeldBy(<<j, 1>>)' = HeldBy(<<j, 1>>) /\ SlotsOK(<<j, 1>>)'
  BY <1>1, <1>2, ThreadKept, Zenon DEF JobOK
<1>4. Recorded(j)' => Recorded(j)
  BY <1>1, Zenon DEF Recorded, Launched
<1>5. RecordOK(j)'
  BY <1>2, Zenon DEF JobOK, RecordOK
<1>6. Holds(j)' \subseteq Holds(j)
  <2>1. Holds(j) =
          (IF Recorded(j) THEN UNION {Range(info[j].alloc[c]) : c \in Ctrl} ELSE {})
            \cup HeldBy(Run(j)) \cup HeldBy(<<j, 1>>)
    BY HoldsSplit, Zenon
  <2>2. Holds(j)' =
          (IF Recorded(j)' THEN UNION {Range(info[j].alloc[c]) : c \in Ctrl} ELSE {})
            \cup HeldBy(Run(j))' \cup HeldBy(<<j, 1>>)'
    BY HoldsSplitNext, Zenon
  <2>3. HeldBy(Run(j))' \subseteq HeldBy(Run(j))
    BY Zenon
  <2> QED BY ONLY <2>1, <2>2, <2>3, <1>3, <1>4, Zenon
<1>7. pc'[<<j, 1>>] = "idle" => idx'[<<j, 1>>] = 0
  BY <1>1, <1>2, Zenon DEF JobOK
<1> QED BY <1>1, <1>3, <1>5, <1>6, <1>7, QuietStep, Zenon

\* A structure without nodes.
LEMMA EmptyShape ==
  ASSUME NEW r \in JobResource, NEW need \in Nat, Shape(r, need), r.num_node = 0
  PROVE  \A i \in Slot : r.node_alloc[i] = << >>
<1>1. r.nodelist \in Nat /\ Len(r.ctrl_ids_1) \in Nat /\ r.ctrl_ids_1 \in Seq(Ctrl)
  BY DEF JobResource
<1>2. r.ctrl_ids_1 = << >>
  <2>1. r.ctrl_ids_1 # << >> => r.nodelist >= 1 /\ r.nodelist + Len(r.ctrl_ids_1) <= 1
    BY DEF Shape
  <2>2. r.ctrl_ids_1 # << >> => Len(r.ctrl_ids_1) # 0
    BY <1>1
  <2> DEFINE len == Len(r.ctrl_ids_1)
  <2>3. len \in Nat /\ r.nodelist \in Nat
    BY <1>1, Zenon
  <2> HIDE DEF len
  <2>4. r.nodelist >= 1 /\ r.nodelist + len <= 1 => len = 0
    BY ONLY <2>3, SMTT(40)
  <2> QED BY <2>1, <2>2, <2>4, Zenon DEF len
<1> QED BY <1>2, Sizes, Zenon DEF Shape

\* A thread that has given back all slots holds nothing.
LEMMA NoSlots ==
  ASSUME NEW t, HeldSlots(t) = {}
  PROVE  HeldBy(t) = {}
BY Zenon DEF HeldBy

\* Slots without nodes.
LEMMA EmptySlotsNext ==
  ASSUME NEW t, \A i \in HeldSlots(t)' : jr'[t].node_alloc[i] = << >>
  PROVE  HeldBy(t)' = {} /\ SlotsOK(t)'
<1>1. Range(<< >>) = {} /\ IsInjective(<< >>)
  BY DEF Range, IsInjective
<1> QED BY <1>1, Zenon DEF HeldBy, SlotsOK

\* As long as the job of a thread is not launched, no completion has come in.
LEMMA NotLaunched ==
  ASSUME MaxDelivery = 1, IInv, NEW j \in Job, pc[Run(j)] \notin Launched \ {"launch"}
  PROVE  pc[<<j, 1>>] = "idle"
<1>1. RunOK(j) /\ HandlerOK(j, 1)
  BY DEF IInv, RunInv, HandlerInv
<1> QED BY <1>1, Zenon DEF RunOK, HandlerOK
-----------------------------------------------------------------------------
(***************************************************************************)
(* One lemma per kind of step.                                             *)
(***************************************************************************)
\* Initially nobody holds a node.
LEMMA XInit == ASSUME MaxDelivery = 1, Init PROVE XInv
<1>1. \A t \in Thread : pc[t] = "idle" /\ idx[t] = 0
  BY Zenon DEF Init
<1>2. \A t \in Thread : HeldSlots(t) = {}
  BY <1>1, Zenon DEF HeldSlots
<1>3. \A t \in Thread : HeldBy(t) = {} /\ SlotsOK(t)
  BY <1>2, NoSlots, Zenon DEF SlotsOK
<1>4. \A j \in Job : ~ Recorded(j) /\ pc[Run(j)] \notin Launched
  BY <1>1, TwoThreads, Zenon DEF Recorded, Launched
<1>5. \A j \in Job : Holds(j) = {}
  <2> SUFFICES ASSUME NEW j \in Job PROVE Holds(j) = {}
    BY Zenon
  <2>1. ~ Recorded(j) /\ HeldBy(Run(j)) = {} /\ HeldBy(<<j, 1>>) = {}
    BY <1>3, <1>4, TwoThreads, Zenon
  <2> QED BY <2>1, HoldsSplit, Zenon
<1>6. \A c \in Ctrl : res[c] = NoRes /\ Free(c) = {}
  BY Zenon DEF Init, Free
<1>7. NodeExclusive
  BY <1>5, <1>6, Zenon DEF NodeExclusive
<1>8. \A j \in Job : JobOK(j)
  BY <1>1, <1>3, <1>4, <1>5, TwoThreads, Zenon DEF JobOK, RecordOK
<1> QED BY <1>7, <1>8, Zenon DEF XInv

\* A partition comes in: nobody has its nodes yet.
LEMMA XRegister ==
  ASSUME MaxDelivery = 1, IInv, XInv, IInv', NEW c \in Ctrl, Register(c)
  PROVE  XInv' /\ ComesUp(c)
<1>1. /\ res[c] = NoRes /\ UNCHANGED <<info, pc, jr, idx>>
      /\ res' = [res EXCEPT ![c] = [num |-> part_size, nodes |-> Partition[c]]]
      /\ res \in [Ctrl -> ResVal(Node) \cup {NoRes}]
  BY Zenon DEF Register, IInv, TypeOK
<1>2. res'[c].nodes = Partition[c] /\ \A d \in Ctrl \ {c} : res'[d] = res[d]
  BY <1>1, Zenon
<1>3. \A d \in Ctrl : res[d] # NoRes => d # c /\ res'[d] # NoRes
  BY <1>1, <1>2, Zenon
<1>4. Known \subseteq Known'
  BY <1>3, Zenon DEF Known
<1>5. \A m \in Job : Holds(m)' = Holds(m) /\ JobOK(m)'
  BY <1>1, <1>4, JobKept, Zenon DEF XInv
<1>6. \A m \in Job : Holds(m) \cap Range(Partition[c]) = {}
  <2>1. Known \cap Range(Partition[c]) = {}
    BY <1>3, FreeDisjoint DEF Known
  <2> QED BY <2>1, Zenon DEF XInv, JobOK
<1>7. /\ Free(c)' \subseteq Range(Partition[c])
      /\ \A d \in Ctrl \ {c} : Free(d)' = Free(d)
  BY <1>2, Zenon DEF Free
<1>8. \A m \in Job, d \in Ctrl : Holds(m)' \cap Free(d)' = {}
  <2> SUFFICES ASSUME NEW m \in Job, NEW d \in Ctrl
               PROVE  Holds(m) \cap Free(d)' = {}
    BY <1>5, Zenon
  <2>1. CASE d = c
    BY <2>1, <1>6, <1>7, Zenon
  <2>2. CASE d # c
    BY <2>2, <1>7, Zenon DEF XInv, NodeExclusive
  <2> QED BY <2>1, <2>2, Zenon
<1>9. \A d \in Ctrl : res'[d] # NoRes => IsInjective(res'[d].nodes)
  BY <1>2, FreeDisjoint, Zenon DEF XInv, NodeExclusive
<1>10. \A m, k \in Job : m # k => Holds(m)' \cap Holds(k)' = {}
  BY <1>5, Zenon DEF XInv, NodeExclusive
<1>11. NodeExclusive'
  BY <1>8, <1>9, <1>10, FreeDisjointNext, Zenon DEF NodeExclusive
<1>12. res'[c] # NoRes
  <2>1. [num |-> part_size, nodes |-> Partition[c]] \in ResVal(Node)
    BY PartitionAssumption, Zenon DEF ResVal
  <2> QED BY <2>1, <1>1, Sizes, Zenon
<1>13. AllFree' = AllFree \cup Range(Partition[c])
  <2>1. Free(c) = {} /\ Free(c)' = Range(Partition[c])
    BY <1>1, <1>2, <1>12, Zenon DEF Free
  <2> QED BY <2>1, <1>7, Zenon DEF AllFree
<1> QED BY <1>1, <1>2, <1>5, <1>11, <1>12, <1>13, Zenon DEF XInv, ComesUp

\* Steps of the thread of j that keep its lists.
LEMMA XKeep ==
  ASSUME MaxDelivery = 1, IInv, XInv, IInv', NEW j \in Job,
         \/ AllocLookup(j) \/ AllocStale(j) \/ \E c \in Ctrl : Draw(j, c)
         \/ JobTooLarge(j) \/ Launch(j) \/ BelongsHere(j) \/ Notified(j)
         \/ CountNotified(j)
  PROVE  XInv' /\ HandOver(j)
<1>1. /\ UNCHANGED <<res, info, jr, idx>>
      /\ \A t \in Thread \ {Run(j)} : pc'[t] = pc[t]
      /\ pc \in [Thread -> Label] /\ Run(j) \in Thread
  <2>1. pc \in [Thread -> Label] /\ Run(j) \in Thread
    BY TwoThreads, Zenon DEF IInv, TypeOK
  <2> QED BY <2>1, Zenon DEF AllocLookup, AllocStale, Draw, JobTooLarge, Launch, BelongsHere,
             Notified, CountNotified, Goto
<1>2. \/ pc[Run(j)] \in {"lookup", "swap", "draw"} /\ pc'[Run(j)] \in {"lookup", "swap"}
      \/ pc'[Run(j)] = "failed"
      \/ pc[Run(j)] \in Launched /\ pc'[Run(j)] \in Launched
  <2>1. CASE AllocLookup(j) \/ AllocStale(j) \/ \E c \in Ctrl : Draw(j, c)
    BY <2>1, <1>1, Zenon DEF AllocLookup, AllocStale, Draw, Goto
  <2>2. CASE JobTooLarge(j)
    BY <2>2, <1>1, Zenon DEF JobTooLarge, Goto
  <2>3. CASE Launch(j) \/ BelongsHere(j) \/ Notified(j) \/ CountNotified(j)
    BY <2>3, <1>1, Zenon DEF Launch, BelongsHere, Notified, CountNotified, Goto, Launched
  <2> QED BY <2>1, <2>2, <2>3, Zenon
<1>3. HeldSlots(Run(j))' \subseteq HeldSlots(Run(j))
  BY <1>2, Zenon DEF HeldSlots, Launched
<1>4. pc'[Run(j)] \in Launched => pc[Run(j)] \in Launched
  BY <1>2, Zenon DEF Launched
<1>5. HeldBy(Run(j))' \subseteq HeldBy(Run(j)) /\ SlotsOK(Run(j))'
  BY <1>1, <1>3, SlotsFewer, Zenon DEF XInv, JobOK
<1> QED BY <1>1, <1>4, <1>5, RunQuiet, Zenon

\* The start of the thread of j, and its start over, with empty lists.
LEMMA XEmpty ==
  ASSUME MaxDelivery = 1, IInv, XInv, IInv', NEW j \in Job, JobStart(j) \/ ResetJob(j)
  PROVE  XInv' /\ HandOver(j)
<1>1. /\ UNCHANGED <<res, info, idx>>
      /\ \A t \in Thread \ {Run(j)} : pc'[t] = pc[t] /\ jr'[t] = jr[t]
      /\ pc'[Run(j)] \in {"lookup", "draw"}
  <2>1. /\ pc \in [Thread -> Label] /\ jr \in [Thread -> JobResource]
        /\ Run(j) \in Thread
    BY TwoThreads, Zenon DEF IInv, TypeOK
  <2>2. CASE JobStart(j)
    BY ONLY <2>1, <2>2, Zenon DEF JobStart, Goto
  <2>3. CASE ResetJob(j)
    BY ONLY <2>1, <2>3, Zenon DEF ResetJob, Goto
  <2> QED BY <2>2, <2>3, Zenon
<1>2. /\ jr'[Run(j)] \in JobResource /\ Shape(jr'[Run(j)], min_nodes[j])
      /\ min_nodes[j] \in Nat
  BY TwoThreads, Sizes, Zenon DEF IInv, TypeOK, RunInv, RunOK
<1>3. jr'[Run(j)].num_node = 0
  <2>1. RunOK(j) /\ jr[Run(j)] \in JobResource /\ jr \in [Thread -> JobResource]
        /\ Run(j) \in Thread
    BY TwoThreads, Zenon DEF IInv, TypeOK, RunInv
  <2>2. CASE JobStart(j)
    BY <2>1, <2>2, Zenon DEF JobStart, RunOK
  <2>3. CASE ResetJob(j)
    <3>1. jr'[Run(j)] = reset_job_resource(jr[Run(j)])
      BY <2>1, <2>3, Zenon DEF ResetJob
    <3>2. reset_job_resource(jr[Run(j)]).num_node = 0
      BY <2>1, <1>2, ResetShape, Zenon DEF RunOK
    <3> QED BY <3>1, <3>2, Zenon
  <2> QED BY <2>2, <2>3, Zenon
<1>4. \A i \in Slot : jr'[Run(j)].node_alloc[i] = << >>
  BY <1>2, <1>3, EmptyShape, Zenon
<1>5. HeldSlots(Run(j))' = Slot
  BY <1>1, Zenon DEF HeldSlots
<1>6. HeldBy(Run(j))' = {} /\ SlotsOK(Run(j))'
  BY <1>4, <1>5, EmptySlotsNext, Zenon
<1> QED BY <1>1, <1>6, RunQuiet, Zenon DEF Launched

\* A try that got nothing.
LEMMA XFailedTry ==
  ASSUME MaxDelivery = 1, IInv, XInv, IInv', NEW j \in Job,
         pc[Run(j)] \in {"lookup", "swap"}, FailedTry(j)
  PROVE  XInv' /\ HandOver(j)
<1>1. /\ jr \in [Thread -> JobResource] /\ pc \in [Thread -> Label]
      /\ idx \in [Thread -> Nat] /\ Run(j) \in Thread /\ jr[Run(j)] \in JobResource
  BY TwoThreads, Zenon DEF IInv, TypeOK
<1>2. /\ UNCHANGED <<res, info>>
      /\ \A t \in Thread \ {Run(j)} : pc'[t] = pc[t] /\ jr'[t] = jr[t] /\ idx'[t] = idx[t]
      /\ pc'[Run(j)] \in {"release", "draw"} /\ idx'[Run(j)] = 0
  BY <1>1, Zenon DEF FailedTry, Goto
<1>3. jr'[Run(j)].node_alloc = jr[Run(j)].node_alloc
  BY <1>1, Zenon DEF FailedTry, JobResource
<1>4. HeldSlots(Run(j))' = Slot /\ HeldSlots(Run(j)) = Slot
  BY <1>2, Sizes DEF HeldSlots
<1>5. SlotsOK(Run(j))
  BY Zenon DEF XInv, JobOK
<1>6. HeldBy(Run(j))' = HeldBy(Run(j)) /\ SlotsOK(Run(j))'
  BY <1>3, <1>4, <1>5, Zenon DEF HeldBy, SlotsOK
<1> QED BY <1>2, <1>6, RunQuiet, Zenon DEF Launched

\* The allocation is recorded: the job has the same nodes, or some of them.
LEMMA XCreate ==
  ASSUME MaxDelivery = 1, IInv, XInv, IInv', NEW j \in Job, CreateJob(j)
  PROVE  XInv' /\ HandOver(j)
<1> DEFINE t == Run(j)
           i == jobinfo(jr[t], origin[j])
<1>1. /\ pc \in [Thread -> Label] /\ info \in [Job -> JobInfo] /\ t \in Thread
      /\ jr[t] \in JobResource
  BY TwoThreads, Zenon DEF IInv, TypeOK
<1>2. /\ UNCHANGED <<res, jr, idx>> /\ pc[t] = "draw"
      /\ \/ info' = [info EXCEPT ![j] = i] /\ pc' = [pc EXCEPT ![t] = "launch"]
         \/ UNCHANGED <<info, pc>>
  BY Zenon DEF CreateJob, Goto
<1>3. CASE UNCHANGED <<info, pc>>
  <2>1. HeldSlots(t)' \subseteq HeldSlots(t)
    BY <1>2, <1>3, Zenon DEF HeldSlots
  <2>2. HeldBy(t)' \subseteq HeldBy(t) /\ SlotsOK(t)'
    BY <2>1, <1>2, SlotsFewer, Zenon DEF XInv, JobOK
  <2> QED BY <2>2, <1>2, <1>3, RunQuiet, Zenon
<1>4. CASE info' = [info EXCEPT ![j] = i] /\ pc' = [pc EXCEPT ![t] = "launch"]
  <2>1. /\ info'[j] = i /\ pc'[t] = "launch"
        /\ \A x \in Thread \ {t} : pc'[x] = pc[x]
        /\ \A m \in Job \ {j} : info'[m] = info[m]
    BY <1>1, <1>4, Zenon
  <2>2. pc[<<j, 1>>] = "idle" /\ <<j, 1>> \in Thread \ {t}
    BY <1>2, NotLaunched, TwoThreads, Zenon DEF Launched
  <2>3. HeldSlots(t) = Slot /\ HeldSlots(t)' = {} /\ HeldSlots(<<j, 1>>)' = {}
    BY <1>2, <2>1, <2>2, Zenon DEF HeldSlots
  <2>4. \A c \in Ctrl : \/ i.alloc[c] = << >>
                        \/ \E k \in Slot : i.alloc[c] = jr[t].node_alloc[k]
    BY Zenon DEF jobinfo
  <2> HIDE DEF i
  <2>5. SlotsOK(t)
    BY Zenon DEF XInv, JobOK
  <2>6. \A c \in Ctrl : IsInjective(i.alloc[c]) /\ Range(i.alloc[c]) \subseteq HeldBy(t)
    <3>1. Range(<< >>) = {} /\ IsInjective(<< >>)
      BY DEF Range, IsInjective
    <3>2. \A k \in Slot : /\ IsInjective(jr[t].node_alloc[k])
                          /\ Range(jr[t].node_alloc[k]) \subseteq HeldBy(t)
      BY <2>3, <2>5, Zenon DEF SlotsOK, HeldBy
    <3> QED BY <2>4, <3>1, <3>2, Zenon
  <2>7. RecordOK(j)'
    BY <2>1, <2>6, Zenon DEF RecordOK
  <2>8. /\ HeldBy(t)' = {} /\ HeldBy(<<j, 1>>)' = {}
        /\ SlotsOK(t)' /\ SlotsOK(<<j, 1>>)'
    BY <2>3, EmptySlotsNext, Zenon
  <2>9. Holds(j)' \subseteq Holds(j)
    <3>1. HeldBy(t) \subseteq Holds(j)
      BY HoldsSplit, Zenon
    <3>2. Holds(j)' \subseteq (UNION {Range(i.alloc[c]) : c \in Ctrl})
                                \cup HeldBy(t)' \cup HeldBy(<<j, 1>>)'
      BY <2>1, HoldsSplitNext
    <3> QED BY <3>1, <3>2, <2>6, <2>8, Zenon
  <2>10. \A x \in Thread \ {t, <<j, 1>>} : pc'[x] = pc[x] /\ jr'[x] = jr[x] /\ idx'[x] = idx[x]
    BY <1>2, <2>1, Zenon
  <2>11. pc'[<<j, 1>>] = "idle" => idx'[<<j, 1>>] = 0
    BY <1>2, <2>2, Zenon DEF XInv, JobOK
  <2> QED BY <1>2, <2>1, <2>7, <2>8, <2>9, <2>10, <2>11, QuietStep
<1> QED BY <1>2, <1>3, <1>4, Zenon

\* The completion handler reads the record, or ends.
LEMMA XHandler ==
  ASSUME MaxDelivery = 1, IInv, XInv, IInv', NEW j \in Job, Handler(j, 1)
  PROVE  XInv' /\ HandOver(j)
<1> DEFINE t == <<j, 1>>
<1>1. /\ pc \in [Thread -> Label] /\ jr \in [Thread -> JobResource]
      /\ t \in Thread /\ Run(j) \in Thread \ {t} /\ info[j] \in JobInfo
      /\ RunOK(j) /\ JobOK(j)
  BY TwoThreads, Zenon DEF IInv, TypeOK, RunInv, XInv
<1>2. /\ UNCHANGED <<res, info, idx>>
      /\ \A x \in Thread \ {t} : pc'[x] = pc[x] /\ jr'[x] = jr[x]
  BY <1>1, Zenon DEF Handler, StepComplete, CountHere, NotifyOrigin, Goto
<1>3. /\ HeldBy(Run(j))' = HeldBy(Run(j)) /\ SlotsOK(Run(j))'
  BY <1>1, <1>2, ThreadKept, Zenon DEF JobOK
<1>4. RecordOK(j)'
  BY <1>1, <1>2, Zenon DEF JobOK, RecordOK
<1>5. /\ Holds(j) =
           (IF Recorded(j) THEN UNION {Range(info[j].alloc[c]) : c \in Ctrl} ELSE {})
             \cup HeldBy(Run(j)) \cup HeldBy(t)
      /\ Holds(j)' =
           (IF Recorded(j)' THEN UNION {Range(info[j].alloc[c]) : c \in Ctrl} ELSE {})
             \cup HeldBy(Run(j))' \cup HeldBy(t)'
  BY <1>2, HoldsSplit, HoldsSplitNext
<1>6. /\ pc'[t] # "idle" /\ SlotsOK(t)'
      /\ HeldBy(t)' \subseteq
           (IF Recorded(j) THEN UNION {Range(info[j].alloc[c]) : c \in Ctrl} ELSE {})
             \cup HeldBy(t)
  <2>1. CASE StepComplete(j, 1)
    <3>1. /\ jr'[t] = create_job_resource(info[j]) /\ pc'[t] = "release"
          /\ pc[t] = "idle" /\ dest[j] # None
      BY <2>1, <1>1, Zenon DEF StepComplete, Goto
    <3>2. pc[Run(j)] \in Launched /\ OneController(info[j])
      BY <3>1, <1>1, Zenon DEF RunOK, Launched
    <3>3. Recorded(j)
      BY <3>1, <3>2, Zenon DEF Recorded, Launched
    <3> DEFINE a == info[j].alloc[info[j].ctrls[1]]
    <3>4. /\ info[j].ctrls[1] \in Ctrl
          /\ jr'[t].node_alloc = [k \in Slot |-> IF k = 0 THEN a ELSE << >>]
      BY <3>1, <3>2, <1>1, CompletionShape, Zenon
    <3>5. IsInjective(a) /\ Range(a) \subseteq UNION {Range(info[j].alloc[c]) : c \in Ctrl}
      BY <3>2, <3>4, <1>1, Zenon DEF JobOK, RecordOK
    <3> HIDE DEF a
    <3>6. Range(<< >>) = {} /\ IsInjective(<< >>)
      BY DEF Range, IsInjective
    <3>7. \A k \in Slot : jr'[t].node_alloc[k] = IF k = 0 THEN a ELSE << >>
      BY <3>4, Zenon
    <3>8. HeldSlots(t)' \subseteq Slot
      BY <3>1, Zenon DEF HeldSlots
    <3>9. SlotsOK(t)'
      BY <3>5, <3>6, <3>7, <3>8, Zenon DEF SlotsOK
    <3>10. HeldBy(t)' \subseteq Range(a)
      BY <3>6, <3>7, <3>8, Zenon DEF HeldBy
    <3> QED BY <3>1, <3>3, <3>5, <3>9, <3>10, Zenon
  <2>2. CASE CountHere(j, 1) \/ NotifyOrigin(j, 1)
    <3>1. pc'[t] = "done"
      BY <2>2, <1>1, Zenon DEF CountHere, NotifyOrigin, Goto
    <3>2. HeldSlots(t)' = {}
      BY <3>1, Zenon DEF HeldSlots
    <3> QED BY <3>1, <3>2, EmptySlotsNext, Zenon
  <2> QED BY <2>1, <2>2, Zenon DEF Handler
<1>7. ~ Recorded(j)'
  BY <1>6, Zenon DEF Recorded
<1>8. Holds(j)' \subseteq Holds(j)
  BY ONLY <1>3, <1>5, <1>6, <1>7, Zenon
<1>9. \A x \in Thread \ {Run(j), t} : pc'[x] = pc[x] /\ jr'[x] = jr[x] /\ idx'[x] = idx[x]
  BY <1>2, Zenon
<1> QED BY <1>2, <1>3, <1>4, <1>6, <1>8, <1>9, QuietStep

\* Nodes go from the string of a controller to the thread of j.
LEMMA XSwap ==
  ASSUME MaxDelivery = 1, IInv, XInv, IInv', NEW j \in Job, AllocSwap(j)
  PROVE  XInv' /\ HandOver(j)
<1>0. PICK c \in Ctrl : c = tgt[j]
  BY Zenon DEF IInv, TypeOK
<1> DEFINE t == Run(j)
           more == min_nodes[j] - jr[t].num_node
           k == IF seen[t].num > more THEN more ELSE seen[t].num
           v == res[c]
           a == allocated(v, k)
           n == remaining(v, k).nodes
           slot == update_slot(jr[t], c)
<1>1. /\ t \in Thread /\ jr[t] \in JobResource /\ c \in Ctrl /\ jr \in [Thread -> JobResource]
      /\ pc \in [Thread -> Label] /\ res \in [Ctrl -> ResVal(Node) \cup {NoRes}]
      /\ JobOK(j) /\ <<j, 1>> \in Thread \ {t} /\ NodeExclusive /\ ResourceStringsSound
  BY TwoThreads, Zenon DEF IInv, TypeOK, XInv
<1>2. /\ v = seen[t] /\ v \in ResVal(Node) /\ Sound(v) /\ k \in Nat /\ k <= v.num
      /\ v # NoRes
  BY <1>0, SwapFacts, Sizes, Zenon
<1>3. /\ res' = [res EXCEPT ![c] = remaining(v, k)]
      /\ \/ /\ slot \in Slot /\ pc' = [pc EXCEPT ![t] = "draw"]
            /\ jr' = [jr EXCEPT ![t] = update_job_resource(jr[t], c, a, origin[j])]
         \/ UNCHANGED <<jr, pc>>
      /\ UNCHANGED <<info, idx>> /\ pc[t] = "swap"
  BY <1>0, <1>1, <1>2, Zenon DEF AllocSwap, Goto
<1> HIDE DEF k
<1>4. /\ a \in Seq(Node) /\ n \in Seq(Node)
      /\ Range(a) \subseteq Range(v.nodes) /\ Range(n) \subseteq Range(v.nodes)
      /\ Range(v.nodes) \subseteq Range(a) \cup Range(n)
      /\ IsInjective(a) /\ IsInjective(n) /\ Range(a) \cap Range(n) = {}
      /\ remaining(v, k) # NoRes
  <2>1. IsInjective(v.nodes)
    BY <1>1, <1>2, Zenon DEF NodeExclusive
  <2>2. /\ a \in Seq(Node) /\ remaining(v, k) \in ResVal(Node)
        /\ Range(a) \subseteq Range(v.nodes) /\ Range(n) \subseteq Range(v.nodes)
    BY <1>2, TakeRange, Zenon
  <2>3. IsInjective(a) /\ IsInjective(n) /\ Range(a) \cap Range(n) = {}
    BY <1>2, <2>1, TakeInjective, Zenon
  <2>4. n \in Seq(Node) /\ remaining(v, k) # NoRes
    BY <2>2, Sizes, Zenon DEF ResVal
  <2>5. Range(v.nodes) \subseteq Range(a) \cup Range(n)
    BY <1>2, TakeAll, Zenon
  <2> QED BY <2>2, <2>3, <2>4, <2>5, Zenon
<1>5. /\ res'[c].nodes = n /\ \A d \in Ctrl \ {c} : res'[d] = res[d]
      /\ res'[c] # NoRes
  BY <1>1, <1>3, <1>4, Zenon
<1>6. /\ Free(c) = Range(v.nodes) /\ Free(c)' = Range(n)
      /\ \A d \in Ctrl \ {c} : Free(d)' = Free(d)
  BY <1>2, <1>5, Zenon DEF Free
<1> HIDE DEF a, n, v, slot
<1>7. /\ \A d \in Ctrl : res[d] # NoRes => res'[d] # NoRes
      /\ \A d \in Ctrl : res'[d] # NoRes => IsInjective(res'[d].nodes)
      /\ \A d \in Ctrl : Free(d)' \subseteq Free(d) /\ Range(a) \cap Free(d)' = {}
  <2>1. ASSUME NEW d \in Ctrl, d # c PROVE Range(a) \cap Free(d)' = {}
    <3>1. Free(c) \cap Free(d) = {}
      BY <2>1, <1>1, Zenon DEF NodeExclusive
    <3> QED BY <2>1, <3>1, <1>4, <1>6, Zenon
  <2>2. Free(c)' \subseteq Free(c) /\ Range(a) \cap Free(c)' = {}
    BY <1>4, <1>6, Zenon
  <2>3. \A d \in Ctrl : Free(d)' \subseteq Free(d)
    BY <2>2, <1>6, Zenon
  <2>4. \A d \in Ctrl : res'[d] # NoRes => IsInjective(res'[d].nodes)
    BY <1>1, <1>4, <1>5, Zenon DEF NodeExclusive
  <2> QED BY <2>1, <2>2, <2>3, <2>4, <1>5, Zenon
<1>8. \A x \in Thread \ {t} : pc'[x] = pc[x] /\ jr'[x] = jr[x] /\ idx'[x] = idx[x]
  BY <1>1, <1>3, Zenon
<1>9. pc[<<j, 1>>] = "idle" /\ ~ Recorded(j)' /\ pc'[t] \in {"swap", "draw"}
      /\ HeldSlots(t) = Slot /\ HeldSlots(t)' = Slot
  <2>1. pc[<<j, 1>>] = "idle"
    BY <1>3, NotLaunched, Zenon DEF Launched
  <2>2. pc'[t] \in {"swap", "draw"}
    BY <1>1, <1>3, Zenon
  <2> QED BY <2>1, <2>2, <1>3, Zenon DEF Recorded, HeldSlots
<1>10. HeldBy(<<j, 1>>)' = HeldBy(<<j, 1>>) /\ SlotsOK(<<j, 1>>)'
  BY <1>1, <1>8, ThreadKept, Zenon DEF JobOK
<1>11. HeldBy(t) \subseteq Holds(j) /\ HeldBy(<<j, 1>>) \subseteq Holds(j)
  BY HoldsSplit, Zenon
<1>12. HeldBy(t) \cap Range(a) = {}
  <2>1. Holds(j) \cap Free(c) = {}
    BY <1>1, Zenon DEF NodeExclusive
  <2> QED BY <2>1, <1>4, <1>6, <1>11, Zenon
<1>13. SlotsOK(t)' /\ HeldBy(t)' \in {HeldBy(t), HeldBy(t) \cup Range(a)}
  <2>1. CASE UNCHANGED <<jr, pc>>
    <3>1. HeldBy(t)' = HeldBy(t)
      BY <2>1, <1>9, Zenon DEF HeldBy
    <3> QED BY <3>1, <2>1, <1>1, <1>9, SlotsFewer, Zenon DEF JobOK
  <2>2. CASE slot \in Slot
             /\ jr' = [jr EXCEPT ![t] = update_job_resource(jr[t], c, a, origin[j])]
    <3>1. jr[t].node_alloc \in [Slot -> Seq(Node)]
      BY <1>1, Zenon DEF JobResource
    <3>2. jr'[t].node_alloc = [jr[t].node_alloc EXCEPT ![slot] = jr[t].node_alloc[slot] \o a]
      <4>1. jr'[t] = update_job_resource(jr[t], c, a, origin[j])
        BY <2>2, <1>1, Zenon
      <4>2. update_job_resource(jr[t], c, a, origin[j]).node_alloc =
              [jr[t].node_alloc EXCEPT ![slot] = jr[t].node_alloc[slot] \o a]
        BY Zenon DEF update_job_resource, slot
      <4> QED BY ONLY <4>1, <4>2, Zenon
    <3>3. /\ \A m \in Slot \ {slot} : jr'[t].node_alloc[m] = jr[t].node_alloc[m]
          /\ jr'[t].node_alloc[slot] = jr[t].node_alloc[slot] \o a
      BY <3>1, <3>2, <2>2, Zenon
    <3>4. SlotsOK(t)
      BY <1>1, Zenon DEF JobOK
    <3>5. \A m \in Slot : Range(jr[t].node_alloc[m]) \subseteq HeldBy(t)
      BY <1>9, Zenon DEF HeldBy
    <3>6. jr[t].node_alloc[slot] \in Seq(Node) /\ IsInjective(jr[t].node_alloc[slot])
          /\ Range(jr[t].node_alloc[slot]) \cap Range(a) = {}
      BY <3>1, <3>4, <3>5, <2>2, <1>9, <1>12, Zenon DEF SlotsOK
    <3>7. /\ Range(jr'[t].node_alloc[slot]) = Range(jr[t].node_alloc[slot]) \cup Range(a)
          /\ IsInjective(jr'[t].node_alloc[slot])
      <4> DEFINE x == jr[t].node_alloc[slot]
      <4>1. /\ x \in Seq(Node) /\ a \in Seq(Node) /\ IsInjective(x) /\ IsInjective(a)
            /\ Range(x) \cap Range(a) = {} /\ jr'[t].node_alloc[slot] = x \o a
        BY <1>4, <3>3, <3>6, Zenon
      <4> HIDE DEF x
      <4>2. Range(x \o a) = Range(x) \cup Range(a)
        BY ONLY <4>1, RangeConcat
      <4>3. IsInjective(x \o a)
        BY ONLY <4>1, ConcatInjective, Zenon
      <4> QED BY <4>1, <4>2, <4>3, Zenon DEF x
    <3>8. \A m \in Slot : IsInjective(jr'[t].node_alloc[m])
      BY <3>3, <3>4, <3>7, <1>9, Zenon DEF SlotsOK
    <3>9. \A m \in Slot \ {slot} : Range(jr'[t].node_alloc[m])
                                     \cap Range(jr'[t].node_alloc[slot]) = {}
      <4>1. \A m \in Slot \ {slot} : Range(jr[t].node_alloc[m])
                                       \cap Range(jr[t].node_alloc[slot]) = {}
        BY <3>4, <2>2, <1>9, Zenon DEF SlotsOK
      <4> QED BY <4>1, <3>3, <3>5, <3>7, <1>12, Zenon
    <3>10. \A m, l \in Slot : m # l => Range(jr'[t].node_alloc[m])
                                         \cap Range(jr'[t].node_alloc[l]) = {}
      <4> SUFFICES ASSUME NEW m \in Slot, NEW l \in Slot, m # l
                   PROVE  Range(jr'[t].node_alloc[m]) \cap Range(jr'[t].node_alloc[l]) = {}
        BY Zenon
      <4>1. CASE m = slot \/ l = slot
        BY <4>1, <3>9, Zenon
      <4>2. CASE m # slot /\ l # slot
        BY <4>2, <3>3, <3>4, <1>9, Zenon DEF SlotsOK
      <4> QED BY <4>1, <4>2, Zenon
    <3>11. HeldBy(t)' = UNION {Range(jr'[t].node_alloc[m]) : m \in Slot}
      BY <1>9, Zenon DEF HeldBy
    <3>12. \A m \in Slot : Range(jr'[t].node_alloc[m]) \subseteq HeldBy(t) \cup Range(a)
      BY <3>3, <3>5, <3>7, <2>2, Zenon
    <3>13. HeldBy(t) \subseteq HeldBy(t)' /\ Range(a) \subseteq HeldBy(t)'
      <4>1. HeldBy(t) = UNION {Range(jr[t].node_alloc[m]) : m \in Slot}
        BY <1>9, Zenon DEF HeldBy
      <4>2. \A m \in Slot : Range(jr[t].node_alloc[m]) \subseteq Range(jr'[t].node_alloc[m])
        BY <3>3, <3>7, <2>2, Zenon
      <4> QED BY <4>1, <4>2, <3>7, <3>11, <2>2
    <3>14. HeldBy(t)' = HeldBy(t) \cup Range(a)
      BY <3>11, <3>12, <3>13, Zenon
    <3> QED BY <3>8, <3>10, <3>14, <1>9, Zenon DEF SlotsOK
  <2> QED BY <1>3, <2>1, <2>2, Zenon
<1>14. Holds(j)' \subseteq Holds(j) \cup Range(a)
  <2>1. Holds(j)' = HeldBy(t)' \cup HeldBy(<<j, 1>>)'
    BY <1>9, HoldsSplitNext, Zenon
  <2> QED BY ONLY <2>1, <1>10, <1>11, <1>13, Zenon
<1>15. JobOK(j)'
  <2>1. RecordOK(j)'
    BY <1>9, Zenon DEF RecordOK, Launched
  <2>2. Known \subseteq Known' /\ Range(a) \subseteq Known'
    <3>1. Free(c) \subseteq Range(Partition[c])
      BY <1>1, FreeDisjoint, Zenon
    <3> QED BY <3>1, <1>1, <1>4, <1>5, <1>6, <1>7 DEF Known
  <2>3. Holds(j)' \subseteq Known'
    BY <2>2, <1>1, <1>14, Zenon DEF JobOK
  <2>4. pc'[<<j, 1>>] = "idle" => idx'[<<j, 1>>] = 0
    BY <1>1, <1>8, Zenon DEF JobOK
  <2> QED BY <2>1, <2>3, <2>4, <1>10, <1>13, Zenon DEF JobOK
<1>16. /\ \A d \in Ctrl : Holds(j)' \cap Free(d)' = {}
       /\ \A m \in Job \ {j} : Holds(m) \cap Holds(j)' = {}
       /\ \A m \in Job \ {j} : \A d \in Ctrl : Holds(m) \cap Free(d)' = {}
  <2>1. \A m \in Job, d \in Ctrl : Holds(m) \cap Free(d)' = {}
    BY <1>1, <1>7 DEF NodeExclusive
  <2>2. \A d \in Ctrl : Holds(j)' \cap Free(d)' = {}
    BY <2>1, <1>7, <1>14, Zenon
  <2>3. \A m \in Job \ {j} : Holds(m) \cap Holds(j) = {} /\ Holds(m) \cap Free(c) = {}
    BY <1>1, Zenon DEF NodeExclusive
  <2>4. ASSUME NEW m \in Job \ {j}, NEW x \in Holds(m), x \in Holds(j)' PROVE FALSE
    <3>1. x \in Holds(j) \/ x \in Range(a)
      BY <2>4, <1>14, Zenon
    <3>2. Range(a) \subseteq Free(c)
      BY <1>4, <1>6, Zenon
    <3> QED BY <3>1, <3>2, <2>3, Zenon
  <2> QED BY <2>1, <2>2, <2>4, Zenon
<1>17. XInv' /\ \A m \in Job \ {j} : Holds(m)' = Holds(m)
  BY <1>3, <1>7, <1>8, <1>15, <1>16, JobStep, Zenon
<1>18. AllFree' \subseteq AllFree /\ AllFree \ AllFree' = Range(a)
  <2>1. Free(c) = Free(c)' \cup Range(a)
    BY <1>4, <1>6, Zenon
  <2>2. AllFree = AllFree' \cup Range(a)
    BY <2>1, <1>6, Zenon DEF AllFree
  <2>3. AllFree' \cap Range(a) = {}
    BY <1>7, Zenon DEF AllFree
  <2> QED BY <2>2, <2>3, Zenon
<1>19. Holds(j)' \in {Holds(j), Holds(j) \cup Range(a)}
  <2>1. Holds(j) = HeldBy(t) \cup HeldBy(<<j, 1>>)
    <3>1. ~ Recorded(j)
      BY <1>3, Zenon DEF Recorded
    <3> QED BY <3>1, HoldsSplit, Zenon
  <2>2. Holds(j)' = HeldBy(t)' \cup HeldBy(<<j, 1>>)'
    BY <1>9, HoldsSplitNext, Zenon
  <2> QED BY ONLY <2>1, <2>2, <1>10, <1>13, Zenon
<1>20. \A d \in Ctrl : res'[d] = NoRes <=> res[d] = NoRes
  BY <1>2, <1>5, <1>7, Zenon DEF v
<1> QED BY <1>17, <1>18, <1>19, <1>20, Zenon DEF HandOver

\* A thread that gives back is the only one of its job that has nodes.
LEMMA OnlyOneHolds ==
  ASSUME MaxDelivery = 1, IInv, NEW j \in Job, NEW t \in {Run(j), <<j, 1>>},
         pc[t] \in {"release", "giveback"}
  PROVE  \E o \in {Run(j), <<j, 1>>} \ {t} :
           /\ t \in Thread /\ o \in Thread /\ {t, o} = {Run(j), <<j, 1>>}
           /\ pc[o] \notin {"lookup", "swap", "draw", "release", "giveback"}
           /\ pc[<<j, 1>>] # "idle" \/ pc[Run(j)] \notin Launched
<1>1. RunOK(j) /\ HandlerOK(j, 1)
  BY DEF IInv, RunInv, HandlerInv
<1>2. CASE t = Run(j)
  <2>1. pc[<<j, 1>>] = "idle"
    BY <1>2, NotLaunched, Zenon DEF Launched
  <2> QED BY <2>1, <1>2, TwoThreads, Zenon DEF Launched
<1>3. CASE t = <<j, 1>>
  <2>1. dest[j] # None
    BY <1>1, <1>3, Zenon DEF HandlerOK
  <2>2. pc[Run(j)] \in Launched
    BY <2>1, <1>1, Zenon DEF RunOK, Launched
  <2> QED BY <2>2, <1>3, TwoThreads DEF Launched
<1> QED BY <1>2, <1>3, Zenon

\* Nodes go from a thread to the string of their controller.
LEMMA XRelease ==
  ASSUME MaxDelivery = 1, IInv, XInv, IInv', NEW t \in Thread, Release(t)
  PROVE  XInv' /\ \E j \in Job : HandOver(j)
<1>1. PICK j \in Job : t \in {Run(j), <<j, 1>>}
  BY TwoThreads, Zenon
<1>2. /\ pc \in [Thread -> Label] /\ res \in [Ctrl -> ResVal(Node) \cup {NoRes}]
      /\ idx \in [Thread -> Nat] /\ JobOK(j) /\ NodeExclusive /\ ResourceStringsSound
  BY Zenon DEF IInv, TypeOK, XInv
<1>3. /\ UNCHANGED <<info, jr>>
      /\ \A x \in Thread \ {t} : pc'[x] = pc[x] /\ idx'[x] = idx[x]
      /\ pc[t] \in {"release", "giveback"} /\ pc'[t] \in {"release", "giveback"}
  BY <1>2, Zenon DEF Release, ReleaseLookup, ReleaseSwap, ReleaseStale, Releasing, Goto
<1>4. PICK o \in {Run(j), <<j, 1>>} \ {t} :
           /\ t \in Thread /\ o \in Thread /\ {t, o} = {Run(j), <<j, 1>>}
           /\ pc[o] \notin {"lookup", "swap", "draw", "release", "giveback"}
           /\ pc[<<j, 1>>] # "idle" \/ pc[Run(j)] \notin Launched
  BY <1>1, <1>3, OnlyOneHolds, Zenon
<1>5. /\ HeldSlots(o) = {} /\ HeldSlots(o)' = {}
      /\ HeldBy(o) = {} /\ HeldBy(o)' = {} /\ SlotsOK(o)'
  <2>1. pc'[o] = pc[o]
    BY <1>3, <1>4, Zenon
  <2>2. HeldSlots(o) = {} /\ HeldSlots(o)' = {}
    BY <2>1, <1>4, Zenon DEF HeldSlots
  <2> QED BY <2>2, NoSlots, EmptySlotsNext, Zenon
<1>6. ~ Recorded(j) /\ ~ Recorded(j)' /\ RecordOK(j)'
  <2>1. /\ pc'[<<j, 1>>] = "idle" => pc[<<j, 1>>] = "idle"
        /\ pc'[Run(j)] \in Launched => pc[Run(j)] \in Launched
    BY <1>3, <1>4 DEF Launched
  <2>2. ~ Recorded(j) /\ ~ Recorded(j)'
    BY <2>1, <1>4, Zenon DEF Recorded, Launched
  <2>3. RecordOK(j)'
    BY <2>1, <1>2, <1>3, Zenon DEF RecordOK, JobOK
  <2> QED BY <2>2, <2>3, Zenon
<1>7. Holds(j) = HeldBy(t) /\ Holds(j)' = HeldBy(t)'
  <2>1. Holds(j) = HeldBy(Run(j)) \cup HeldBy(<<j, 1>>)
    BY <1>6, HoldsSplit, Zenon
  <2>2. Holds(j)' = HeldBy(Run(j))' \cup HeldBy(<<j, 1>>)'
    BY <1>6, HoldsSplitNext, Zenon
  <2> QED BY <1>1, <1>4, <1>5, <2>1, <2>2, Zenon
<1>8. \A x \in Thread \ {Run(j), <<j, 1>>} : pc'[x] = pc[x] /\ jr'[x] = jr[x] /\ idx'[x] = idx[x]
  BY <1>1, <1>3, Zenon
<1>9. pc'[<<j, 1>>] = "idle" => idx'[<<j, 1>>] = 0
  <2>1. CASE t = <<j, 1>>
    BY <2>1, <1>3, Zenon
  <2>2. CASE o = <<j, 1>>
    BY <2>2, <1>2, <1>3, <1>4, Zenon DEF JobOK
  <2> QED BY <2>1, <2>2, <1>4, Zenon
<1>10. SlotsOK(t)
  BY <1>1, <1>2, Zenon DEF JobOK
<1>11. CASE ReleaseLookup(t) \/ ReleaseStale(t)
  <2>1. res' = res /\ idx' = idx
    BY <1>11, Zenon DEF ReleaseLookup, ReleaseStale
  <2>2. HeldSlots(t)' \subseteq HeldSlots(t)
    BY <2>1, <1>3, Zenon DEF HeldSlots
  <2>3. HeldBy(t)' \subseteq HeldBy(t) /\ SlotsOK(t)'
    BY <2>2, <1>3, <1>10, SlotsFewer, Zenon
  <2>4. SlotsOK(Run(j))' /\ SlotsOK(<<j, 1>>)'
    BY <2>3, <1>4, <1>5, Zenon
  <2>5. Holds(j)' \subseteq Holds(j)
    BY <2>3, <1>7, Zenon
  <2>6. XInv' /\ HandOver(j)
    BY <2>1, <2>4, <2>5, <1>3, <1>6, <1>8, <1>9, QuietStep, Zenon
  <2> QED BY <2>6, Zenon
<1>12. CASE ReleaseSwap(t)
  <2>1. pc[t] = "giveback"
    BY <1>12, Zenon DEF ReleaseSwap
  <2>2. PICK i \in Slot : i = idx[t]
    BY <2>1, GiveFacts, Zenon
  <2>3. PICK key \in Ctrl : key = jr[t].ctrl_ids_2[i]
    BY <2>1, <2>2, GiveFacts, Zenon
  <2> DEFINE part == jr[t].node_alloc[i]
             old == res[key].nodes
  <2>4. /\ res[key] \in ResVal(Node) /\ part \in Seq(Node)
        /\ Range(part) \subseteq Range(Partition[key])
    BY <2>1, <2>2, <2>3, GiveFacts, Zenon
  <2>5. /\ res[key] = seen[t] /\ idx' = [idx EXCEPT ![t] = i + 1]
        /\ res' = [res EXCEPT ![key] = merge_res_str(res[key], part)]
        /\ pc'[t] = "release"
    BY <2>2, <2>3, <1>2, <1>12, Zenon DEF ReleaseSwap, compare_swap, Goto
  <2>6. /\ merge_res_str(res[key], part).nodes = old \o part
        /\ merge_res_str(res[key], part) \in ResVal(Node)
    BY <2>4, MergeAppends, ZenonT(40)
  <2>7. /\ res'[key].nodes = old \o part /\ res'[key] # NoRes /\ res[key] # NoRes
        /\ \A d \in Ctrl \ {key} : res'[d] = res[d]
    BY <2>4, <2>5, <2>6, <1>2, Sizes, Zenon
  <2>8. old \in Seq(Node)
    BY <2>4, Zenon DEF ResVal
  <2>9. idx'[t] = i + 1 /\ i \in Nat
    <3>1. idx'[t] = i + 1
      BY <2>5, <1>2, Zenon
    <3>2. i \in Nat
      BY <2>2, Sizes, Zenon
    <3> QED BY ONLY <3>1, <3>2, Zenon
  <2>10. i \in HeldSlots(t) /\ HeldSlots(t)' = HeldSlots(t) \ {i}
    <3>1. /\ HeldSlots(t) = {m \in Slot : m >= i}
          /\ HeldSlots(t)' = {m \in Slot : m >= i + 1}
      BY <2>1, <2>2, <2>5, <2>9, Zenon DEF HeldSlots
    <3>2. i >= i /\ \A m \in Slot : m >= i + 1 <=> m >= i /\ m # i
      BY <2>9, Sizes
    <3> QED BY <3>1, <3>2, Zenon
  <2> HIDE DEF part, old
  <2>11. IsInjective(part) /\ Range(part) \subseteq HeldBy(t)
    BY <2>10, <1>10, Zenon DEF SlotsOK, HeldBy, part
  <2>12. HeldBy(t)' \subseteq HeldBy(t) /\ SlotsOK(t)'
    BY <2>10, <1>3, <1>10, SlotsFewer, Zenon
  <2>13. HeldBy(t)' \cap Range(part) = {}
    <3>1. HeldBy(t)' = UNION {Range(jr[t].node_alloc[m]) : m \in HeldSlots(t)'}
      BY <1>3, Zenon DEF HeldBy
    <3>2. \A m \in HeldSlots(t)' : Range(jr[t].node_alloc[m]) \cap Range(part) = {}
      BY <2>10, <1>10, Zenon DEF SlotsOK, part
    <3> QED BY <3>1, <3>2, Zenon
  <2>14. /\ Free(key)' = Free(key) \cup Range(part)
         /\ \A d \in Ctrl \ {key} : Free(d)' = Free(d)
         /\ Free(key) = Range(old)
    <3>1. Range(old \o part) = Range(old) \cup Range(part)
      BY <2>4, <2>8, RangeConcat
    <3> QED BY <3>1, <2>7, Zenon DEF Free, old
  <2>15. IsInjective(old \o part)
    <3>1. IsInjective(old)
      BY <2>7, <1>2, Zenon DEF NodeExclusive, old
    <3>2. Range(old) \cap Range(part) = {}
      BY <2>11, <2>14, <1>2, <1>7 DEF NodeExclusive
    <3> QED BY <3>1, <3>2, <2>4, <2>8, <2>11, ConcatInjective, Zenon
  <2>16. /\ \A d \in Ctrl : res[d] # NoRes => res'[d] # NoRes
         /\ \A d \in Ctrl : res'[d] # NoRes => IsInjective(res'[d].nodes)
    BY <2>7, <2>15, <1>2, Zenon DEF NodeExclusive
  <2>17. JobOK(j)'
    <3>1. SlotsOK(Run(j))' /\ SlotsOK(<<j, 1>>)'
      BY <2>12, <1>4, <1>5, Zenon
    <3>2. Known \subseteq Known'
      BY <2>16, Zenon DEF Known
    <3>3. Holds(j)' \subseteq Known'
      BY <3>2, <2>12, <1>2, <1>7, Zenon DEF JobOK
    <3> QED BY <3>1, <3>3, <1>6, <1>9, Zenon DEF JobOK
  <2>18. \A d \in Ctrl : Free(d)' \subseteq Free(d) \cup Range(part)
    BY <2>14, Zenon
  <2>19. \A d \in Ctrl : Holds(j)' \cap Free(d)' = {}
    <3>1. \A d \in Ctrl : Holds(j) \cap Free(d) = {}
      BY <1>2, Zenon DEF NodeExclusive
    <3> QED BY <3>1, <2>12, <2>13, <2>18, <1>7
  <2>20. \A m \in Job \ {j} : Holds(m) \cap Holds(j) = {}
    BY <1>2, Zenon DEF NodeExclusive
  <2>21. \A m \in Job \ {j} : Holds(m) \cap Holds(j)' = {}
    BY <2>12, <2>20, <1>7, Zenon
  <2>22. \A m \in Job \ {j} : \A d \in Ctrl : Holds(m) \cap Free(d)' = {}
    <3>1. \A m \in Job, d \in Ctrl : Holds(m) \cap Free(d) = {}
      BY <1>2, Zenon DEF NodeExclusive
    <3> QED BY <3>1, <2>11, <2>18, <2>20, <1>7
  <2>23. XInv' /\ \A m \in Job \ {j} : Holds(m)' = Holds(m)
    BY <2>16, <2>17, <2>19, <2>21, <2>22, <1>3, <1>8, JobStep, Zenon
  <2>24. AllFree' = AllFree \cup Range(part)
    BY <2>14, Zenon DEF AllFree
  <2>25. AllFree \cap Range(part) = {}
    <3>1. \A d \in Ctrl : Holds(j) \cap Free(d) = {}
      BY <1>2, Zenon DEF NodeExclusive
    <3> QED BY <3>1, <2>11, <1>7 DEF AllFree
  <2>26. Holds(j) = Holds(j)' \cup Range(part)
    <3>1. HeldBy(t)' = UNION {Range(jr[t].node_alloc[m]) : m \in HeldSlots(t)'}
      BY <1>3, Zenon DEF HeldBy
    <3>2. \A m \in HeldSlots(t) : m = i \/ m \in HeldSlots(t)'
      BY <2>10, Zenon
    <3> QED BY <3>1, <3>2, <2>11, <2>12, <1>7, Zenon DEF HeldBy, part
  <2>27. \A d \in Ctrl : res'[d] = NoRes <=> res[d] = NoRes
    BY <2>7, Zenon
  <2>28. AllFree \subseteq AllFree' /\ AllFree' \ AllFree = Range(part)
    BY <2>24, <2>25, Zenon
  <2>29. HandOver(j)
    BY <2>23, <2>26, <2>27, <2>28, Zenon DEF HandOver
  <2> QED BY <2>23, <2>29, Zenon
<1> QED BY <1>11, <1>12, Zenon DEF Release

\* What a step does to the nodes: a partition comes up, a job takes, gives back
\* or loses nodes, or nothing happens.
PoolStep ==
  \/ \E c \in Ctrl : ComesUp(c)
  \/ \E j \in Job : HandOver(j)
  \/ res' = res /\ \A m \in Job : Holds(m)' = Holds(m)

\* Every step of every thread keeps the nodes exclusive.
LEMMA XNext ==
  ASSUME MaxDelivery = 1, IInv, XInv, IInv', [Next]_vars PROVE XInv' /\ PoolStep
<1>1. ASSUME NEW c \in Ctrl, Register(c) PROVE XInv' /\ ComesUp(c)
  BY <1>1, XRegister, Zenon
<1>2. ASSUME NEW j \in Job, JobThread(j) PROVE XInv' /\ HandOver(j)
  <2>1. CASE \/ AllocLookup(j) \/ AllocStale(j) \/ JobTooLarge(j) \/ Launch(j)
             \/ BelongsHere(j) \/ Notified(j) \/ CountNotified(j)
    BY <2>1, XKeep, Zenon
  <2>2. CASE JobStart(j) \/ ResetJob(j)
    BY <2>2, XEmpty, Zenon
  <2>3. CASE AllocNotRegistered(j) \/ AllocEmpty(j)
    BY <2>3, XFailedTry, Zenon DEF AllocNotRegistered, AllocEmpty
  <2>4. CASE AllocSwap(j)
    BY <2>4, XSwap, Zenon
  <2>5. CASE CreateJob(j)
    BY <2>5, XCreate, Zenon
  <2> QED BY <1>2, <2>1, <2>2, <2>3, <2>4, <2>5, Zenon DEF JobThread, Allocate
<1>3. ASSUME NEW j \in Job, NEW c \in Ctrl, Draw(j, c) PROVE XInv' /\ HandOver(j)
  BY <1>3, XKeep, Zenon
<1>4. ASSUME NEW j \in Job, NEW k \in 1 .. MaxDelivery, Handler(j, k) PROVE XInv' /\ HandOver(j)
  <2>1. k = 1
    OBVIOUS
  <2> QED BY <1>4, <2>1, XHandler, Zenon
<1>5. ASSUME NEW t \in Thread, Release(t) PROVE XInv' /\ \E j \in Job : HandOver(j)
  BY <1>5, XRelease, Zenon
<1>6. ASSUME UNCHANGED vars PROVE XInv' /\ res' = res /\ \A m \in Job : Holds(m)' = Holds(m)
  <2>1. /\ UNCHANGED <<res, info, pc, jr, idx>> /\ Known' = Known
    BY <1>6, Zenon DEF vars, Known
  <2>2. \A m \in Job : Holds(m)' = Holds(m) /\ JobOK(m)'
    BY <2>1, JobKept, Zenon DEF XInv
  <2>3. \A c \in Ctrl : Free(c)' = Free(c)
    BY <2>1, Zenon DEF Free
  <2>4. NodeExclusive'
    BY <2>1, <2>2, <2>3, Zenon DEF NodeExclusive, XInv
  <2> QED BY <2>1, <2>2, <2>4, Zenon DEF XInv
<1> QED BY <1>1, <1>2, <1>3, <1>4, <1>5, <1>6, Zenon DEF Next, PoolStep
=============================================================================
