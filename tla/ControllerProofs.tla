-------------------------- MODULE ControllerProofs --------------------------
(***************************************************************************)
(* Proofs about three parts of a SLURM++ controller: how its partition     *)
(* comes up (module Registration), how messages are taken (ConnService),   *)
(* for any number of slurmds, tries, clients and descriptors, and how the  *)
(* lines of a workload are run (Dispatcher), for every workload and every  *)
(* bound on the number of threads.                                         *)
(***************************************************************************)
EXTENDS Registration, ConnService, Dispatcher, FiniteSetTheorems,
        WellFoundedInduction, TLAPS

(***************************************************************************)
(* A nonempty set of naturals has a least element.                         *)
(***************************************************************************)
LEMMA LeastOf ==
  ASSUME NEW S \in SUBSET Nat, S # {}
  PROVE  \E i \in S : \A k \in S : i <= k
<1>1. PICK i \in S : \A k \in S : ~ (<<k, i>> \in OpToRel(<, Nat))
  BY NatLessThanWellFounded, WFMin, Zenon
<1>2. ASSUME NEW k \in S PROVE i <= k
  <2> SUFFICES ASSUME k < i PROVE FALSE
    BY S \in SUBSET Nat
  <2>1. <<k, i>> \in OpToRel(<, Nat)
    BY Zenon DEF OpToRel
  <2> QED
    BY <1>1, <2>1, Zenon
<1> QED
  BY <1>2, Zenon

-----------------------------------------------------------------------------
(* The connection service *)

\* The threads that have received a message and not yet handled it.
HasRequest(c) == service[c] \in {"request", "handle"}

ConnTypeInv ==
    /\ backlog \subseteq Client /\ unread \subseteq Client
    /\ accepted \in [fd : Fd \cup {none}, from : Client \cup {nobody}]
    /\ accepted.fd = none <=> accepted.from = nobody
    /\ newsockfd \in Fd \cup {none}
    /\ sock \in [Fd -> Client \cup {nobody}]
    /\ service \in [Client -> {"none", "start", "receive", "request", "handle", "close", "done"}]
    /\ msg \in [Client -> [conn_fd : Fd \cup {none}, from : Client \cup {nobody}]]
    /\ handled \in [Client -> Nat]
    /\ \A c \in Client : HasRequest(c) => msg[c].from \in Client

\* Only a client that has connected has a message to be read, received or
\* handled.
OnlyConnected ==
    /\ \A d \in unread : Connected(d)
    /\ \A c \in Client : HasRequest(c) => Connected(msg[c].from)
    /\ \A d \in Client : handled[d] > 0 => Connected(d)

\* A message is still to be read, or with one thread, or handled: the three
\* exclude each other.
OnePlace ==
    /\ \A c \in Client : HasRequest(c) =>
           msg[c].from \notin unread /\ handled[msg[c].from] = 0
    /\ \A b, c \in Client : HasRequest(b) /\ HasRequest(c) /\ msg[b].from = msg[c].from => b = c
    /\ \A d \in unread : handled[d] = 0

ConnIInv == ConnTypeInv /\ OnlyConnected /\ OnePlace /\ HandledOnce

(***************************************************************************)
(* A client that has connected stays so: it goes from the backlog through  *)
(* accept to a thread of its own.                                          *)
(***************************************************************************)
LEMMA ConnectedStays ==
  ASSUME ConnTypeInv, [ConnNext]_connVars, NEW d \in Client, Connected(d)
  PROVE  Connected(d)'
<1> USE DEF ConnTypeInv, Connected
<1>1. CASE Accept
  BY <1>1, ConnServiceAssumption DEF Accept, threads
<1>2. CASE Spawn
  BY <1>2, ConnServiceAssumption, Zenon DEF Spawn
<1>3. ASSUME NEW c \in Client, Connect(c) PROVE Connected(d)'
  BY <1>3, Zenon DEF Connect, threads
<1>4. ASSUME NEW c \in Client, ServiceThread(c) PROVE Connected(d)'
  <2>1. \E l \in {"receive", "request", "handle", "close", "done"} : service' = [service EXCEPT ![c] = l]
    BY <1>4, Zenon DEF ServiceThread, ReadFd, Receive, ReceiveFails, Reply, Handle, Close, Goto
  <2>2. UNCHANGED <<backlog, accepted>>
    BY <1>4, Zenon DEF ServiceThread, ReadFd, Receive, ReceiveFails, Reply, Handle, Close, conns
  <2> QED
    BY <2>1, <2>2, Zenon
<1>5. CASE UNCHANGED connVars
  BY <1>5, Zenon DEF connVars, conns, threads
<1> QED
  BY <1>1, <1>2, <1>3, <1>4, <1>5, Zenon DEF ConnNext

\* Every step of the service keeps the types.
LEMMA ConnTypeStep == ConnTypeInv /\ [ConnNext]_connVars => ConnTypeInv'
<1> SUFFICES ASSUME ConnTypeInv, [ConnNext]_connVars PROVE ConnTypeInv'
  BY Zenon
<1> USE DEF ConnTypeInv, HasRequest
<1>1. CASE Accept
  <2> DEFINE free == {f \in Fd : sock[f] = nobody}
             fd == Min(free)
  <2>1. fd \in Fd /\ fd # none
    <3>1. free # {}
      BY <1>1, Zenon DEF Accept
    <3>2. free \in SUBSET Nat
      BY ConnServiceAssumption DEF Fd
    <3>3. \E m \in free : \A f \in free : m <= f
      BY <3>1, <3>2, LeastOf, Zenon
    <3>4. fd \in free
      BY <3>3, Zenon DEF Min
    <3> QED
      BY <3>4 DEF Fd, none
  <2>2. PICK c \in backlog : /\ backlog' = backlog \ {c}
                             /\ accepted' = [fd |-> fd, from |-> c]
                             /\ sock' = [sock EXCEPT ![fd] = c]
    BY <1>1, Zenon DEF Accept
  <2>3. UNCHANGED <<newsockfd, unread, service, msg, handled>>
    BY <1>1, Zenon DEF Accept, threads
  <2> HIDE DEF fd
  <2> QED
    BY <2>1, <2>2, <2>3, ConnServiceAssumption, Zenon
<1>2. CASE Spawn
  BY <1>2, Zenon DEF Spawn
<1>3. ASSUME NEW c \in Client, Connect(c) PROVE ConnTypeInv'
  BY <1>3, Zenon DEF Connect, threads
<1>4. ASSUME NEW c \in Client, ServiceThread(c) PROVE ConnTypeInv'
  <2> USE DEF Goto, conns
  <2>1. CASE ReadFd(c)
    BY <2>1 DEF ReadFd
  <2>2. CASE Receive(c)
    BY <2>2 DEF Receive
  <2>3. CASE ReceiveFails(c)
    BY <2>3, Zenon DEF ReceiveFails
  <2>4. CASE Reply(c)
    BY <2>4, Zenon DEF Reply
  <2>5. CASE Handle(c)
    BY <2>5 DEF Handle
  <2>6. CASE Close(c)
    BY <2>6, Zenon DEF Close
  <2> QED
    BY <1>4, <2>1, <2>2, <2>3, <2>4, <2>5, <2>6, Zenon DEF ServiceThread
<1>5. CASE UNCHANGED connVars
  BY <1>5, Zenon DEF connVars, conns, threads
<1> QED
  BY <1>1, <1>2, <1>3, <1>4, <1>5, Zenon DEF ConnNext

(***************************************************************************)
(* Every step leaves each message in one place.                            *)
(***************************************************************************)
LEMMA ConnStep == ConnIInv /\ [ConnNext]_connVars => ConnIInv'
<1> SUFFICES ASSUME ConnIInv, [ConnNext]_connVars PROVE ConnIInv'
  BY Zenon
<1>1. ConnTypeInv /\ ConnTypeInv'
  BY ConnTypeStep, Zenon DEF ConnIInv
<1>2. \A d \in Client : Connected(d) => Connected(d)'
  BY <1>1, ConnectedStays, Zenon
<1>3. SUFFICES OnlyConnected' /\ OnePlace' /\ HandledOnce'
  BY <1>1, Zenon DEF ConnIInv
<1> USE <1>1, <1>2 DEF ConnTypeInv, OnlyConnected, OnePlace, HandledOnce, HasRequest
<1>4. CASE UNCHANGED <<unread, handled, msg>> /\ \A c \in Client : HasRequest(c)' => HasRequest(c)
  BY <1>4, Zenon DEF ConnIInv
<1>5. CASE Accept
  BY <1>4, <1>5, Zenon DEF Accept, threads
<1>6. CASE Spawn
  BY <1>4, <1>6, Zenon DEF Spawn
<1>7. ASSUME NEW c \in Client, Connect(c) PROVE OnlyConnected' /\ OnePlace' /\ HandledOnce'
  <2>1. Connected(c)' /\ ~Connected(c)
    BY <1>7, Zenon DEF Connect, Connected
  <2>2. handled[c] = 0 /\ \A b \in Client : HasRequest(b) => msg[b].from # c
    BY <2>1 DEF ConnIInv
  <2>3. unread' = unread \cup {c} /\ UNCHANGED <<service, msg, handled>>
    BY <1>7, Zenon DEF Connect, threads
  <2> QED
    BY <2>1, <2>2, <2>3, Zenon DEF ConnIInv
<1>8. ASSUME NEW c \in Client, ServiceThread(c) PROVE OnlyConnected' /\ OnePlace' /\ HandledOnce'
  <2> USE DEF Goto, conns
  <2>1. CASE ReadFd(c)
    <3>1. \A b \in Client : HasRequest(b)' <=> HasRequest(b)
      BY <2>1 DEF ReadFd
    <3>2. \A b \in Client : msg'[b].from = msg[b].from
      BY <2>1 DEF ReadFd
    <3>3. UNCHANGED <<unread, handled>>
      BY <2>1, Zenon DEF ReadFd
    <3> QED
      BY <3>1, <3>2, <3>3, Zenon DEF ConnIInv
  <2>2. CASE Receive(c)
    <3> DEFINE d == sock[msg[c].conn_fd]
    <3>1. d \in unread /\ unread' = unread \ {d} /\ UNCHANGED handled /\ ~HasRequest(c)
      BY <2>2, Zenon DEF Receive
    <3>2. msg'[c].from = d /\ \A b \in Client \ {c} : msg'[b] = msg[b]
      BY <2>2 DEF Receive
    <3>3. \A b \in Client \ {c} : HasRequest(b)' <=> HasRequest(b)
      BY <2>2 DEF Receive
    <3> HIDE DEF d
    <3> QED
      BY <3>1, <3>2, <3>3, Zenon DEF ConnIInv
  <2>3. CASE ReceiveFails(c)
    BY <1>4, <2>3, Zenon DEF ReceiveFails
  <2>4. CASE Reply(c)
    BY <1>4, <2>4, Zenon DEF Reply
  <2>5. CASE Handle(c)
    <3> DEFINE d == msg[c].from
    <3>1. d \in Client /\ HasRequest(c) /\ ~HasRequest(c)'
      BY <2>5, Zenon DEF Handle
    <3>2. handled' = [handled EXCEPT ![d] = @ + 1] /\ UNCHANGED <<msg, unread>>
      BY <2>5, Zenon DEF Handle
    <3>3. \A b \in Client \ {c} : HasRequest(b)' <=> HasRequest(b)
      BY <2>5, Zenon DEF Handle
    <3>4. handled[d] = 0 /\ d \notin unread /\ Connected(d)
          /\ \A b \in Client \ {c} : HasRequest(b) => msg[b].from # d
      BY <3>1, Zenon DEF ConnIInv
    <3> HIDE DEF d
    <3> QED
      BY <3>1, <3>2, <3>3, <3>4 DEF ConnIInv
  <2>6. CASE Close(c)
    BY <1>4, <2>6, Zenon DEF Close
  <2> QED
    BY <1>8, <2>1, <2>2, <2>3, <2>4, <2>5, <2>6, Zenon DEF ServiceThread
<1>9. CASE UNCHANGED connVars
  BY <1>4, <1>9, Zenon DEF connVars, conns, threads
<1> QED
  BY <1>5, <1>6, <1>7, <1>8, <1>9, Zenon DEF ConnNext

(***************************************************************************)
(* However the threads of _service_connection share conn_arg, a message is *)
(* handled at most once.                                                   *)
(***************************************************************************)
THEOREM MessagesHandledOnce == ConnSpec => []HandledOnce
<1>1. ConnInit => ConnIInv
  BY ConnServiceAssumption
  DEF ConnInit, ConnIInv, ConnTypeInv, OnlyConnected, OnePlace, HandledOnce, HasRequest, Fd, none
<1>2. ConnIInv => HandledOnce
  BY Zenon DEF ConnIInv
<1> QED
  BY <1>1, <1>2, ConnStep, PTL DEF ConnSpec

-----------------------------------------------------------------------------
(* The registration of the partition *)

\* A registration, on its way or being handled, that a slurmd has sent.
IsSent(m) == m \in partition \X Nat /\ tries[m[1]] > 0

RegTypeInv ==
    /\ partition \in SUBSET Node /\ partition # {}
    /\ tries \in [partition -> Nat]
    /\ \A m \in net \cup handlers : IsSent(m)
    /\ source \in [0 .. part_size -> Node \cup {NoStr}]
    /\ num_regist_recv \in Nat
    /\ freed \in BOOLEAN /\ ready \in BOOLEAN

\* No node is recorded yet.
NothingRecorded ==
    /\ \A i \in 0 .. part_size : source[i] = NoStr
    /\ resource = [num |-> part_size, nodes |-> << >>]
    /\ ~freed /\ ~ready /\ zht = NoRes

\* One node is recorded, and no other will be: find_exist stops at the empty
\* entry behind it, or the partition is complete and the arrays are freed.
OneRecorded ==
    /\ source[0] \in partition /\ tries[source[0]] > 0
    /\ resource = [num |-> part_size, nodes |-> <<source[0]>>]
    /\ part_size = 1 => zht \in ResVal(Node) /\ zht.num = Len(zht.nodes) /\ freed
    /\ part_size > 1 => /\ num_regist_recv = 1 /\ ~freed /\ ~ready /\ zht = NoRes
                        /\ \A i \in 1 .. part_size : source[i] = NoStr

RegIInv ==
    /\ RegTypeInv
    /\ num_regist_recv = 0 => NothingRecorded
    /\ num_regist_recv > 0 => OneRecorded

\* A partition has at least one node, and finitely many.
LEMMA PartSize == RegTypeInv => part_size \in Nat \ {0}
<1> SUFFICES ASSUME RegTypeInv PROVE part_size \in Nat \ {0}
  BY Zenon
<1>1. IsFiniteSet(partition) /\ partition # {}
  BY FS_Subset, RegistrationAssumption, Zenon DEF RegTypeInv
<1> QED
  BY <1>1, FS_CardinalityType, FS_EmptySet, Zenon DEF part_size

(***************************************************************************)
(* What find_exist answers _regist_msg_proc: with nothing recorded that    *)
(* the node is new, and with one node recorded of several that it is known,*)
(* whichever it is.                                                        *)
(***************************************************************************)
LEMMA FindExistHere ==
  ASSUME RegTypeInv, NEW n \in Node
  PROVE  /\ source[0] = NoStr => find_exist(source, n, part_size) = -1
         /\ source[0] # NoStr /\ part_size > 1 /\ source[1] = NoStr
                => find_exist(source, n, part_size) \in Nat
<1> DEFINE stops == {i \in 0 .. part_size - 1 : source[i] \in {n, NoStr}}
<1>1. part_size \in Nat \ {0}
  BY PartSize, Zenon
<1>2. stops \in SUBSET Nat
  BY <1>1
<1>3. ASSUME source[0] # NoStr, part_size > 1, source[1] = NoStr
      PROVE  find_exist(source, n, part_size) \in Nat
  <2>1. stops # {}
    BY <1>1, <1>3
  <2>2. \E i \in stops : \A k \in stops : i <= k
    BY <1>2, <2>1, LeastOf, Zenon
  <2>3. (CHOOSE i \in stops : \A k \in stops : i <= k) \in Nat
    BY <1>2, <2>2, Zenon
  <2>4. find_exist(source, n, part_size) = CHOOSE i \in stops : \A k \in stops : i <= k
    BY <1>3, <2>1, Zenon DEF find_exist
  <2> QED
    BY <2>3, <2>4, Zenon
<1>4. source[0] = NoStr => find_exist(source, n, part_size) = -1
  BY Zenon DEF find_exist
<1> QED
  BY <1>3, <1>4, Zenon

(***************************************************************************)
(* A job that takes the first idle node leaves a sound string with fewer   *)
(* nodes.                                                                  *)
(***************************************************************************)
LEMMA TakeOne ==
  ASSUME NEW v \in ResVal(Node), v.num = Len(v.nodes), v.num > 0
  PROVE  /\ remaining(v, 1) \in ResVal(Node)
         /\ remaining(v, 1).num = Len(remaining(v, 1).nodes)
         /\ Range(remaining(v, 1).nodes) \subseteq Range(v.nodes)
<1> DEFINE rest == SubSeq(v.nodes, 2, v.num)
<1>1. v.nodes \in Seq(Node) /\ v.num \in Nat
  BY Zenon DEF ResVal
<1>2. rest \in Seq(Node) /\ Len(rest) = v.num - 1
  BY <1>1
<1>3. \A i \in 1 .. Len(rest) : rest[i] = v.nodes[i + 1]
  BY <1>1, <1>2
<1>4. Range(rest) \subseteq Range(v.nodes)
  BY <1>1, <1>2, <1>3 DEF Range
<1>5. remaining(v, 1) = [num |-> v.num - 1, nodes |-> rest]
  BY DEF remaining
<1> HIDE DEF rest
<1> QED
  BY <1>1, <1>2, <1>4, <1>5 DEF ResVal

\* Every step of a registration keeps the invariant.
LEMMA RegStep == RegIInv /\ [RegNext]_regVars => RegIInv'
<1> SUFFICES ASSUME RegIInv, [RegNext]_regVars PROVE RegIInv'
  BY Zenon
<1> USE DEF RegIInv
<1>1. part_size \in Nat \ {0}
  BY PartSize, Zenon
<1>2. UNCHANGED partition /\ UNCHANGED part_size
  BY Zenon DEF RegNext, Slurmd, Send, Timeout, Lose, Answer, Record, RecordAfterFree, JobTakes,
         ctrlVars, regVars, part_size
\* What the slurmds and the network do.
<1>3. ASSUME UNCHANGED ctrlVars, \A m \in net' \cup handlers' : IsSent(m)',
             tries' \in [partition -> Nat], \A n \in partition : tries'[n] >= tries[n]
      PROVE  RegIInv'
  BY <1>1, <1>2, <1>3 DEF RegTypeInv, NothingRecorded, OneRecorded, ctrlVars
<1>4. ASSUME UNCHANGED ctrlVars, UNCHANGED tries,
             net' \cup handlers' \subseteq net \cup handlers
      PROVE  RegIInv'
  BY <1>2, <1>3, <1>4 DEF RegTypeInv, IsSent
<1>5. ASSUME NEW n \in Node, Send(n) PROVE RegIInv'
  <2>1. \A p \in partition : tries'[p] >= tries[p]
    BY <1>5 DEF Send, RegTypeInv
  <2>2. tries' \in [partition -> Nat]
    BY <1>5 DEF Send, RegTypeInv
  <2>3. \A m \in net' \cup handlers' : IsSent(m)'
    BY <1>2, <1>5, <2>1, <2>2 DEF Send, RegTypeInv, IsSent
  <2> QED
    BY <1>3, <1>5, <2>1, <2>2, <2>3, Zenon DEF Send
<1>6. ASSUME NEW n \in Node, Timeout(n) PROVE RegIInv'
  BY <1>4, <1>6, Zenon DEF Timeout
<1>7. ASSUME NEW n \in Node, NEW k \in 1 .. MaxTries, Lose(n, k) \/ Answer(n, k) PROVE RegIInv'
  BY <1>4, <1>7, Zenon DEF Lose, Answer
\* What the controller does.
<1>8. ASSUME NEW n \in Node, NEW k \in 1 .. MaxTries, Record(n, k) PROVE RegIInv'
  <2>1. n \in partition /\ tries[n] > 0
    BY <1>8 DEF Record, RegTypeInv, IsSent
  <2>2. \A m \in net' \cup handlers' : IsSent(m)'
    BY <1>2, <1>8, Zenon DEF Record, RegTypeInv, IsSent
  <2>3. UNCHANGED <<tries, partition>> /\ ~freed
    BY <1>8, Zenon DEF Record
  <2>4. CASE num_regist_recv = 0
    <3>1. find_exist(source, n, part_size) = -1
      BY <1>1, <2>4, FindExistHere DEF NothingRecorded
    <3>2. enlist(n) = [num |-> part_size, nodes |-> <<n>>]
      BY <2>4 DEF enlist, NothingRecorded
    <3>3. /\ source' = [source EXCEPT ![0] = n]
          /\ num_regist_recv' = 1
          /\ resource' = [num |-> part_size, nodes |-> <<n>>]
      BY <1>8, <2>4, <3>1, <3>2 DEF Record
    <3>4. \/ part_size = 1 /\ zht' = resource' /\ ready' = TRUE /\ freed' = TRUE
          \/ part_size > 1 /\ UNCHANGED <<zht, ready, freed>>
      BY <1>1, <1>8, <2>4, <3>1 DEF Record, complete
    <3>5. RegTypeInv'
      BY <1>1, <1>2, <2>2, <2>3, <3>3, <3>4, Zenon DEF RegTypeInv
    <3>6. source'[0] = n /\ \A i \in 1 .. part_size : source'[i] = NoStr
      BY <1>1, <2>4, <3>3 DEF NothingRecorded, RegTypeInv
    <3>7. part_size = 1 => resource' \in ResVal(Node) /\ resource'.num = Len(resource'.nodes)
      BY <3>3 DEF ResVal
    <3>8. OneRecorded'
      <4>1. source'[0] \in partition' /\ tries'[source'[0]] > 0
        BY <2>1, <2>3, <3>6, Zenon
      <4>2. resource' = [num |-> part_size', nodes |-> <<source'[0]>>]
        BY <1>2, <3>3, <3>6, Zenon
      <4>3. part_size = 1 => zht' \in ResVal(Node) /\ zht'.num = Len(zht'.nodes) /\ freed'
        BY <3>4, <3>7
      <4>4. part_size > 1 => ~freed' /\ ~ready' /\ zht' = NoRes
        BY <2>4, <3>4, SMTT(30) DEF NothingRecorded
      <4> QED
        BY <1>2, <3>3, <3>6, <4>1, <4>2, <4>3, <4>4, Zenon DEF OneRecorded
    <3> QED
      BY <3>3, <3>5, <3>8
  <2>5. CASE num_regist_recv > 0
    <3>1. part_size > 1 /\ source[1] = NoStr /\ source[0] # NoStr
      BY <1>1, <2>3, <2>5, RegistrationAssumption DEF OneRecorded, RegTypeInv
    <3>2. find_exist(source, n, part_size) \in Nat
      BY <3>1, FindExistHere, Zenon
    <3>3. UNCHANGED <<source, num_regist_recv, resource, zht, ready, freed>>
      BY <1>8, <3>2, SMTT(30) DEF Record
    <3> QED
      BY <1>1, <1>2, <2>2, <2>3, <2>5, <3>3 DEF RegTypeInv, OneRecorded
  <2> QED
    BY <2>4, <2>5 DEF RegTypeInv
<1>9. ASSUME NEW n \in Node, NEW k \in 1 .. MaxTries, RecordAfterFree(n, k) PROVE RegIInv'
  <2>1. num_regist_recv > 0 /\ part_size = 1
    BY <1>1, <1>9 DEF RecordAfterFree, NothingRecorded, OneRecorded, RegTypeInv
  <2>2. ~complete(num_regist_recv + 1)
    BY <2>1 DEF complete, RegTypeInv
  <2>3. /\ num_regist_recv' \in {num_regist_recv, num_regist_recv + 1}
        /\ UNCHANGED <<tries, net, partition, source, resource, freed, ready, zht>>
        /\ handlers' \subseteq handlers
    BY <1>9, <2>2, Zenon DEF RecordAfterFree
  <2>4. RegTypeInv'
    BY <1>2, <2>3 DEF RegTypeInv, IsSent
  <2> QED
    BY <1>1, <1>2, <2>1, <2>3, <2>4, SMTT(30) DEF RegTypeInv, OneRecorded
<1>10. CASE JobTakes
  <2>1. num_regist_recv > 0 /\ part_size = 1
    BY <1>1, <1>10 DEF JobTakes, NothingRecorded, OneRecorded, RegTypeInv
  <2>2. zht' \in ResVal(Node) /\ zht'.num = Len(zht'.nodes)
    BY <1>10, <2>1, TakeOne, Zenon DEF JobTakes, OneRecorded
  <2>3. UNCHANGED <<partition, tries, net, handlers, source, num_regist_recv, resource, freed, ready>>
    BY <1>10, Zenon DEF JobTakes
  <2>4. RegTypeInv'
    BY <1>2, <2>3, Zenon DEF RegTypeInv, IsSent
  <2> QED
    BY <1>2, <2>1, <2>2, <2>3, <2>4 DEF OneRecorded
<1>11. CASE UNCHANGED regVars
  BY <1>4, <1>11, Zenon DEF regVars, ctrlVars
<1> QED
  BY <1>5, <1>6, <1>7, <1>8, <1>9, <1>10, <1>11, Zenon DEF RegNext, Slurmd

\* The invariant holds from the start.
LEMMA RegAlways == RegSpec => []RegIInv
<1>1. RegInit => RegIInv
  <2> SUFFICES ASSUME RegInit PROVE RegIInv
    BY Zenon
  <2>1. part_size \in Nat
    BY FS_Subset, FS_CardinalityType, RegistrationAssumption, Zenon DEF RegInit, part_size
  <2>2. RegTypeInv
    BY <2>1, Zenon DEF RegInit, RegTypeInv
  <2>3. NothingRecorded /\ num_regist_recv = 0
    BY <2>1, Zenon DEF RegInit, NothingRecorded
  <2> QED
    BY <2>2, <2>3 DEF RegIInv
<1> QED
  BY <1>1, RegStep, PTL DEF RegSpec

(***************************************************************************)
(* main starts the workload only when part_size different nodes have       *)
(* registered and their list is in ZHT.                                    *)
(***************************************************************************)
THEOREM ReadyIsRegistered == RegSpec => []ReadyMeansRegistered
<1>1. RegIInv => ReadyMeansRegistered
  <2> SUFFICES ASSUME RegIInv, ready PROVE ReadyMeansRegistered
    BY Zenon DEF ReadyMeansRegistered
  <2>1. part_size \in Nat \ {0}
    BY PartSize, Zenon DEF RegIInv
  <2>2. OneRecorded /\ part_size = 1
    BY <2>1, SMTT(30) DEF RegIInv, RegTypeInv, NothingRecorded, OneRecorded
  <2>3. zht # NoRes
    BY <2>2, RegistrationAssumption, Zenon DEF OneRecorded
  <2>4. resource.num = part_size /\ resource.nodes = <<source[0]>> /\ Len(resource.nodes) = part_size
    BY <2>2, Zenon DEF OneRecorded
  <2>5. IsInjective(resource.nodes) /\ \A n \in Range(resource.nodes) : tries[n] > 0
    BY <2>2, <2>4 DEF OneRecorded, IsInjective, Range
  <2> QED
    BY <2>3, <2>4, <2>5, Zenon DEF ReadyMeansRegistered
<1> QED
  BY <1>1, RegAlways, PTL

(***************************************************************************)
(* The partition goes into ZHT once: a registration that comes again, to   *)
(* the freed arrays even, brings no node back that a job has taken.        *)
(***************************************************************************)
THEOREM PartitionInsertedOnce == RegSpec => InsertedOnce
<1>1. ASSUME RegIInv, [RegNext]_regVars
      PROVE  [zht # NoRes => Range(zht'.nodes) \subseteq Range(zht.nodes)]_regVars
  <2> SUFFICES ASSUME zht # NoRes PROVE Range(zht'.nodes) \subseteq Range(zht.nodes)
    BY Zenon
  <2>1. part_size \in Nat \ {0}
    BY <1>1, PartSize, Zenon DEF RegIInv
  <2>2. OneRecorded /\ part_size = 1 /\ num_regist_recv > 0 /\ freed
    BY <1>1, <2>1, SMTT(30) DEF RegIInv, RegTypeInv, NothingRecorded, OneRecorded
  <2>3. CASE JobTakes
    BY <2>2, <2>3, TakeOne, Zenon DEF JobTakes, OneRecorded
  <2>4. ASSUME NEW n \in Node, NEW k \in 1 .. MaxTries, RecordAfterFree(n, k) PROVE UNCHANGED zht
    <3>1. ~complete(num_regist_recv + 1)
      BY <1>1, <2>2 DEF complete, RegIInv, RegTypeInv
    <3> QED
      BY <2>4, <3>1, Zenon DEF RecordAfterFree
  <2>5. ASSUME NEW n \in Node, NEW k \in 1 .. MaxTries, Record(n, k) PROVE FALSE
    BY <2>2, <2>5, Zenon DEF Record
  <2>6. ASSUME NEW n \in Node, NEW k \in 1 .. MaxTries, Lose(n, k) \/ Answer(n, k)
        PROVE  UNCHANGED zht
    BY <2>6, Zenon DEF Lose, Answer, ctrlVars
  <2>7. ASSUME NEW n \in Node, Slurmd(n) PROVE UNCHANGED zht
    BY <2>7, Zenon DEF Slurmd, Send, Timeout, ctrlVars
  <2>8. CASE UNCHANGED regVars
    BY <2>8, Zenon DEF regVars
  <2> QED
    BY <1>1, <2>3, <2>4, <2>5, <2>6, <2>7, <2>8, Zenon DEF RegNext
<1> QED
  BY <1>1, RegAlways, PTL DEF RegSpec, InsertedOnce

(***************************************************************************)
(* A partition of more than one node does not come up: find_exist takes    *)
(* every node after the first for known.                                   *)
(***************************************************************************)
THEOREM OnlySingleNodeReady == RegSpec => [](ready => part_size = 1)
<1>1. RegIInv => (ready => part_size = 1)
  BY PartSize DEF RegIInv, RegTypeInv, NothingRecorded, OneRecorded
<1> QED
  BY <1>1, RegAlways, PTL

-----------------------------------------------------------------------------
(***************************************************************************)
(* Dispatcher.  The invariants speak of counters; the strengthening says   *)
(* of which set of lines each counter is the size.                         *)
(***************************************************************************)
\* The lines in the queue are different ones, and have no thread yet.
QueueInv ==
  /\ \A i, k \in 1 .. Len(queue) : queue[i] = queue[k] => i = k
  /\ \A i \in 1 .. Len(queue) : pc[queue[i]] = "queued"

\* Where the thread and the handler of a line can be.
Place(l) ==
  /\ pc[l] \in {"queued", "begin", "create", "launch"} => here[l] = "unknown"
  /\ pc[l] = "launched" => here[l] \in {"yes", "no"}
  /\ pc[l] \in {"notify", "count", "record"} => here[l] = "no"
  /\ pc[l] = "exited" /\ here[l] = "unknown" => kind[l] # "fit"
  /\ here[l] # "unknown" \/ pc[l] = "launch" => kind[l] = "fit"
  /\ handler[l] # "none" => here[l] = "yes"

PlaceInv == \A l \in Line : Place(l)

\* The lines that occupy a thread slot.  Lines that are not launched keep it.
Slots ==
  {l \in Line : \/ Launching(l)
                \/ pc[l] = "exited" /\ here[l] = "unknown"}

\* num_proc_thread is their number, but for the thread just created.
SlotInv ==
  /\ num_proc_thread + (IF main = "count" THEN 1 ELSE 0) = Cardinality(Slots)
  /\ Cardinality(Slots) <= max_proc_thread

\* The lines that were counted as finished or failed.
Counted ==
  {l \in Line : \/ handler[l] # "none"
                \/ pc[l] = "record"
                \/ pc[l] = "exited" /\ here[l] = "no"
                \/ pc[l] = "exited" /\ kind[l] = "large"}

\* The counters add up to their number, and the file is closed when they are all.
CountInv ==
  /\ num_job_fin + num_job_fail = Cardinality(Counted)
  /\ closed => num_job_fin + num_job_fail >= num_job

IInv == TypeOK /\ QueueInv /\ PlaceInv /\ SlotInv /\ CountInv /\ OnlyEndRecordLate
-----------------------------------------------------------------------------
\* Subsets of the lines have a size, which grows and shrinks by one.
LEMMA LineSets ==
  ASSUME NEW S \in SUBSET Line
  PROVE  /\ IsFiniteSet(S) /\ Cardinality(S) \in Nat
         /\ \A l \in Line \ S : Cardinality(S \cup {l}) = Cardinality(S) + 1
         /\ \A l \in S : Cardinality(S \ {l}) = Cardinality(S) - 1
         /\ Cardinality(S) <= num_job
         /\ Cardinality(S) = num_job => S = Line
<1>1. IsFiniteSet(Line)
  BY DispatcherAssumption, Zenon
<1>2. IsFiniteSet(S) /\ Cardinality(S) <= Cardinality(Line)
      /\ (Cardinality(Line) = Cardinality(S) => Line = S)
  BY <1>1, FS_Subset, Zenon
<1>3. Cardinality(S) \in Nat
  BY <1>2, FS_CardinalityType, Zenon
<1>4. \A l \in Line \ S : Cardinality(S \cup {l}) = Cardinality(S) + 1
  BY <1>2, FS_AddElement, Zenon
<1>5. \A l \in S : Cardinality(S \ {l}) = Cardinality(S) - 1
  BY <1>2, FS_RemoveElement, Zenon
<1>6. Cardinality(Line) = num_job
  <2>1. Len(workload) \in Nat /\ workload \in [1 .. Len(workload) -> Line]
    BY DispatcherAssumption
  <2>2. workload \in Bijection(1 .. Len(workload), Line)
    BY <2>1, DispatcherAssumption, Zenon DEF Bijection, Injection, Surjection, IsInjective
  <2>3. ExistsBijection(1 .. Len(workload), Line)
    BY <2>2, Zenon DEF ExistsBijection
  <2>4. /\ IsFiniteSet(1 .. Len(workload))
        /\ Cardinality(1 .. Len(workload)) = Len(workload)
    BY <2>1, FS_Interval, SMTT(30)
  <2> QED BY <2>3, <2>4, FS_Bijection, Zenon DEF num_job
<1> QED BY <1>2, <1>3, <1>4, <1>5, <1>6, Zenon

\* Initially nothing is counted and no line has a thread.
LEMMA InitInv == Init => IInv
<1> SUFFICES ASSUME Init PROVE IInv
  BY Zenon
<1>1. TypeOK
  <2>1. queue \in Seq(Line)
    BY DispatcherAssumption, Zenon DEF Init
  <2>2. /\ pc \in [Line -> Label]
        /\ handler \in [Line -> {"none", "record", "done"}]
        /\ here \in [Line -> {"unknown", "yes", "no"}]
    BY Zenon DEF Init, Label
  <2>3. num_proc_thread \in Int /\ num_proc_thread >= -1
        /\ num_job_fin \in Nat /\ num_job_fail \in Nat
    BY DEF Init
  <2>4. main \in {"launch", "count", "wait", "asleep"} /\ closed \in BOOLEAN
        /\ kind \in [Line -> Kind] /\ late \in SUBSET {"start", "launch", "end"}
    BY Zenon DEF Init
  <2> QED BY <2>1, <2>2, <2>3, <2>4, Zenon DEF TypeOK
<1>2. QueueInv
  <2>1. \A i \in 1 .. Len(workload) : workload[i] \in Line
    BY DispatcherAssumption
  <2> QED BY <2>1, DispatcherAssumption, Zenon DEF Init, QueueInv
<1>3. PlaceInv /\ OnlyEndRecordLate
  BY Zenon DEF Init, PlaceInv, Place, OnlyEndRecordLate
<1>4. Slots = {} /\ Counted = {}
  BY Zenon DEF Init, Slots, Launching, Counted
<1>5. SlotInv /\ CountInv
  BY <1>4, FS_EmptySet, DispatcherAssumption DEF Init, SlotInv, CountInv
<1> QED BY <1>1, <1>2, <1>3, <1>5, Zenon DEF IInv

\* A thread that moves on leaves the queue alone.
LEMMA QueueKept ==
  ASSUME QueueInv, NEW l \in Line, pc \in [Line -> Label], queue \in Seq(Line),
         pc[l] # "queued", NEW x, pc' = [pc EXCEPT ![l] = x], queue' = queue
  PROVE  QueueInv'
<1>1. \A i \in 1 .. Len(queue) : queue[i] \in Line /\ pc'[queue[i]] = pc[queue[i]]
  BY DEF QueueInv
<1> QED BY <1>1 DEF QueueInv

(***************************************************************************)
(* One step per action: how it changes the two sets, then the conjuncts.   *)
(***************************************************************************)
\* Every step of main, of a job thread and of a handler keeps the invariant.
LEMMA NextInv == IInv /\ [Next]_vars => IInv'
<1> SUFFICES ASSUME IInv, [Next]_vars PROVE IInv'
  BY Zenon
<1>a. /\ TypeOK /\ QueueInv /\ PlaceInv /\ SlotInv /\ CountInv
      /\ OnlyEndRecordLate
  BY Zenon DEF IInv
<1>b. Slots \in SUBSET Line /\ Counted \in SUBSET Line
  BY Zenon DEF Slots, Counted
<1>c. Cardinality(Slots) \in Nat /\ Cardinality(Counted) \in Nat
  BY <1>b, LineSets, Zenon
<1>n. num_job \in Nat
  BY DispatcherAssumption DEF num_job
\* As long as a line is not counted, the file is open.
<1>d. \A l \in Line : l \notin Counted =>
        num_job_fin + num_job_fail < num_job /\ ~ closed
  <2>1. \A l \in Line : l \notin Counted => Cardinality(Counted) < num_job
    <3>1. /\ Cardinality(Counted) <= num_job
          /\ Cardinality(Counted) = num_job => Counted = Line
      BY <1>b, LineSets, Zenon
    <3> QED BY <3>1, <1>b, <1>c, <1>n
  <2> QED BY <2>1, <1>a, <1>c, <1>n DEF CountInv
<1>e. /\ pc \in [Line -> Label] /\ here \in [Line -> {"unknown", "yes", "no"}]
      /\ handler \in [Line -> {"none", "record", "done"}] /\ queue \in Seq(Line)
  BY <1>a, Zenon DEF TypeOK
<1>f. \A l \in Line : Place(l)
  BY <1>a, Zenon DEF PlaceInv
<1>1. CASE ForkJob
  <2>1. PICK l \in Line : l = Head(queue)
    BY <1>1, <1>e DEF ForkJob
  <2>2. pc[l] = "queued" /\ here[l] = "unknown" /\ handler[l] = "none"
    <3>1. 1 \in 1 .. Len(queue) /\ Head(queue) = queue[1]
      BY <1>1, <1>e DEF ForkJob
    <3>2. pc[l] = "queued"
      BY <3>1, <1>a, <2>1, Zenon DEF QueueInv
    <3> QED BY <3>2, <1>f, Zenon DEF Place
  <2>3. pc' = [pc EXCEPT ![l] = "begin"] /\ UNCHANGED <<kind, here, handler, closed, late>>
    BY <1>1, <2>1, Zenon DEF ForkJob
  <2>4. Slots' = Slots \cup {l} /\ l \notin Slots /\ Counted' = Counted
    BY <1>e, <2>2, <2>3, Zenon DEF Slots, Launching, Counted
  <2>5. SlotInv'
    <3>1. Cardinality(Slots') = Cardinality(Slots) + 1
      BY <2>4, <1>b, LineSets, Zenon
    <3>2. main = "launch" /\ main' = "count" /\ num_proc_thread < max_proc_thread
          /\ num_proc_thread' = num_proc_thread /\ num_proc_thread \in Int
      BY <1>1, <1>a, Zenon DEF ForkJob, TypeOK
    <3> QED BY <3>1, <3>2, <1>a, <1>c, DispatcherAssumption DEF SlotInv
  <2>6. CountInv'
    BY <1>1, <1>a, <2>4, Zenon DEF CountInv, ForkJob
  <2>7. TypeOK'
    <3>1. queue' \in Seq(Line)
      BY <1>1, <1>e DEF ForkJob
    <3> QED BY <3>1, <1>1, <1>a, <2>3, Zenon DEF TypeOK, Label, ForkJob
  <2>8. QueueInv'
    <3>1. /\ Len(queue') = Len(queue) - 1 /\ Len(queue) \in Nat
          /\ \A i \in 1 .. Len(queue') : queue'[i] = queue[i + 1] /\ queue[i + 1] \in Line
      BY <1>1, <1>e DEF ForkJob
    <3>2. \A i \in 1 .. Len(queue') : queue[i + 1] # queue[1]
      BY <3>1, <1>a DEF QueueInv
    <3>3. queue[1] = l
      BY <1>1, <2>1, <1>e DEF ForkJob
    <3>4. \A i \in 1 .. Len(queue') : pc'[queue'[i]] = "queued"
      <4>1. pc' = [pc EXCEPT ![l] = "begin"]
        BY <2>3, Zenon
      <4>2. \A i \in 1 .. Len(queue') : pc'[queue[i + 1]] = pc[queue[i + 1]]
        BY <4>1, <3>1, <3>2, <3>3, <1>e, Zenon
      <4>3. \A i \in 1 .. Len(queue') : pc[queue[i + 1]] = "queued"
        BY <3>1, <1>a DEF QueueInv
      <4> QED BY <4>2, <4>3, <3>1, Zenon
    <3>5. \A i, k \in 1 .. Len(queue') : queue'[i] = queue'[k] => i = k
      BY <3>1, <1>a, SMTT(30) DEF QueueInv
    <3> QED BY <3>4, <3>5, Zenon DEF QueueInv
  <2>9. PlaceInv' /\ OnlyEndRecordLate'
    BY <1>a, <1>e, <1>f, <2>2, <2>3 DEF PlaceInv, Place, OnlyEndRecordLate
  <2> QED BY <2>5, <2>6, <2>7, <2>8, <2>9, Zenon DEF IInv
<1>2. CASE CountThread
  <2>1. Slots' = Slots /\ Counted' = Counted
    BY <1>2, Zenon DEF CountThread, Slots, Launching, Counted
  <2>2. SlotInv' /\ CountInv'
    BY <1>2, <1>a, <2>1, SMTT(30) DEF CountThread, SlotInv, CountInv, TypeOK
  <2>3. TypeOK' /\ QueueInv' /\ PlaceInv' /\ OnlyEndRecordLate'
    BY <1>2, <1>a, SMTT(30) DEF CountThread, TypeOK, QueueInv, PlaceInv, Place, OnlyEndRecordLate
  <2> QED BY <2>2, <2>3, Zenon DEF IInv
<1>3. CASE QueueEmpty
  <2>1. Slots' = Slots /\ Counted' = Counted
    BY <1>3, Zenon DEF QueueEmpty, Slots, Launching, Counted
  <2>2. SlotInv' /\ CountInv'
    BY <1>3, <1>a, <2>1, Zenon DEF QueueEmpty, SlotInv, CountInv, TypeOK
  <2>3. TypeOK' /\ QueueInv' /\ PlaceInv' /\ OnlyEndRecordLate'
    BY <1>3, <1>a, SMTT(30) DEF QueueEmpty, TypeOK, QueueInv, PlaceInv, Place, OnlyEndRecordLate
  <2> QED BY <2>2, <2>3, Zenon DEF IInv
<1>4. CASE Report
  <2>1. Slots' = Slots /\ Counted' = Counted
    BY <1>4, Zenon DEF Report, Slots, Launching, Counted
  <2>2. SlotInv' /\ CountInv'
    BY <1>4, <1>a, <2>1, Zenon DEF Report, SlotInv, CountInv, TypeOK
  <2>3. TypeOK' /\ QueueInv' /\ PlaceInv' /\ OnlyEndRecordLate'
    BY <1>4, <1>a DEF Report, TypeOK, QueueInv, PlaceInv, Place, OnlyEndRecordLate
  <2> QED BY <2>2, <2>3, Zenon DEF IInv
<1>5. ASSUME NEW l \in Line, NotSrun(l) PROVE IInv'
  <2>1. Slots' = Slots /\ Counted' = Counted
    BY <1>5, <1>e, <1>f, SMTT(30) DEF NotSrun, Place, Slots, Launching, Counted
  <2>2. SlotInv' /\ CountInv'
    BY <1>5, <1>a, <2>1, Zenon DEF NotSrun, SlotInv, CountInv
  <2>3. TypeOK'
    BY <1>5, <1>a, Zenon DEF NotSrun, TypeOK, Label
  <2>4. QueueInv'
    BY <1>5, <1>a, <1>e, QueueKept, Zenon DEF NotSrun
  <2>5. PlaceInv'
    BY <1>5, <1>e, <1>f, Zenon DEF NotSrun, PlaceInv, Place
  <2>6. OnlyEndRecordLate'
    BY <1>5, <1>a, Zenon DEF NotSrun, OnlyEndRecordLate
  <2> QED BY <2>2, <2>3, <2>4, <2>5, <2>6, Zenon DEF IInv
<1>6. ASSUME NEW l \in Line, StartRecord(l) PROVE IInv'
  <2>o. num_job_fin + num_job_fail < num_job /\ ~ closed
    BY <1>6, <1>d, <1>f, Zenon DEF StartRecord, Place, Counted
  <2>1. Slots' = Slots /\ Counted' = Counted
    BY <1>6, <1>e, <1>f, <2>o DEF StartRecord, Write, Place, Slots, Launching, Counted
  <2>2. SlotInv' /\ CountInv'
    BY <1>6, <1>a, <2>1, Zenon DEF StartRecord, Write, SlotInv, CountInv
  <2>3. TypeOK'
    BY <1>6, <1>a, Zenon DEF StartRecord, Write, TypeOK, Label
  <2>4. QueueInv'
    BY <1>6, <1>a, <1>e, QueueKept, <2>o, Zenon DEF StartRecord, Write
  <2>5. PlaceInv'
    BY <1>6, <1>e, <1>f, <2>o, Zenon DEF StartRecord, Write, PlaceInv, Place
  <2>6. OnlyEndRecordLate'
    BY <1>6, <1>a, <2>o, Zenon DEF StartRecord, Write, OnlyEndRecordLate
  <2> QED BY <2>2, <2>3, <2>4, <2>5, <2>6, Zenon DEF IInv
<1>7. ASSUME NEW l \in Line, GiveUp(l) PROVE IInv'
  <2>1. Slots' = Slots
    BY <1>7, <1>e, <1>f, Zenon DEF GiveUp, Place, Slots, Launching
  <2>2. l \notin Counted /\ Counted' = Counted \cup {l}
    BY <1>7, <1>e, <1>f DEF GiveUp, Place, Counted
  <2>3. Cardinality(Counted') = Cardinality(Counted) + 1 /\ ~ closed
    BY <2>2, <1>b, <1>d, LineSets, Zenon
  <2>4. SlotInv' /\ CountInv'
    BY <1>7, <1>a, <1>c, <2>1, <2>3, SMTT(30) DEF GiveUp, TypeOK, SlotInv, CountInv
  <2>5. TypeOK'
    BY <1>7, <1>a DEF GiveUp, TypeOK, Label
  <2>6. QueueInv'
    BY <1>7, <1>a, <1>e, QueueKept, Zenon DEF GiveUp
  <2>7. PlaceInv' /\ OnlyEndRecordLate'
    BY <1>7, <1>a, <1>e, <1>f, Zenon DEF GiveUp, PlaceInv, Place, OnlyEndRecordLate
  <2> QED BY <2>4, <2>5, <2>6, <2>7, Zenon DEF IInv
<1>8. ASSUME NEW l \in Line, LaunchRecord(l) PROVE IInv'
  <2>o. num_job_fin + num_job_fail < num_job /\ ~ closed
    BY <1>8, <1>d, <1>f, Zenon DEF LaunchRecord, Place, Counted
  <2>1. Slots' = Slots /\ Counted' = Counted
    BY <1>8, <1>e, <1>f, <2>o, SMTT(30) DEF LaunchRecord, Write, Place, Slots, Launching, Counted
  <2>2. SlotInv' /\ CountInv'
    BY <1>8, <1>a, <2>1, Zenon DEF LaunchRecord, Write, SlotInv, CountInv
  <2>3. TypeOK'
    BY <1>8, <1>a, Zenon DEF LaunchRecord, Write, TypeOK, Label
  <2>4. QueueInv'
    BY <1>8, <1>a, <1>e, QueueKept, <2>o, Zenon DEF LaunchRecord, Write
  <2>5. PlaceInv'
    BY <1>8, <1>e, <1>f, <2>o, Zenon DEF LaunchRecord, Write, PlaceInv, Place
  <2>6. OnlyEndRecordLate'
    BY <1>8, <1>a, <2>o, Zenon DEF LaunchRecord, Write, OnlyEndRecordLate
  <2> QED BY <2>2, <2>3, <2>4, <2>5, <2>6, Zenon DEF IInv
<1>9. ASSUME NEW l \in Line, NEW h \in {"yes", "no"}, Launch(l, h)
      PROVE  IInv'
  <2>1. Slots' = Slots /\ Counted' = Counted
    BY <1>9, <1>e, <1>f, SMTT(30) DEF Launch, Place, Slots, Launching, Counted
  <2>2. SlotInv' /\ CountInv'
    BY <1>9, <1>a, <2>1, Zenon DEF Launch, SlotInv, CountInv
  <2>3. TypeOK'
    BY <1>9, <1>a, Zenon DEF Launch, TypeOK, Label
  <2>4. QueueInv'
    BY <1>9, <1>a, <1>e, QueueKept, Zenon DEF Launch
  <2>5. PlaceInv'
    BY <1>9, <1>e, <1>f, Zenon DEF Launch, PlaceInv, Place
  <2>6. OnlyEndRecordLate'
    BY <1>9, <1>a, Zenon DEF Launch, OnlyEndRecordLate
  <2> QED BY <2>2, <2>3, <2>4, <2>5, <2>6, Zenon DEF IInv
<1>10. ASSUME NEW l \in Line, FreeThreadSlot(l) PROVE IInv'
  <2>1. l \in Slots /\ Slots' = Slots \ {l}
    BY <1>10, <1>e, <1>f, Zenon DEF FreeThreadSlot, Place, Slots, Launching
  <2>2. Counted' = Counted
    BY <1>10, <1>e, <1>f, Zenon DEF FreeThreadSlot, Place, Counted
  <2>3. Cardinality(Slots') = Cardinality(Slots) - 1
    BY <2>1, <1>b, LineSets, Zenon
  <2>4. Cardinality(Slots') \in Nat
    BY <2>1, <1>b, LineSets, Zenon
  <2>5. num_proc_thread \in Int /\ num_proc_thread' = num_proc_thread - 1
    BY <1>10, <1>a, Zenon DEF FreeThreadSlot, TypeOK
  <2>6. SlotInv'
    <3>1. main' = main /\ max_proc_thread \in Nat
      BY <1>10, DispatcherAssumption, Zenon DEF FreeThreadSlot
    <3> QED BY <3>1, <1>a, <1>c, <2>3, <2>5, SMTT(30) DEF SlotInv
  <2>7. CountInv'
    BY <1>10, <1>a, <2>2, Zenon DEF FreeThreadSlot, CountInv
  <2>8. TypeOK'
    <3>1. num_proc_thread' \in Int /\ num_proc_thread' >= -1
      BY <2>4, <2>5, <2>6 DEF SlotInv
    <3> QED BY <3>1, <1>10, <1>a, Zenon DEF FreeThreadSlot, TypeOK, Label
  <2>9. QueueInv'
    BY <1>10, <1>a, <1>e, QueueKept, Zenon DEF FreeThreadSlot
  <2>10. PlaceInv' /\ OnlyEndRecordLate'
    BY <1>10, <1>a, <1>e, <1>f, Zenon DEF FreeThreadSlot, PlaceInv, Place, OnlyEndRecordLate
  <2> QED BY <2>6, <2>7, <2>8, <2>9, <2>10, Zenon DEF IInv
<1>11. ASSUME NEW l \in Line, Notified(l) PROVE IInv'
  <2>o. num_job_fin + num_job_fail < num_job /\ ~ closed
    BY <1>11, <1>d, <1>f, Zenon DEF Notified, Place, Counted
  <2>1. Slots' = Slots /\ Counted' = Counted
    BY <1>11, <1>e, <1>f, <2>o, Zenon DEF Notified, Place, Slots, Launching, Counted
  <2>2. SlotInv' /\ CountInv'
    BY <1>11, <1>a, <2>1, Zenon DEF Notified, SlotInv, CountInv
  <2>3. TypeOK'
    BY <1>11, <1>a, Zenon DEF Notified, TypeOK, Label
  <2>4. QueueInv'
    BY <1>11, <1>a, <1>e, QueueKept, <2>o, Zenon DEF Notified
  <2>5. PlaceInv'
    BY <1>11, <1>e, <1>f, <2>o, Zenon DEF Notified, PlaceInv, Place
  <2>6. OnlyEndRecordLate'
    BY <1>11, <1>a, <2>o, Zenon DEF Notified, OnlyEndRecordLate
  <2> QED BY <2>2, <2>3, <2>4, <2>5, <2>6, Zenon DEF IInv
<1>12. ASSUME NEW l \in Line, CountNotified(l) PROVE IInv'
  <2>1. Slots' = Slots
    BY <1>12, <1>e, <1>f, Zenon DEF CountNotified, Place, Slots, Launching
  <2>2. l \notin Counted /\ Counted' = Counted \cup {l}
    BY <1>12, <1>e, <1>f, Zenon DEF CountNotified, Place, Counted
  <2>3. Cardinality(Counted') = Cardinality(Counted) + 1 /\ ~ closed
    BY <2>2, <1>b, <1>d, LineSets, Zenon
  <2>4. SlotInv' /\ CountInv'
    BY <1>12, <1>a, <1>c, <2>1, <2>3 DEF CountNotified, TypeOK, SlotInv, CountInv
  <2>5. TypeOK'
    BY <1>12, <1>a DEF CountNotified, TypeOK, Label
  <2>6. QueueInv'
    BY <1>12, <1>a, <1>e, QueueKept, Zenon DEF CountNotified
  <2>7. PlaceInv' /\ OnlyEndRecordLate'
    BY <1>12, <1>a, <1>e, <1>f, Zenon DEF CountNotified, PlaceInv, Place, OnlyEndRecordLate
  <2> QED BY <2>4, <2>5, <2>6, <2>7, Zenon DEF IInv
<1>13. ASSUME NEW l \in Line, NotifiedRecord(l) PROVE IInv'
  <2>1. Slots' = Slots /\ Counted' = Counted
    BY <1>13, <1>e, <1>f DEF NotifiedRecord, Write, Place, Slots, Launching, Counted
  <2>2. SlotInv' /\ CountInv'
    BY <1>13, <1>a, <2>1, Zenon DEF NotifiedRecord, Write, SlotInv, CountInv
  <2>3. TypeOK'
    BY <1>13, <1>a, Zenon DEF NotifiedRecord, Write, TypeOK, Label
  <2>4. QueueInv'
    BY <1>13, <1>a, <1>e, QueueKept, Zenon DEF NotifiedRecord, Write
  <2>5. PlaceInv'
    BY <1>13, <1>e, <1>f, Zenon DEF NotifiedRecord, Write, PlaceInv, Place
  <2>6. OnlyEndRecordLate'
    BY <1>13, <1>a, Zenon DEF NotifiedRecord, Write, OnlyEndRecordLate
  <2> QED BY <2>2, <2>3, <2>4, <2>5, <2>6, Zenon DEF IInv
<1>14. ASSUME NEW l \in Line, Complete(l) PROVE IInv'
  <2>1. Slots' = Slots
    BY <1>14, <1>e, <1>f, Zenon DEF Complete, Place, Slots, Launching
  <2>2. l \notin Counted /\ Counted' = Counted \cup {l}
    BY <1>14, <1>e, <1>f, Zenon DEF Complete, Place, Counted
  <2>3. Cardinality(Counted') = Cardinality(Counted) + 1 /\ ~ closed
    BY <2>2, <1>b, <1>d, LineSets, Zenon
  <2>4. SlotInv' /\ CountInv'
    BY <1>14, <1>a, <1>c, <2>1, <2>3, SMTT(30) DEF Complete, TypeOK, SlotInv, CountInv
  <2>5. TypeOK'
    BY <1>14, <1>a, SMTT(30) DEF Complete, TypeOK
  <2>6. QueueInv'
    BY <1>14, <1>a, Zenon DEF Complete, QueueInv
  <2>7. PlaceInv' /\ OnlyEndRecordLate'
    BY <1>14, <1>a, <1>e, <1>f, Zenon DEF Complete, PlaceInv, Place, OnlyEndRecordLate
  <2> QED BY <2>4, <2>5, <2>6, <2>7, Zenon DEF IInv
<1>15. ASSUME NEW l \in Line, CompleteRecord(l) PROVE IInv'
  <2>1. Slots' = Slots /\ Counted' = Counted
    BY <1>15, <1>e, <1>f, Zenon DEF CompleteRecord, Write, Place, Slots, Launching, Counted
  <2>2. SlotInv' /\ CountInv'
    BY <1>15, <1>a, <2>1, Zenon DEF CompleteRecord, Write, SlotInv, CountInv
  <2>3. TypeOK'
    BY <1>15, <1>a, Zenon DEF CompleteRecord, Write, TypeOK
  <2>4. QueueInv'
    BY <1>15, <1>a, Zenon DEF CompleteRecord, Write, QueueInv
  <2>5. PlaceInv'
    BY <1>15, <1>e, <1>f, Zenon DEF CompleteRecord, Write, PlaceInv, Place
  <2>6. OnlyEndRecordLate'
    BY <1>15, <1>a, Zenon DEF CompleteRecord, Write, OnlyEndRecordLate
  <2> QED BY <2>2, <2>3, <2>4, <2>5, <2>6, Zenon DEF IInv
<1>16. CASE UNCHANGED vars
  <2>1. Slots' = Slots /\ Counted' = Counted
    BY <1>16, Zenon DEF vars, Slots, Launching, Counted
  <2>2. SlotInv' /\ CountInv'
    BY <1>16, <1>a, <2>1, Zenon DEF vars, SlotInv, CountInv, TypeOK
  <2>3. TypeOK'
    BY <1>16, <1>a, Zenon DEF vars, TypeOK
  <2>4. QueueInv'
    BY <1>16, <1>a, Zenon DEF vars, QueueInv
  <2>5. PlaceInv'
    BY <1>16, <1>a, Zenon DEF vars, PlaceInv, Place
  <2>6. OnlyEndRecordLate'
    BY <1>16, <1>a, Zenon DEF vars, OnlyEndRecordLate
  <2> QED BY <2>2, <2>3, <2>4, <2>5, <2>6, Zenon DEF IInv
<1>17. CASE Next
  <2>1. CASE Main
    BY <2>1, <1>1, <1>2, <1>3, <1>4, Zenon DEF Main
  <2>2. ASSUME NEW l \in Line, Thread(l) PROVE IInv'
    BY <2>2, <1>5, <1>6, <1>7, <1>8, <1>9, <1>10, <1>11, <1>12, <1>13, Zenon DEF Thread
  <2>3. ASSUME NEW l \in Line, Handler(l) PROVE IInv'
    BY <2>3, <1>14, <1>15, Zenon DEF Handler
  <2> QED BY <1>17, <2>1, <2>2, <2>3, Zenon DEF Next
<1> QED BY <1>16, <1>17, Zenon

\* The invariant always holds.
LEMMA Invariance == Spec => []IInv
BY InitInv, NextInv, PTL DEF Spec
-----------------------------------------------------------------------------
\* Every variable keeps its type, whatever the workload; num_proc_thread is
\* never below -1.
THEOREM TypeCorrect == Spec => []TypeOK
<1>1. IInv => TypeOK
  BY Zenon DEF IInv
<1> QED BY <1>1, Invariance, PTL

\* main never has more than max_proc_thread threads busy launching, although it
\* reads num_proc_thread unlocked and counts a thread after creating it.
THEOREM ThreadsAreBounded == Spec => []ThreadsBounded
<1>1. IInv => ThreadsBounded
  <2> SUFFICES ASSUME IInv PROVE ThreadsBounded
    BY Zenon
  <2> DEFINE T == {l \in Line : Launching(l)}
  <2>1. Slots \in SUBSET Line /\ T \in SUBSET Slots
    BY Zenon DEF Slots
  <2>2. IsFiniteSet(Slots) /\ Cardinality(Slots) \in Nat
        /\ Cardinality(T) \in Nat
    BY <2>1, LineSets, Zenon
  <2>3. Cardinality(T) <= Cardinality(Slots)
    BY <2>1, <2>2, FS_Subset, Zenon
  <2> QED BY <2>2, <2>3, DispatcherAssumption DEF IInv, SlotInv, ThreadsBounded
<1> QED BY <1>1, Invariance, PTL

\* No job is counted twice: finished and failed jobs never outnumber the lines.
THEOREM CountersAreBounded == Spec => []CountersBounded
<1>1. IInv => CountersBounded
  <2> SUFFICES ASSUME IInv PROVE CountersBounded
    BY Zenon
  <2>1. Counted \in SUBSET Line
    BY Zenon DEF Counted
  <2> QED BY <2>1, LineSets, Zenon DEF IInv, CountInv, CountersBounded
<1> QED BY <1>1, Invariance, PTL

\* When main has closed the output file, only end records are still written.
THEOREM StartAndLaunchInTime == Spec => []OnlyEndRecordLate
<1>1. IInv => OnlyEndRecordLate
  BY Zenon DEF IInv
<1> QED BY <1>1, Invariance, PTL
=============================================================================
