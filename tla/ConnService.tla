---------------------------- MODULE ConnService ----------------------------
(***************************************************************************)
(* How a controller takes the messages of its slurmds: _recv_msg_proc      *)
(* accepts a connection and starts a thread for it, _service_connection    *)
(* receives the message, answers and handles it and closes the connection. *)
(* All threads are given the same conn_arg, allocated once, whose newsockfd*)
(* the next accept overwrites; each thread reads it again when it closes.  *)
(*                                                                         *)
(* A client stands for one connection with one message, sent at once; a    *)
(* retry is another client.  Descriptors are given out lowest first.       *)
(***************************************************************************)
EXTENDS Integers, FiniteSetsExt

CONSTANTS
    Client,    \* the connections made to the controller
    nobody,    \* no client
    Known,     \* those whose message is of a type _controller_req handles
    MaxFd      \* bound on the open descriptors

ASSUME ConnServiceAssumption ==
    /\ nobody \notin Client /\ Known \subseteq Client
    /\ MaxFd \in Nat \ {0}

Fd == 1 .. MaxFd
none == 0

VARIABLES
    backlog,     \* clients waiting to be accepted
    accepted,    \* new_sock_fd and its client, between accept and the thread
    newsockfd,   \* conn_arg->newsockfd
    sock,        \* the client at the other end of each descriptor
    unread,      \* clients whose message has not been received
    service,     \* where the thread started for each client is
    msg,         \* its message: conn_fd, and the client that sent it
    answers,     \* for each client, the requests answered on its connection
    handled,     \* how often the message of each client was handled
    overlap      \* history: a client came while another was served

conns == <<backlog, accepted, newsockfd, sock, unread>>
threads == <<service, msg>>
connVars == <<conns, threads, answers, handled, overlap>>

ConnInit ==
    /\ backlog = {} /\ unread = {}
    /\ accepted = [fd |-> none, from |-> nobody]
    /\ newsockfd = none
    /\ sock = [f \in Fd |-> nobody]
    /\ service = [c \in Client |-> "none"]
    /\ msg = [c \in Client |-> [conn_fd |-> none, from |-> nobody]]
    /\ answers = [c \in Client |-> {}]
    /\ handled = [c \in Client |-> 0]
    /\ overlap = FALSE

Idle == backlog = {} /\ accepted.fd = none /\ \A c \in Client : service[c] \in {"none", "done"}

Connected(c) == c \in backlog \/ c = accepted.from \/ service[c] # "none"

Connect(c) ==
    /\ ~Connected(c)
    /\ backlog' = backlog \cup {c}
    /\ unread' = unread \cup {c}
    /\ overlap' = (overlap \/ ~Idle)
    /\ UNCHANGED <<accepted, newsockfd, sock, threads, answers, handled>>

-----------------------------------------------------------------------------
\* _recv_msg_proc

\* With no descriptor left accept fails, and is tried again.
Accept ==
    /\ accepted.fd = none
    /\ \E f \in Fd : sock[f] = nobody
    /\ LET fd == Min({f \in Fd : sock[f] = nobody})
       IN  \E c \in backlog :
               /\ backlog' = backlog \ {c}
               /\ accepted' = [fd |-> fd, from |-> c]
               /\ sock' = [sock EXCEPT ![fd] = c]
    /\ UNCHANGED <<newsockfd, unread, threads, answers, handled, overlap>>

\* conn_arg gets the descriptor, and pthread_create is tried until it works.
Spawn ==
    /\ accepted.fd # none
    /\ newsockfd' = accepted.fd
    /\ service' = [service EXCEPT ![accepted.from] = "start"]
    /\ accepted' = [fd |-> none, from |-> nobody]
    /\ UNCHANGED <<backlog, sock, unread, msg, answers, handled, overlap>>

-----------------------------------------------------------------------------
\* _service_connection, in the thread started for client c

Goto(c, l) == service' = [service EXCEPT ![c] = l]

\* The argument of slurm_receive_msg is read.
ReadFd(c) ==
    /\ service[c] = "start"
    /\ msg' = [msg EXCEPT ![c].conn_fd = newsockfd]
    /\ Goto(c, "receive")
    /\ UNCHANGED <<conns, answers, handled, overlap>>

Receive_peek(c) ==
    LET d == sock[msg[c].conn_fd]
    IN  /\ service[c] = "receive" /\ d \in unread
        /\ msg' = [msg EXCEPT ![c].from = d]
        /\ Goto(c, IF d \in Known THEN "request" ELSE "close")
        /\ UNCHANGED <<conns, answers, handled, overlap>>

\* slurm_receive_msg, and the choice of _controller_req.
Receive(c) ==
    LET d == sock[msg[c].conn_fd]
    IN  /\ service[c] = "receive" /\ d \in unread
        /\ unread' = unread \ {d}
        /\ msg' = [msg EXCEPT ![c].from = d]
        /\ Goto(c, IF d \in Known THEN "request" ELSE "close")
        /\ UNCHANGED <<backlog, accepted, newsockfd, sock, answers, handled, overlap>>

ReceiveFails_if_closed(c) ==
    /\ service[c] = "receive" /\ sock[msg[c].conn_fd] = nobody
    /\ Goto(c, "close")
    /\ UNCHANGED <<conns, msg, answers, handled, overlap>>

\* The descriptor is closed, or there is nothing to read until the time-out.
ReceiveFails(c) ==
    /\ service[c] = "receive" /\ sock[msg[c].conn_fd] \notin unread
    /\ Goto(c, "close")
    /\ UNCHANGED <<conns, msg, answers, handled, overlap>>

Reply_closed(c) ==
    LET d == IF newsockfd = msg[c].conn_fd THEN nobody ELSE sock[msg[c].conn_fd]
    IN  /\ service[c] = "request"
        /\ answers' = IF d = nobody THEN answers
                      ELSE [answers EXCEPT ![d] = @ \cup {msg[c].from}]
        /\ Goto(c, "handle")
        /\ UNCHANGED <<conns, msg, handled, overlap>>

\* _regist_msg_proc and _step_complete_msg_proc first answer on conn_fd ...
Reply(c) ==
    LET d == sock[msg[c].conn_fd]
    IN  /\ service[c] = "request"
        /\ answers' = IF d = nobody THEN answers
                      ELSE [answers EXCEPT ![d] = @ \cup {msg[c].from}]
        /\ Goto(c, "handle")
        /\ UNCHANGED <<conns, msg, handled, overlap>>

\* ... and then do their work.
Handle(c) ==
    /\ service[c] = "handle"
    /\ handled' = [handled EXCEPT ![msg[c].from] = @ + 1]
    /\ Goto(c, "close")
    /\ UNCHANGED <<conns, msg, answers, overlap>>

Close_none(c) ==
    /\ service[c] = "close"
    /\ Goto(c, "done")
    /\ UNCHANGED <<conns, msg, answers, handled, overlap>>

\* Whatever newsockfd is by now is closed.
Close(c) ==
    /\ service[c] = "close"
    /\ sock' = [sock EXCEPT ![newsockfd] = nobody]
    /\ Goto(c, "done")
    /\ UNCHANGED <<backlog, accepted, newsockfd, unread, msg, answers, handled, overlap>>

ServiceThread(c) ==
    ReadFd(c) \/ Receive(c) \/ ReceiveFails(c) \/ Reply(c) \/ Handle(c) \/ Close(c)

ConnNext == Accept \/ Spawn \/ \E c \in Client : Connect(c) \/ ServiceThread(c)

ConnSpec == ConnInit /\ [][ConnNext]_connVars

ConnFairSpec ==
    /\ ConnSpec
    /\ WF_connVars(Accept) /\ WF_connVars(Spawn)
    /\ \A c \in Client : WF_connVars(ServiceThread(c))

-----------------------------------------------------------------------------
(***************************************************************************)
(* No message is handled twice, though several threads may receive on one  *)
(* descriptor: a registration or a completion is counted once per sending. *)
(***************************************************************************)
HandledOnce == \A c \in Client : handled[c] <= 1

(***************************************************************************)
(* Every thread of _service_connection ends, whatever became of the        *)
(* descriptor it reads: no thread waits forever for a message that another *)
(* thread has received.                                                    *)
(***************************************************************************)
ThreadsEnd == <>[](\A c \in Client : service[c] \in {"none", "done"})

(***************************************************************************)
(* Clients that come one at a time are all served: each is answered on its *)
(* own connection by _regist_msg_proc or _step_complete_msg_proc, and no   *)
(* descriptor that accept returned stays open.                             *)
(***************************************************************************)
SerialClientsServed ==
    <>[](overlap \/ /\ \A c \in Known : Connected(c) => answers[c] = {c}
                    /\ \A f \in Fd : sock[f] = nobody)
=============================================================================
