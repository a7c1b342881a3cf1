---------------------------- MODULE StepComplete ----------------------------
(***************************************************************************)
(* How the slurmstepds of a job step tell the controller that it is over   *)
(* (slurmd/slurmstepd/mgr.c): each waits for the completions of its        *)
(* subtree, or a time-out, and sends the ranges of completed ranks to its  *)
(* parent in the reverse tree, or to the controller when the parent does   *)
(* not take them.  Requests and replies may be lost, slurmstepds start     *)
(* late, give up waiting, and die.                                         *)
(***************************************************************************)
EXTENDS ReverseTree, Sequences

CONSTANTS
    num_nodes, width,
    Estatus,      \* for each rank, the exit status of each of its tasks
    PARENT_RETRY, \* attempts at the parent (REVERSE_TREE_PARENT_RETRY)
    MaxFaults,    \* bound on lost messages, deaths and aborts together
    Widths,       \* the widths and the number of nodes of the trees that
    MaxNodes      \* are looked at beside the one of this step

Rank == 0 .. num_nodes - 1
Tree == [r \in Rank |-> reverse_tree_info(r, num_nodes, width)]
parent == [r \in Rank |-> Tree[r].parent]
children == [r \in Rank |-> Tree[r].children]

ASSUME StepCompleteAssumption ==
    /\ num_nodes \in Nat \ {0} /\ width \in Nat \ {0, 1}
    /\ \A r \in Rank : Estatus[r] \in Seq(Nat) \ {<< >>}
    /\ PARENT_RETRY \in Nat \ {0} /\ MaxFaults \in Nat
    /\ Widths \subseteq Nat \ {0, 1} /\ MaxNodes \in Nat

VARIABLES
    st,             \* what each slurmstepd does
    aborted,        \* ranks whose step was aborted (job->aborted)
    wait_children,
    bits,           \* ranks below r that have completed (their bit is set)
    step_rc,
    unsent,         \* the ranges still to be sent, the first being sent
    tries,          \* attempts made at the parent for it
    jobacct,        \* jobacct[r][s]: times the use of rank s is counted at r
    acct_sent,
    ctld,           \* the messages the controller got, in order
    faults,         \* numbers of lost requests, lost replies, deaths, aborts
    clean           \* history: no attempt failed, none timed out, none aborted

step_complete == <<wait_children, bits, step_rc, jobacct>>
sending == <<unsent, tries, acct_sent>>
vars == <<st, aborted, step_complete, sending, ctld, faults, clean>>

Nothing == [s \in Rank |-> 0]
Plus(a, b) == [s \in Rank |-> a[s] + b[s]]

Init ==
    /\ st = [r \in Rank |-> "absent"]
    /\ aborted = {}
    /\ wait_children = [r \in Rank |-> TRUE]
    /\ bits = [r \in Rank |-> {}]
    /\ step_rc = [r \in Rank |-> 0]
    /\ unsent = [r \in Rank |-> << >>]
    /\ tries = [r \in Rank |-> 0]
    /\ jobacct = [r \in Rank |-> Nothing]
    /\ acct_sent = [r \in Rank |-> FALSE]
    /\ ctld = << >>
    /\ faults = [lost |-> 0, reply |-> 0, death |-> 0, abort |-> 0]
    /\ clean = TRUE

Fault(f) ==
    /\ faults.lost + faults.reply + faults.death + faults.abort < MaxFaults
    /\ faults' = [faults EXCEPT ![f] = @ + 1]

Goto(r, l) == st' = [st EXCEPT ![r] = l]

Start(r) ==
    /\ st[r] = "absent"
    /\ Goto(r, "running")
    /\ UNCHANGED <<aborted, step_complete, sending, ctld, faults, clean>>

-----------------------------------------------------------------------------
\* WIFSIGNALED
signaled(e) == e % 128 \notin {0, 127}

\* _get_exit_code: the first signalled task, else the last task and the rest.
get_exit_code(r) ==
    LET n == Len(Estatus[r])
        s == {i \in 1 .. n : signaled(Estatus[r][i])}
    IN  IF s # {} THEN Estatus[r][Min(s)] ELSE Max({step_rc[r], Estatus[r][n]})

\* The runs of ranks in set, as _bit_getrange finds them one after the other.
Ranges(set) ==
    LET first == {i \in set : i - 1 \notin set}
        last(i) == Min({j \in set : j >= i /\ j + 1 \notin set})
    IN  [k \in 1 .. Cardinality(first) |->
            LET i == CHOOSE i \in first : Cardinality({j \in first : j < i}) = k - 1
            IN  [first |-> i, last |-> last(i)]]

Own(r) == <<[first |-> r, last |-> r]>>

ToSend_whole(r) == <<[first |-> r, last |-> IF bits[r] = {} THEN r ELSE Max(bits[r])]>>

ToSend_own_apart(r) == Ranges(bits[r]) \o Own(r)

\* _send_step_complete_msgs: the own rank goes before a range that follows
\* it, and otherwise in a message of its own at the end.
ToSend(r) ==
    IF r + 1 \in bits[r] THEN Ranges(bits[r] \cup {r}) ELSE Ranges(bits[r]) \o Own(r)

\* The tasks have ended; the slurmstepd waits for the ranks below.
Finish(r) ==
    /\ st[r] = "running"
    /\ Goto(r, "waiting")
    /\ UNCHANGED <<aborted, step_complete, sending, ctld, faults, clean>>

\* _wait_for_children_slurmstepd returns: all bits set, or the time-out.
Waited(r) ==
    LET all == Cardinality(bits[r]) = children[r]
    IN  /\ st[r] = "waiting"
        /\ step_rc' = [step_rc EXCEPT ![r] = get_exit_code(r)]
        /\ wait_children' = [wait_children EXCEPT ![r] = FALSE]
        /\ unsent' = [unsent EXCEPT ![r] = ToSend(r)]
        /\ Goto(r, "sending")
        /\ clean' = (clean /\ all)
        /\ UNCHANGED <<aborted, bits, jobacct, tries, acct_sent, ctld, faults>>

\* An aborted step does not wait, and goes on taking completions.
Abort(r) ==
    /\ st[r] = "running"
    /\ Fault("abort")
    /\ unsent' = [unsent EXCEPT ![r] = ToSend(r)]
    /\ Goto(r, "sending")
    /\ aborted' = aborted \cup {r}
    /\ clean' = FALSE
    /\ UNCHANGED <<step_complete, tries, acct_sent, ctld>>

-----------------------------------------------------------------------------
\* _one_step_complete_msg

msg_acct_again(r) ==
    [first |-> Head(unsent[r]).first, last |-> Head(unsent[r]).last, rc |-> step_rc[r],
     acct |-> [jobacct[r] EXCEPT ![r] = @ + 1]]

\* The use of the rank itself is added to that of those below, and goes with
\* the first message only.
msg(r) == [first |-> Head(unsent[r]).first, last |-> Head(unsent[r]).last,
           rc |-> step_rc[r],
           acct |-> IF acct_sent[r] THEN Nothing
                    ELSE [jobacct[r] EXCEPT ![r] = @ + 1]]

\* The message has been taken: on to the next, or to the end.
Sent(r) ==
    /\ unsent' = [unsent EXCEPT ![r] = Tail(@)]
    /\ tries' = [tries EXCEPT ![r] = 0]
    /\ acct_sent' = [acct_sent EXCEPT ![r] = TRUE]
    /\ st' = [st EXCEPT ![r] = IF Len(unsent[r]) = 1 THEN "ending" ELSE @]

TryAgain(r) ==
    /\ tries' = [tries EXCEPT ![r] = @ + 1]
    /\ UNCHANGED <<st, unsent, acct_sent>>

ToParent(r) == st[r] = "sending" /\ parent[r] # -1 /\ tries[r] < PARENT_RETRY

\* The parent's _handle_completion takes the message: its slurmstepd is
\* there, does not hold step_complete.lock to send, and has not stopped waiting.
Taking(p) == st[p] \in {"running", "waiting", "ending"} /\ wait_children[p]

Handle_completion_last(p, m) ==
    /\ bits' = [bits EXCEPT ![p] = @ \cup (m.first .. m.last)]
    /\ step_rc' = [step_rc EXCEPT ![p] = m.rc]
    /\ jobacct' = [jobacct EXCEPT ![p] = Plus(@, m.acct)]
    /\ UNCHANGED wait_children

\* The bits are set whether they were set before or not.
Handle_completion(p, m) ==
    /\ bits' = [bits EXCEPT ![p] = @ \cup (m.first .. m.last)]
    /\ step_rc' = [step_rc EXCEPT ![p] = Max({@, m.rc})]
    /\ jobacct' = [jobacct EXCEPT ![p] = Plus(@, m.acct)]
    /\ UNCHANGED wait_children

SendToParent(r) ==
    /\ ToParent(r) /\ Taking(parent[r])
    /\ Handle_completion(parent[r], msg(r))
    /\ Sent(r)
    /\ UNCHANGED <<aborted, ctld, faults, clean>>

\* The parent has taken it but the reply does not come.
ParentReplyLost(r) ==
    /\ ToParent(r) /\ Taking(parent[r])
    /\ Fault("reply")
    /\ Handle_completion(parent[r], msg(r))
    /\ TryAgain(r)
    /\ clean' = FALSE
    /\ UNCHANGED <<aborted, ctld>>

\* No parent yet or any more, a parent that is done waiting, or a lost request.
ParentFails(r) ==
    /\ ToParent(r)
    /\ IF Taking(parent[r]) THEN Fault("lost") ELSE UNCHANGED faults
    /\ TryAgain(r)
    /\ clean' = FALSE
    /\ UNCHANGED <<aborted, step_complete, ctld>>

ToCtld_base(r) == st[r] = "sending" /\ parent[r] = -1

\* The base of the tree, or a slurmstepd whose parent failed it: this is
\* retried forever, so a lost request changes nothing.
ToCtld(r) == st[r] = "sending" /\ (parent[r] = -1 \/ tries[r] = PARENT_RETRY)

SendToCtld(r) ==
    /\ ToCtld(r)
    /\ ctld' = Append(ctld, msg(r))
    /\ Sent(r)
    /\ UNCHANGED <<aborted, step_complete, faults, clean>>

CtldReplyLost(r) ==
    /\ ToCtld(r)
    /\ Fault("reply")
    /\ ctld' = Append(ctld, msg(r))
    /\ clean' = FALSE
    /\ UNCHANGED <<st, aborted, step_complete, sending>>

\* The message threads are stopped and the slurmstepd exits.
Exit(r) ==
    /\ st[r] = "ending"
    /\ Goto(r, "ended")
    /\ UNCHANGED <<aborted, step_complete, sending, ctld, faults, clean>>

\* The node fails.
Die(r) ==
    /\ st[r] \notin {"ended", "dead"}
    /\ Fault("death")
    /\ Goto(r, "dead")
    /\ clean' = FALSE
    /\ UNCHANGED <<aborted, step_complete, sending, ctld>>

Step(r) ==
    \/ Start(r) \/ Finish(r) \/ Waited(r)
    \/ SendToParent(r) \/ ParentFails(r) \/ SendToCtld(r) \/ Exit(r)

Next ==
    \E r \in Rank : Step(r) \/ Abort(r) \/ ParentReplyLost(r) \/ CtldReplyLost(r) \/ Die(r)

Spec == Init /\ [][Next]_vars

\* Every slurmstepd that lives goes on, and its time-outs come.
FairSpec == Spec /\ \A r \in Rank : WF_vars(Step(r))

-----------------------------------------------------------------------------
Reported == UNION {ctld[i].first .. ctld[i].last : i \in 1 .. Len(ctld)}

Path[r \in Rank] == {r} \cup IF parent[r] = -1 THEN {} ELSE Path[parent[r]]

(***************************************************************************)
(* No rank is reported before its tasks have ended: the ranges a           *)
(* slurmstepd sends have gaps where the rank has not signalled completion. *)
(***************************************************************************)
OnlyEndedReported == \A r \in Reported : st[r] \notin {"absent", "running"}

(***************************************************************************)
(* When nothing fails the controller gets one message, for all ranks: the  *)
(* case for which _step_complete_msg_proc of the controller, which does    *)
(* not look at the range, releases the nodes once and not too early.       *)
(***************************************************************************)
OneMessage ==
    clean /\ ctld # << >> =>
        Len(ctld) = 1 /\ Reported = Rank /\ \A r \in Rank : st[r] \in {"ending", "ended"}

(***************************************************************************)
(* When nothing fails and no task was signalled, the return code that the  *)
(* controller gets is the largest exit status of the ranks' last tasks.    *)
(***************************************************************************)
WorstExitReported ==
    LET last == {Estatus[r][Len(Estatus[r])] : r \in Rank}
        unsignaled == \A r \in Rank : \A i \in 1 .. Len(Estatus[r]) : ~signaled(Estatus[r][i])
    IN  clean /\ ctld # << >> /\ unsignaled => ctld[1].rc = Max(last)

(***************************************************************************)
(* With no lost reply the use of each rank is counted at most once in what *)
(* the controller gets, however the messages went.                         *)
(***************************************************************************)
CountedOnce ==
    faults.reply = 0 =>
        \A s \in Rank : \A i, j \in 1 .. Len(ctld) :
            ctld[i].acct[s] + (IF i = j THEN 0 ELSE ctld[j].acct[s]) <= 1

(***************************************************************************)
(* Every rank is reported in the end, though its parent was not there or   *)
(* no longer waited, unless a slurmstepd on its way up died or was aborted.*)
(***************************************************************************)
AllReported ==
    <>(\A r \in Rank : r \in Reported \/ \E p \in Path[r] : st[p] = "dead" \/ p \in aborted)

(***************************************************************************)
(* It is a tree and children counts its subtrees: the ranks that follow r  *)
(* up to its children count are the subtrees of its children, which are    *)
(* disjoint.  So a completion that a slurmstepd reports for a range of     *)
(* ranks always falls into the bit string of its parent, which             *)
(* _handle_completion sets without a check.  And no slurmstepd has more    *)
(* than width children, each is one level below its parent, and max_depth  *)
(* is the depth of the deepest, which the time-out of                      *)
(* _wait_for_children_slurmstepd is computed from.                         *)
(***************************************************************************)
SubtreesAreBlocks ==
    (\A r \in Rank : st[r] = "absent") =>
        \A w \in Widths, n \in 1 .. MaxNodes : BlockTree(n, w)
=============================================================================
