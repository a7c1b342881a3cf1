----------------------------- MODULE StateSave -----------------------------
(***************************************************************************)
(* How slurmctld saves its state and finds it again: the save thread of    *)
(* slurmctld/state_save.c, the requests to it, the files that a dump such  *)
(* as dump_all_job_state writes and shuffles, a crash at any step and the  *)
(* recovery by load_all_job_state.  The dumps of the six kinds of state    *)
(* have the same shape; the lines cited are those for jobs.                *)
(*                                                                         *)
(* A file has a set of names, since the shuffle works with link and unlink *)
(* and creat truncates the file that a name still stands for.  The state   *)
(* of a kind is the number of changes made to it; one that was read from a *)
(* file that is not whole is not followed further.                         *)
(***************************************************************************)
EXTENDS Integers, Sequences, FiniteSetsExt

CONSTANTS
    Kinds,          \* the kinds of state, in the order they are saved
    FileSize,       \* bytes of a state file
    TooSmall,       \* a file with fewer bytes is not recovered from (10)
    MaxChanges,     \* bound on the changes of each kind
    MaxFaults       \* bound on the crashes, errors and interrupts together

Kind == {Kinds[i] : i \in 1 .. Len(Kinds)}

ASSUME StateSaveAssumption ==
    /\ Len(Kinds) \in Nat \ {0} /\ Cardinality(Kind) = Len(Kinds)
    /\ FileSize \in Nat /\ TooSmall \in 1 .. FileSize
    /\ {MaxChanges, MaxFaults} \subseteq Nat

Name == {"old", "reg", "new"}
lost == -1   \* read from a file that is not whole; nothing, in the history

VARIABLES
    up,          \* whether slurmctld runs
    mem,         \* the state in memory
    changed,     \* kinds changed since their save was last asked for
    save,        \* kinds whose save_... counter is not 0
    run_save_thread,
    rested,      \* SAVE_MAX_WAIT seconds have passed since last_save
    saver,       \* where the save thread is
    at,          \* the kind it has come to
    buf, pos, nwrite,   \* the dump: its buffer, and the write loop
    disk,        \* the files of each kind: names of each, and its content
    bg, next,    \* the background thread, and the kind it asks for next
    faults       \* numbers of crashes, errors and interrupts so far

\* History, which no action reads: what was asked to be saved and is not yet,
\* what the last complete dump saved, whether the last dump failed, what
\* shutdown must still save.
VARIABLES asked, saved, failed, final

history == <<asked, saved, failed, final>>
requests == <<changed, save, run_save_thread, bg, next>>
dump == <<buf, pos, nwrite>>
vars == <<up, mem, requests, rested, saver, at, dump, disk, faults, history>>

Zero == [k \in Kind |-> 0]
Nothing == [k \in Kind |-> lost]

Init ==
    /\ up = TRUE /\ mem = Zero
    /\ changed = {} /\ save = {} /\ run_save_thread = TRUE /\ rested = TRUE
    /\ saver = "test" /\ at = 1
    /\ buf = 0 /\ pos = 0 /\ nwrite = 0
    /\ disk = [k \in Kind |-> {}]
    /\ bg = "run" /\ next = 1
    /\ faults = [crash |-> 0, error |-> 0, interrupt |-> 0]
    /\ asked = Nothing /\ saved = Zero /\ failed = {} /\ final = Nothing

Fault(f) ==
    /\ faults.crash + faults.error + faults.interrupt < MaxFaults
    /\ faults' = [faults EXCEPT ![f] = @ + 1]

-----------------------------------------------------------------------------
\* Threads that change state and ask for its save, and the background.

Change(k) ==
    /\ up /\ mem[k] \in 0 .. MaxChanges - 1
    /\ mem' = [mem EXCEPT ![k] = @ + 1]
    /\ changed' = changed \cup {k}
    /\ UNCHANGED <<up, save, run_save_thread, bg, next, rested, saver, at, dump, disk,
                   faults, history>>

Broadcast_nobody == saver' = saver

\* pthread_cond_broadcast(&state_save_cond).
Broadcast == saver' = IF saver = "waiting" THEN "test" ELSE saver

\* schedule_job_save and the like.
Ask(k) ==
    /\ changed' = changed \ {k}
    /\ save' = save \cup {k}
    /\ asked' = [asked EXCEPT ![k] = mem[k]]
    /\ Broadcast

Schedule(k) ==
    /\ up /\ k \in changed
    /\ Ask(k)
    /\ UNCHANGED <<up, mem, run_save_thread, bg, next, rested, at, dump, disk, faults,
                   saved, failed, final>>

\* _slurmctld_background: every PERIODIC_CHECKPOINT seconds save_all_state.
Periodic ==
    /\ up /\ bg = "run"
    /\ bg' = "periodic" /\ next' = 1
    /\ UNCHANGED <<up, mem, changed, save, run_save_thread, rested, saver, at, dump, disk,
                   faults, history>>

\* At shutdown too, unless a lock of locks.c is still set.
Shutdown ==
    /\ up /\ bg = "run"
    /\ bg' \in {"last", "ended"} /\ next' = 1
    /\ UNCHANGED <<up, mem, changed, save, run_save_thread, rested, saver, at, dump, disk,
                   faults, history>>

\* save_all_state asks for one kind after the other.
Save_all_state ==
    /\ up /\ bg \in {"periodic", "last"}
    /\ Ask(Kinds[next])
    /\ final' = IF bg = "last" THEN [final EXCEPT ![Kinds[next]] = mem[Kinds[next]]] ELSE final
    /\ IF next < Len(Kinds) THEN next' = next + 1 /\ UNCHANGED bg
       ELSE next' = 1 /\ bg' = IF bg = "last" THEN "ended" ELSE "run"
    /\ UNCHANGED <<up, mem, run_save_thread, rested, at, dump, disk, faults, saved, failed>>

Shutdown_state_save ==
    /\ up /\ bg = "ended"
    /\ run_save_thread' = FALSE
    /\ bg' = "stopped"
    /\ Broadcast
    /\ UNCHANGED <<up, mem, changed, save, next, rested, at, dump, disk, faults, history>>

-----------------------------------------------------------------------------
\* slurmctld_state_save

\* The delay counted from last_save is over.
Tick ==
    /\ up /\ ~rested
    /\ rested' = TRUE
    /\ UNCHANGED <<up, mem, requests, saver, at, dump, disk, faults, history>>

\* Work to do, and time to do it.
StartWork ==
    /\ up /\ saver = "test"
    /\ save # {} /\ (~run_save_thread \/ rested)
    /\ rested' = FALSE
    /\ saver' = "take" /\ at' = 1
    /\ UNCHANGED <<up, mem, requests, dump, disk, faults, history>>

\* Shutdown: the flag is put back for the next run of the thread.
Exit_first ==
    /\ up /\ saver = "test" /\ ~run_save_thread
    /\ run_save_thread' = TRUE
    /\ saver' = "exited"
    /\ UNCHANGED <<up, mem, changed, save, bg, next, rested, at, dump, disk, faults, history>>

Exit ==
    /\ up /\ saver = "test" /\ ~run_save_thread /\ save = {}
    /\ run_save_thread' = TRUE
    /\ saver' = "exited"
    /\ UNCHANGED <<up, mem, changed, save, bg, next, rested, at, dump, disk, faults, history>>

\* Nothing to do: wait for a request.  With work but too early, the thread
\* waits one second at a time, which is staying at the test.
Wait ==
    /\ up /\ saver = "test" /\ run_save_thread /\ save = {}
    /\ saver' = "waiting"
    /\ UNCHANGED <<up, mem, requests, rested, at, dump, disk, faults, history>>

NextKind == /\ saver' = IF at = Len(Kinds) THEN "test" ELSE "take"
            /\ at' = IF at = Len(Kinds) THEN 1 ELSE at + 1

\* free_buf, and on to the next kind.
EndDump == /\ buf' = 0 /\ pos' = 0 /\ nwrite' = 0
           /\ NextKind

\* The request of the next kind is cleared before its state is dumped.
Take ==
    /\ up /\ saver = "take"
    /\ save' = save \ {Kinds[at]}
    /\ IF Kinds[at] \in save THEN saver' = "pack" /\ UNCHANGED at ELSE NextKind
    /\ UNCHANGED <<up, mem, changed, run_save_thread, bg, next, rested, dump, disk, faults, history>>

-----------------------------------------------------------------------------
\* dump_all_job_state

k0 == Kinds[at]

\* The file of that name, as a set of at most one: two names may be linked to
\* one file.
Named(k, n) == {f \in disk[k] : n \in f.names}

Replace(old, new) == disk' = [disk EXCEPT ![k0] = (@ \ old) \cup new]

\* unlink: a file without a name is gone.
Remove(n) ==
    Replace(Named(k0, n), {f \in {[g EXCEPT !.names = @ \ {n}] : g \in Named(k0, n)} :
                               f.names # {}})

\* Under the read lock, the state goes into the buffer.
Pack ==
    /\ up /\ saver = "pack"
    /\ buf' = mem[k0]
    /\ saver' = "create"
    /\ UNCHANGED <<up, mem, requests, rested, at, pos, nwrite, disk, faults, history>>

\* creat: an existing file is truncated, under all its names.
Create ==
    /\ up /\ saver = "create"
    /\ Replace(Named(k0, "new"),
               {[names |-> {"new"} \cup UNION {f.names : f \in Named(k0, "new")},
                 v |-> buf, bytes |-> << >>]})
    /\ pos' = 0 /\ nwrite' = FileSize
    /\ saver' = "write"
    /\ UNCHANGED <<up, mem, requests, rested, at, buf, faults, history>>

\* write: some of the bytes left, or -1 with EINTR, which the loop subtracts
\* and adds like any other amount.
Write(amount) ==
    /\ up /\ saver = "write" /\ nwrite > 0
    /\ nwrite' = nwrite - amount
    /\ pos' = pos + amount
    /\ Replace(Named(k0, "new"),
               {[f EXCEPT !.bytes = @ \o [j \in 1 .. Max({amount, 0}) |-> pos + j - 1]] :
                    f \in Named(k0, "new")})
    /\ UNCHANGED <<up, mem, requests, rested, saver, at, buf, history>>

WriteSome ==
    /\ \E amount \in 1 .. nwrite : Write(amount)
    /\ UNCHANGED faults

Interrupted ==
    /\ Write(-1)
    /\ Fault("interrupt")

\* All written and synced.
Synced ==
    /\ up /\ saver = "write" /\ nwrite = 0
    /\ saver' = "unlink_old"
    /\ UNCHANGED <<up, mem, requests, rested, at, dump, disk, faults, history>>

\* creat, write, fsync or close fails: the new file is removed, the request
\* is not made again.
DumpFails ==
    /\ up /\ saver \in {"create", "write"}
    /\ Fault("error")
    /\ Remove("new")
    /\ failed' = failed \cup {k0}
    /\ EndDump
    /\ UNCHANGED <<up, mem, requests, rested, asked, saved, final>>

\* The file shuffle: link fails when there is nothing to link.
Unlink(n, here, then) ==
    /\ up /\ saver = here
    /\ Remove(n)
    /\ saver' = then
    /\ UNCHANGED <<up, mem, requests, rested, at, dump, faults, history>>

Link(from, to, here, then) ==
    /\ up /\ saver = here
    /\ Replace(Named(k0, from), {[f EXCEPT !.names = @ \cup {to}] : f \in Named(k0, from)})
    /\ saver' = then
    /\ UNCHANGED <<up, mem, requests, rested, at, dump, faults, history>>

Shuffle_straight ==
    \/ Unlink("old", "unlink_old", "unlink_reg")
    \/ Unlink("reg", "unlink_reg", "link_reg")
    \/ Link("new", "reg", "link_reg", "unlink_new")

Shuffle ==
    \/ Unlink("old", "unlink_old", "link_old")
    \/ Link("reg", "old", "link_old", "unlink_reg")
    \/ Unlink("reg", "unlink_reg", "link_reg")
    \/ Link("new", "reg", "link_reg", "unlink_new")

\* What of h the dump now ending has not saved.
Pending(h) == [h EXCEPT ![k0] = IF @ <= buf THEN lost ELSE @]

DumpDone_clears ==
    /\ up /\ saver = "unlink_new"
    /\ save' = save \ {k0}
    /\ Remove("new")
    /\ saved' = [saved EXCEPT ![k0] = buf]
    /\ failed' = failed \ {k0}
    /\ asked' = Pending(asked) /\ final' = Pending(final)
    /\ EndDump
    /\ UNCHANGED <<up, mem, changed, run_save_thread, bg, next, rested, faults>>

\* The last unlink ends the dump.
DumpDone ==
    /\ up /\ saver = "unlink_new"
    /\ Remove("new")
    /\ saved' = [saved EXCEPT ![k0] = buf]
    /\ failed' = failed \ {k0}
    /\ asked' = Pending(asked) /\ final' = Pending(final)
    /\ EndDump
    /\ UNCHANGED <<up, mem, requests, rested, faults>>

-----------------------------------------------------------------------------
\* slurmctld ends at any point and only the files are left.
Crash ==
    /\ up
    /\ up' = FALSE
    /\ Fault("crash")
    /\ mem' = Zero
    /\ changed' = {} /\ save' = {} /\ run_save_thread' = TRUE /\ rested' = TRUE
    /\ saver' = "test" /\ at' = 1 /\ bg' = "run" /\ next' = 1
    /\ buf' = 0 /\ pos' = 0 /\ nwrite' = 0
    /\ asked' = Nothing /\ failed' = {} /\ final' = Nothing
    /\ UNCHANGED <<disk, saved>>

\* _open_job_state_file and the loading of all its records.
Load(k) ==
    LET good == {f \in Named(k, "reg") : Len(f.bytes) >= TooSmall}
        from == IF good # {} THEN good ELSE Named(k, "old")
        whole == {f \in from : f.bytes = [j \in 1 .. FileSize |-> j - 1]}
    IN  IF from = {} THEN 0 ELSE IF whole = {} THEN lost ELSE (CHOOSE f \in whole : TRUE).v

\* With nothing recovered slurmctld starts from nothing.
Restart ==
    /\ ~up
    /\ up' = TRUE
    /\ mem' = [k \in Kind |-> Load(k)]
    /\ UNCHANGED <<requests, rested, saver, at, dump, disk, faults, history>>

Saver ==
    \/ StartWork \/ Exit \/ Wait \/ Take \/ Pack \/ Create \/ WriteSome \/ Synced
    \/ Shuffle \/ DumpDone

Next ==
    \/ \E k \in Kind : Change(k) \/ Schedule(k)
    \/ Periodic \/ Shutdown \/ Save_all_state \/ Shutdown_state_save
    \/ Tick \/ Saver \/ Interrupted \/ DumpFails
    \/ Crash \/ Restart

Spec == Init /\ [][Next]_vars

\* The save thread runs, time passes, and the background saves periodically.
FairSpec ==
    Spec /\ WF_vars(Saver) /\ WF_vars(Tick) /\ WF_vars(Periodic) /\ WF_vars(Save_all_state)

-----------------------------------------------------------------------------
(***************************************************************************)
(* After a crash at any step of a dump, load_all_job_state recovers a      *)
(* whole file, at least as new as the last complete save: "recover from    *)
(* last checkpoint" (job_mgr.c:578), if it is the first crash and no write *)
(* was interrupted.                                                        *)
(***************************************************************************)
RecoversTheLastSave ==
    [][~up /\ up' /\ faults.interrupt = 0 /\ faults.crash = 1 =>
          \A k \in Kind : mem'[k] # lost /\ mem'[k] >= saved[k]]_vars

(***************************************************************************)
(* The save thread forgets no request: when it is at its test with nothing *)
(* asked, all state whose save was asked for is on disk, though it may     *)
(* have been changed and asked for while it was being dumped, unless the   *)
(* dump failed.                                                            *)
(***************************************************************************)
RequestsAreKept ==
    up /\ saver \in {"test", "waiting", "exited"} =>
        \A k \in Kind \ (save \cup failed) : saved[k] >= asked[k]

(***************************************************************************)
(* slurmctld's shutdown saves everything: once the save thread has exited, *)
(* what save_all_state asked for at shutdown is on disk.                   *)
(***************************************************************************)
ShutdownSavesAll ==
    up /\ saver = "exited" => \A k \in Kind \ failed : saved[k] >= final[k]

(***************************************************************************)
(* Every change whose save is asked for is saved in the end, though a dump *)
(* may fail, unless slurmctld crashes or is shut down before.              *)
(***************************************************************************)
ScheduledIsSaved ==
    \A k \in Kind : \A v \in 1 .. MaxChanges :
        (asked[k] = v) ~>
            (saved[k] >= v \/ ~up \/ bg \in {"last", "ended", "stopped"})

=============================================================================
