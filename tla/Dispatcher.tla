----------------------------- MODULE Dispatcher -----------------------------
(***************************************************************************)
(* The main thread of one SLURM++ controller, from the moment the          *)
(* controller is ready: it starts a thread per line of the workload, not   *)
(* more than max_proc_thread at a time, waits for the counters of finished *)
(* and failed jobs, prints the result and closes the job output file.      *)
(* The job threads and the completion handlers write that file and update  *)
(* the counters meanwhile.                                                 *)
(*                                                                         *)
(* How a job gets its nodes is in JobLaunch; here it is part of one step,  *)
(* and it succeeds, as it does for jobs with nodes of one partition.       *)
(* Source: main, _job_proc, _step_complete_msg_proc and _print_result of   *)
(* controller/controller.c; drun_proc, _create_srun_job and                *)
(* check_job_belong of controller/pro_req.c.                               *)
(***************************************************************************)
EXTENDS Integers, Sequences, FiniteSets

CONSTANTS
  Line,            \* the lines of the workload file
  workload,        \* their order
  max_proc_thread

ASSUME DispatcherAssumption ==
  /\ IsFiniteSet(Line)
  /\ workload \in Seq(Line)
  /\ \A i, k \in 1 .. Len(workload) : workload[i] = workload[k] => i = k
  /\ \A l \in Line : \E i \in 1 .. Len(workload) : workload[i] = l
  /\ max_proc_thread \in Nat

num_job == Len(workload)

\* "fit": srun with enough nodes in the system, "large": srun with too few,
\* "other": any other line.
Kind == {"fit", "large", "other"}

VARIABLES
  kind,             \* what each line of the workload is
  main,             \* where main is
  queue,            \* job_queue
  pc,               \* where the thread of a line is
  handler,          \* where the completion handler of a line is
  here,             \* "yes" when the completion comes to this controller
  num_proc_thread, num_job_fin, num_job_fail,
  closed,           \* fclose(job_output_file) was called
  late              \* kinds of records written after that

vars == <<kind, main, queue, pc, handler, here, num_proc_thread, num_job_fin,
          num_job_fail, closed, late>>

Init ==
  /\ kind \in [Line -> Kind]
  /\ main = "launch"
  /\ queue = workload
  /\ pc = [l \in Line |-> "queued"]
  /\ handler = [l \in Line |-> "none"]
  /\ here = [l \in Line |-> "unknown"]
  /\ num_proc_thread = 0 /\ num_job_fin = 0 /\ num_job_fail = 0
  /\ closed = FALSE /\ late = {}

\* fprintf(job_output_file, ...) under job_output_mutex.
Write(rec) == late' = IF closed THEN late \cup {rec} ELSE late
-----------------------------------------------------------------------------
(* main *)

\* MUTANT: one thread too many.
ForkJob_one_more ==
  /\ main = "launch" /\ queue # << >> /\ num_proc_thread <= max_proc_thread
  /\ pc' = [pc EXCEPT ![Head(queue)] = "begin"]
  /\ queue' = Tail(queue)
  /\ main' = "count"
  /\ UNCHANGED <<kind, handler, here, num_proc_thread, num_job_fin,
                 num_job_fail, closed, late>>

\* The test reads num_proc_thread without its mutex.
ForkJob ==
  /\ main = "launch" /\ queue # << >> /\ num_proc_thread < max_proc_thread
  /\ pc' = [pc EXCEPT ![Head(queue)] = "begin"]
  /\ queue' = Tail(queue)
  /\ main' = "count"
  /\ UNCHANGED <<kind, handler, here, num_proc_thread, num_job_fin,
                 num_job_fail, closed, late>>

\* The thread is counted after it was created.
CountThread ==
  /\ main = "count"
  /\ num_proc_thread' = num_proc_thread + 1
  /\ main' = "launch"
  /\ UNCHANGED <<kind, queue, pc, handler, here, num_job_fin, num_job_fail,
                 closed, late>>

QueueEmpty ==
  /\ main = "launch" /\ queue = << >>
  /\ main' = "wait"
  /\ UNCHANGED <<kind, queue, pc, handler, here, num_proc_thread, num_job_fin,
                 num_job_fail, closed, late>>

\* MUTANT: main does not wait for the last job.
Report_early ==
  /\ main = "wait" /\ num_job_fin + num_job_fail >= num_job - 1
  /\ closed' = TRUE
  /\ main' = "asleep"
  /\ UNCHANGED <<kind, queue, pc, handler, here, num_proc_thread, num_job_fin,
                 num_job_fail, late>>

\* _print_result, then sleep(10000).
Report ==
  /\ main = "wait" /\ num_job_fin + num_job_fail >= num_job
  /\ closed' = TRUE
  /\ main' = "asleep"
  /\ UNCHANGED <<kind, queue, pc, handler, here, num_proc_thread, num_job_fin,
                 num_job_fail, late>>
-----------------------------------------------------------------------------
(* the thread of line l *)

\* _job_proc: only srun is implemented.
NotSrun(l) ==
  /\ pc[l] = "begin" /\ kind[l] = "other"
  /\ pc' = [pc EXCEPT ![l] = "exited"]
  /\ UNCHANGED <<kind, main, queue, handler, here, num_proc_thread,
                 num_job_fin, num_job_fail, closed, late>>

StartRecord(l) ==
  /\ pc[l] = "begin" /\ kind[l] # "other"
  /\ Write("start")
  /\ pc' = [pc EXCEPT ![l] = "create"]
  /\ UNCHANGED <<kind, main, queue, handler, here, num_proc_thread,
                 num_job_fin, num_job_fail, closed>>

\* MUTANT: the failed job is not counted.
GiveUp_uncounted(l) ==
  /\ pc[l] = "create" /\ kind[l] = "large"
  /\ UNCHANGED num_job_fail
  /\ pc' = [pc EXCEPT ![l] = "exited"]
  /\ UNCHANGED <<kind, main, queue, handler, here, num_proc_thread,
                 num_job_fin, closed, late>>

\* _create_srun_job gives up: pthread_exit, past the end of drun_proc.
GiveUp(l) ==
  /\ pc[l] = "create" /\ kind[l] = "large"
  /\ num_job_fail' = num_job_fail + 1
  /\ pc' = [pc EXCEPT ![l] = "exited"]
  /\ UNCHANGED <<kind, main, queue, handler, here, num_proc_thread,
                 num_job_fin, closed, late>>

LaunchRecord(l) ==
  /\ pc[l] = "create" /\ kind[l] = "fit"
  /\ Write("launch")
  /\ pc' = [pc EXCEPT ![l] = "launch"]
  /\ UNCHANGED <<kind, main, queue, handler, here, num_proc_thread,
                 num_job_fin, num_job_fail, closed>>

\* launch_g_step_launch_1; the nodes decide who will be told of the end.
Launch(l, h) ==
  /\ pc[l] = "launch"
  /\ here' = [here EXCEPT ![l] = h]
  /\ pc' = [pc EXCEPT ![l] = "launched"]
  /\ UNCHANGED <<kind, main, queue, handler, num_proc_thread, num_job_fin,
                 num_job_fail, closed, late>>

\* MUTANT: the thread waits for a notification wherever the job ended.
FreeThreadSlot_waits(l) ==
  /\ pc[l] = "launched"
  /\ num_proc_thread' = num_proc_thread - 1
  /\ pc' = [pc EXCEPT ![l] = "notify"]
  /\ UNCHANGED <<kind, main, queue, handler, here, num_job_fin, num_job_fail,
                 closed, late>>

\* MUTANT: the slot is kept.
FreeThreadSlot_never(l) ==
  /\ pc[l] = "launched"
  /\ UNCHANGED num_proc_thread
  /\ pc' = [pc EXCEPT ![l] = IF here[l] = "yes" THEN "exited" ELSE "notify"]
  /\ UNCHANGED <<kind, main, queue, handler, here, num_job_fin, num_job_fail,
                 closed, late>>

FreeThreadSlot(l) ==
  /\ pc[l] = "launched"
  /\ num_proc_thread' = num_proc_thread - 1
  /\ pc' = [pc EXCEPT ![l] = IF here[l] = "yes" THEN "exited" ELSE "notify"]
  /\ UNCHANGED <<kind, main, queue, handler, here, num_job_fin, num_job_fail,
                 closed, late>>

\* check_job_belong, when another controller has reported the end.  The counters
\* are read before the mutex is taken.
Notified(l) ==
  /\ pc[l] = "notify"
  /\ pc' = [pc EXCEPT ![l] = IF num_job_fin + num_job_fail < num_job
                               THEN "count" ELSE "exited"]
  /\ UNCHANGED <<kind, main, queue, handler, here, num_proc_thread,
                 num_job_fin, num_job_fail, closed, late>>

CountNotified(l) ==
  /\ pc[l] = "count"
  /\ num_job_fin' = num_job_fin + 1
  /\ pc' = [pc EXCEPT ![l] = "record"]
  /\ UNCHANGED <<kind, main, queue, handler, here, num_proc_thread,
                 num_job_fail, closed, late>>

NotifiedRecord(l) ==
  /\ pc[l] = "record"
  /\ Write("end")
  /\ pc' = [pc EXCEPT ![l] = "exited"]
  /\ UNCHANGED <<kind, main, queue, handler, here, num_proc_thread,
                 num_job_fin, num_job_fail, closed>>
-----------------------------------------------------------------------------
(* the end of _step_complete_msg_proc, for a job of this controller *)

Complete(l) ==
  /\ here[l] = "yes" /\ handler[l] = "none"
  /\ num_job_fin' = num_job_fin + 1
  /\ handler' = [handler EXCEPT ![l] = "record"]
  /\ UNCHANGED <<kind, main, queue, pc, here, num_proc_thread, num_job_fail,
                 closed, late>>

CompleteRecord(l) ==
  /\ handler[l] = "record"
  /\ Write("end")
  /\ handler' = [handler EXCEPT ![l] = "done"]
  /\ UNCHANGED <<kind, main, queue, pc, here, num_proc_thread, num_job_fin,
                 num_job_fail, closed>>
-----------------------------------------------------------------------------
Main == ForkJob \/ CountThread \/ QueueEmpty \/ Report

Thread(l) ==
  \/ NotSrun(l) \/ StartRecord(l) \/ GiveUp(l) \/ LaunchRecord(l)
  \/ \E h \in {"yes", "no"} : Launch(l, h)
  \/ FreeThreadSlot(l) \/ Notified(l) \/ CountNotified(l) \/ NotifiedRecord(l)

Handler(l) == Complete(l) \/ CompleteRecord(l)

Next == Main \/ \E l \in Line : Thread(l) \/ Handler(l)

Spec == Init /\ [][Next]_vars

\* Threads are scheduled, steps end, and their end is reported.
FairSpec ==
  /\ Spec /\ WF_vars(Main)
  /\ \A l \in Line : WF_vars(Thread(l)) /\ WF_vars(Handler(l))
-----------------------------------------------------------------------------
Label == {"queued", "begin", "create", "launch", "launched", "notify", "count",
          "record", "exited"}

\* Every variable keeps its type.  num_proc_thread is -1 when a thread gives its
\* slot back before main has counted it.
TypeOK ==
  /\ kind \in [Line -> Kind]
  /\ main \in {"launch", "count", "wait", "asleep"}
  /\ queue \in Seq(Line)
  /\ pc \in [Line -> Label]
  /\ handler \in [Line -> {"none", "record", "done"}]
  /\ here \in [Line -> {"unknown", "yes", "no"}]
  /\ num_proc_thread \in Int /\ num_proc_thread >= -1
  /\ num_job_fin \in Nat /\ num_job_fail \in Nat
  /\ closed \in BOOLEAN
  /\ late \in SUBSET {"start", "launch", "end"}

Launching(l) == pc[l] \in {"begin", "create", "launch", "launched"}

\* Although the counter lags behind the threads and is read unlocked, no more
\* than max_proc_thread of them are busy launching at a time.
ThreadsBounded ==
  Cardinality({l \in Line : Launching(l)}) <= max_proc_thread

\* When main closes the file no thread has its start or launch record still to
\* write.  (The end record comes after the counter and can be late.)
OnlyEndRecordLate == late \subseteq {"end"}

\* No job is counted twice, by its handler and by its waiting thread or by two
\* of either: the counters never pass the number of lines.
CountersBounded == num_job_fin + num_job_fail <= num_job

\* The lines that take a thread slot and never give it back, but for the last
\* line of the workload, are fewer than the slots.
SlotsLeft ==
  Cardinality({i \in 1 .. num_job - 1 : kind[workload[i]] # "fit"}) < max_proc_thread

\* "as long as there are still jobs in the queue, forks a launching thread"
\* (main): the queue is emptied in the end, unless the lines that are given up
\* or are not srun have used up the slots; then main never gets there.
QueueDrains ==
  /\ SlotsLeft ~> queue = << >>
  /\ [](queue = << >> => SlotsLeft)

\* "blocked until all jobs are finished" (main): main reports in the end, and
\* does so for no other workloads than those of srun lines that leave it a slot.
MainReports ==
  LET ends == SlotsLeft /\ \A l \in Line : kind[l] # "other"
  IN  /\ ends ~> main = "asleep"
      /\ [](main = "asleep" => ends)
=============================================================================
