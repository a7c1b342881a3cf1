--------------------------- MODULE JobLaunchPool ---------------------------
(***************************************************************************)
(* The launch protocol implements the pool of nodes of NodePool, whose     *)
(* nodes change hands in one step.                                         *)
(***************************************************************************)
EXTENDS JobLaunch

\* The owner of a node, as NodePool sees it.
Owner(n) ==
  IF \E c \in Ctrl : n \in Free(c) THEN "idle"
  ELSE IF \E j \in Job : n \in Holds(j) THEN CHOOSE j \in Job : n \in Holds(j)
  ELSE IF res[home[n]] = NoRes THEN "unregistered" ELSE "lost"

Pool == INSTANCE NodePool WITH
          Unregistered <- "unregistered", Idle <- "idle", Lost <- "lost",
          owner <- [n \in Node |-> Owner(n)]

\* The compare-and-swap protocol implements the pool of nodes: in one step
\* nodes go from the idle ones to one job or back, never from a job to another,
\* and a node that a failed release forgot never comes back to life.
ImplementsNodePool == Pool!Spec
=============================================================================
