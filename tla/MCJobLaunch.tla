---------------------------- MODULE MCJobLaunch ----------------------------
(***************************************************************************)
(* Instances of JobLaunch for TLC: partitions of one node, the only size   *)
(* for which Registration lets a controller become ready, and for the      *)
(* launch protocol by itself a partition of two.                           *)
(***************************************************************************)
EXTENDS JobLaunchPool, TLC

CONSTANTS ctlA, ctlB, n1, n2, n3, n4, j1, j2, j3

MC_mem_list2 == <<ctlA, ctlB>>
MC_Partition2 == (ctlA :> <<n1>>) @@ (ctlB :> <<n2>>)
MC_home2 == (n1 :> ctlA) @@ (n2 :> ctlB)
\* Three single-node jobs for two nodes.
MC_origin_single == (j1 :> ctlA) @@ (j2 :> ctlA) @@ (j3 :> ctlB)
MC_min_single == (j1 :> 1) @@ (j2 :> 1) @@ (j3 :> 1)

\* Two jobs of one controller, for completions that come twice.
MC_origin_twice == (j1 :> ctlA) @@ (j2 :> ctlA)
MC_min_twice == (j1 :> 1) @@ (j2 :> 1)

\* Two jobs that each want both nodes.
MC_origin_hold == (j1 :> ctlA) @@ (j2 :> ctlB)
MC_min_hold == (j1 :> 2) @@ (j2 :> 2)

\* Partitions of two nodes, with a job that spans them, a job of one node, and
\* one that is larger than the system.
MC_Partition_wide == (ctlA :> <<n1, n2>>) @@ (ctlB :> <<n3, n4>>)
MC_home_wide == (n1 :> ctlA) @@ (n2 :> ctlA) @@ (n3 :> ctlB) @@ (n4 :> ctlB)
MC_origin_wide == (j1 :> ctlA) @@ (j2 :> ctlA) @@ (j3 :> ctlB)
MC_min_wide == (j1 :> 3) @@ (j2 :> 1) @@ (j3 :> 5)
=============================================================================
