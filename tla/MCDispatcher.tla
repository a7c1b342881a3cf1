---------------------------- MODULE MCDispatcher ----------------------------
(* A workload for TLC; Init lets every line be of any kind. *)
EXTENDS Dispatcher

CONSTANTS l1, l2, l3, l4

MC_workload == <<l1, l2, l3, l4>>
=============================================================================
