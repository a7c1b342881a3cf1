CONSTANTS
  l1 = l1  l2 = l2  l3 = l3  l4 = l4
  Line = {l1, l2, l3, l4}
  workload <- MC_workload
  max_proc_thread = 2
SPECIFICATION FairSpec
INVARIANTS ThreadsBounded  
  
CHECK_DEADLOCK FALSE
