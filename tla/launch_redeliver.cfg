CONSTANTS
  ctlA = ctlA  ctlB = ctlB
  n1 = n1  n2 = n2  n3 = n3  n4 = n4
  j1 = j1  j2 = j2  j3 = j3
  Ctrl = {ctlA, ctlB}
  Node = {n1, n2}
  Job = {j1, j2}
  mem_list <- MC_mem_list2
  Partition <- MC_Partition2
  home <- MC_home2
  part_size = 1
  origin <- MC_origin_twice
  min_nodes <- MC_min_twice
  MaxDelivery = 2
  None = None
  NoRes = NoRes
  NoStr = NoStr
SPECIFICATION Spec
INVARIANTS MainWaitsForAll
CHECK_DEADLOCK FALSE
