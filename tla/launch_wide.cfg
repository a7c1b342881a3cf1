CONSTANTS
  ctlA = ctlA  ctlB = ctlB
  n1 = n1  n2 = n2  n3 = n3  n4 = n4
  j1 = j1  j2 = j2  j3 = j3
  Ctrl = {ctlA, ctlB}
  Node = {n1, n2, n3, n4}
  Job = {j1, j2, j3}
  mem_list <- MC_mem_list2
  Partition <- MC_Partition_wide
  home <- MC_home_wide
  part_size = 2
  origin <- MC_origin_wide
  min_nodes <- MC_min_wide
  MaxDelivery = 1
  None = None
  NoRes = NoRes
  NoStr = NoStr
SPECIFICATION Spec
INVARIANTS NodeExclusive ResourceStringsSound
PROPERTIES ImplementsNodePool
CHECK_DEADLOCK FALSE
