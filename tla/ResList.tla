------------------------------ MODULE ResList ------------------------------
(***************************************************************************)
(* The string values of the SLURM++ controller, and the functions of       *)
(* controller/datastr.c that take them apart and put them together.        *)
(*                                                                         *)
(* A controller keeps its idle nodes in ZHT as "<count>,<n1>,<n2>,...".    *)
(* That string is the record [num, nodes]; the comma-separated node lists  *)
(* of a job are sequences of nodes.  An array of strings is a function     *)
(* from 0..size-1, whose unset entries are the empty string NoStr.         *)
(***************************************************************************)
EXTENDS Integers, Sequences, Functions

CONSTANT NoStr  \* the empty string ""

\* The values a resource string over the nodes N can have.
ResVal(N) == [num : Nat, nodes : Seq(N)]

\* _allocate_node: what a job takes from a resource string, the first k names
\* after the count, and the string left behind.  The code walks the split
\* string by the count it read, not by the number of names it holds.
allocated(seen, k) == SubSeq(seen.nodes, 1, k)

remaining(seen, k) == [num   |-> seen.num - k,
                       nodes |-> SubSeq(seen.nodes, k + 1, seen.num)]

\* MUTANT: the token of the old count is counted as a node.
merge_res_str_count(part1, part2) ==
  [num   |-> Len(part1.nodes) + 1 + Len(part2),
   nodes |-> part1.nodes \o part2]

\* merge_res_str: the count is recomputed from the tokens of both arguments
\* (c1 counts the old count as a token), and the returned nodes go last.
merge_res_str(part1, part2) ==
  LET c1 == Len(part1.nodes) + 1
      c2 == Len(part2)
  IN  [num |-> c1 + c2 - 1, nodes |-> part1.nodes \o part2]

\* find_exist: -1 when the first entry is unset or when all size entries are
\* set and differ from target; otherwise the first index that holds target OR
\* is unset.
find_exist(source, target, size) ==
  LET stops == {i \in 0 .. size - 1 : source[i] \in {target, NoStr}}
  IN  IF source[0] = NoStr \/ stops = {}
        THEN -1
        ELSE CHOOSE i \in stops : \A k \in stops : i <= k

=============================================================================
