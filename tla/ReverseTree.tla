---------------------------- MODULE ReverseTree ----------------------------
(***************************************************************************)
(* The tree along which the slurmstepds of a job step report completion:   *)
(* slurmd/slurmd/reverse_tree_math.c.  Ranks are numbered so that the      *)
(* subtree of a rank is the interval of its num_children next ranks, which *)
(* is what the bit string of a slurmstepd stands for.                      *)
(***************************************************************************)
EXTENDS Integers, FiniteSetsExt

int_pow(num, power) ==
    LET res[i \in Nat] == IF i = 0 THEN 1 ELSE num * res[i - 1] IN res[power]

\* The code divides 1 - width^(depth + 1) by 1 - width, both negative.
geometric_series(width, depth) == (int_pow(width, depth + 1) - 1) \div (width - 1)

\* What the loop of dep has added up after each round.
powers(width) ==
    LET x[i \in Nat] == IF i = 0 THEN 0 ELSE x[i - 1] + int_pow(width, i) IN x

dep_short(total, width) ==
    CHOOSE i \in 0 .. total :
        powers(width)[i] >= total - 2 /\ \A j \in 0 .. i - 1 : powers(width)[j] < total - 2

\* Rounds until there are enough.
dep(total, width) ==
    CHOOSE i \in 0 .. total :
        powers(width)[i] >= total - 1 /\ \A j \in 0 .. i - 1 : powers(width)[j] < total - 1

\* The arguments of search_tree that change from call to call.
Visit == [node : Nat, max_children : Nat, depth : Nat]

\* The i-th child of v.node, and the children between which id lies.
stride(v, width) == v.max_children \div width
current(v, width, i) == v.node + 1 + i * stride(v, width)
gap(id, v, width) ==
    {i \in 0 .. width - 1 : current(v, width, i) < id /\ id < current(v, width, i + 1)}

descend(id, v, width) ==
    [node |-> current(v, width, Min(gap(id, v, width))),
     max_children |-> stride(v, width) - 1, depth |-> v.depth + 1]

search_tree(id, width) ==
    LET search[v \in Visit] ==
            IF \E i \in 0 .. width : id = current(v, width, i)
            THEN [parent |-> v.node, children |-> stride(v, width) - 1, depth |-> v.depth + 1]
            ELSE IF gap(id, v, width) = {}
            THEN [parent |-> -1, children |-> -1, depth |-> v.depth + 1]
            ELSE search[descend(id, v, width)]
    IN  search

reverse_tree_info(rank, num_nodes, width) ==
    LET max_depth == dep(num_nodes, width)
        max_children == geometric_series(width, max_depth)
        t == search_tree(rank, width)[[node |-> 0, max_children |-> max_children, depth |-> 0]]
    IN  IF rank >= num_nodes
        THEN [parent |-> -1, children |-> -1, depth |-> -1, max_depth |-> -1]
        ELSE IF rank = 0
        THEN [parent |-> -1, children |-> num_nodes - 1, depth |-> 0, max_depth |-> max_depth]
        ELSE [parent |-> t.parent, depth |-> t.depth, max_depth |-> max_depth,
              children |-> IF rank + t.children >= num_nodes THEN num_nodes - rank - 1
                           ELSE t.children]

-----------------------------------------------------------------------------
Infos(n, w) == [r \in 0 .. n - 1 |-> reverse_tree_info(r, n, w)]

Block(info, r) == r .. r + info[r].children
ChildrenOf(info, r) == {c \in DOMAIN info : info[c].parent = r}

\* The tree of n ranks and width w is one, and children counts its subtrees.
BlockTree(n, w) == LET info == Infos(n, w) IN
    /\ {info[r].max_depth : r \in 0 .. n - 1} = {Max({info[r].depth : r \in 0 .. n - 1})}
    /\ \A r \in 0 .. n - 1 : LET below == ChildrenOf(info, r) IN
        /\ Cardinality(below) <= w
        /\ \A c \in below : info[c].depth = info[r].depth + 1
        /\ UNION {Block(info, c) : c \in below} = Block(info, r) \ {r}
        /\ \A c, d \in below : c # d => Block(info, c) \cap Block(info, d) = {}
=============================================================================
