------------------------- MODULE StepCompleteProofs -------------------------
(***************************************************************************)
(* Proofs about module StepComplete, for any number of ranks, any width    *)
(* and any faults: what the controller gets of a step that is over.        *)
(***************************************************************************)
EXTENDS StepComplete, ReverseTreeProofs

\* The trees of reverse_tree_info are trees of blocks, whatever widths and numbers of
\* ranks are looked at (SubtreesAreBlocks).
THEOREM TreesAreBlocks == Spec => []SubtreesAreBlocks
<1>1. SubtreesAreBlocks
  <2>1. \A w \in Widths, n \in 1 .. MaxNodes : BlockTree(n, w)
    BY EveryTreeIsBlocks, StepCompleteAssumption
  <2> QED BY <2>1, Zenon DEF SubtreesAreBlocks
<1>2. SubtreesAreBlocks'
  BY EveryTreeIsBlocks, StepCompleteAssumption DEF SubtreesAreBlocks
<1> QED BY <1>1, <1>2, PTL DEF Spec

-----------------------------------------------------------------------------
\* The types, and that a slurmstepd that sends has something to send.
States == {"absent", "running", "waiting", "sending", "ending", "ended", "dead"}
Piece == [first : Rank, last : Rank]
Message == [first : Rank, last : Rank, rc : Nat, acct : [Rank -> Nat]]

SType ==
  /\ st \in [Rank -> States]
  /\ aborted \in SUBSET Rank
  /\ wait_children \in [Rank -> BOOLEAN]
  /\ bits \in [Rank -> SUBSET Rank]
  /\ step_rc \in [Rank -> Nat]
  /\ unsent \in [Rank -> Seq(Piece)]
  /\ tries \in [Rank -> Nat]
  /\ jobacct \in [Rank -> [Rank -> Nat]]
  /\ acct_sent \in [Rank -> BOOLEAN]
  /\ ctld \in Seq(Message)
  /\ faults \in [lost : Nat, reply : Nat, death : Nat, abort : Nat]
  /\ clean \in BOOLEAN
  /\ \A r \in Rank : st[r] = "sending" => unsent[r] # << >>

\* The ranks whose tasks have ended, those that send or have sent, and those that have
\* sent all.
Ended == {s \in Rank : st[s] \notin {"absent", "running"}}
Told == {s \in Rank : st[s] \in {"sending", "ending", "ended"}}
Done == {s \in Rank : st[s] \in {"ending", "ended"}}

\* The exit status of the last task of r.
LastTask(r) == Estatus[r][Len(Estatus[r])]
unsignaled == \A r \in Rank : \A i \in 1 .. Len(Estatus[r]) : ~signaled(Estatus[r][i])

\* The bits and the ranges to be sent of r are in the block of r in the tree, and of ranks
\* that have ended; so is what the controller has got.
RInv == \A r \in Rank :
  /\ bits[r] \subseteq r + 1 .. r + children[r]
  /\ bits[r] \subseteq Ended
  /\ \A k \in 1 .. Len(unsent[r]) :
       unsent[r][k].first .. unsent[r][k].last \subseteq (r .. r + children[r]) \cap Ended

CtldEnded == \A i \in 1 .. Len(ctld) : ctld[i].first .. ctld[i].last \subseteq Ended

\* What the protocol needs to know of the tree.
LEMMA TreeFacts ==
  /\ \A r \in Rank : children[r] \in Nat /\ r + children[r] <= num_nodes - 1
  /\ 0 \in Rank /\ parent[0] = -1 /\ children[0] = num_nodes - 1
  /\ \A r \in Rank : r # 0 => /\ parent[r] \in Rank /\ parent[r] < r
                              /\ r + children[r] <= parent[r] + children[parent[r]]
<1> USE StepCompleteAssumption
<1> DEFINE info == Infos(num_nodes, width)
<1>1. \A r \in Rank : parent[r] = info[r].parent /\ children[r] = info[r].children
  BY Zenon DEF parent, children, Tree, Infos, Rank
<1>2. \A r \in Rank : children[r] \in Nat /\ r + children[r] <= num_nodes - 1
  <2> SUFFICES ASSUME NEW r \in Rank PROVE children[r] \in Nat /\ r + children[r] <= num_nodes - 1
    BY Zenon
  <2>1. r \in 0 .. num_nodes - 1
    BY Zenon DEF Rank
  <2>2. info[r].children \in Nat /\ r + info[r].children <= num_nodes - 1
    BY <2>1, Shape, Zenon
  <2> QED BY <1>1, <2>2, Zenon
<1>3. 0 \in Rank
  BY DEF Rank
<1>4. parent[0] = -1 /\ children[0] = num_nodes - 1
  BY <1>1, <1>3, RootInfo
<1>5. ASSUME NEW r \in Rank, r # 0
      PROVE  parent[r] \in Rank /\ parent[r] < r /\ r + children[r] <= parent[r] + children[parent[r]]
  <2>1. info[r].parent \in 0 .. r - 1
    BY <1>5, Shape, Zenon DEF Rank
  <2>2. PICK p \in Rank : p = parent[r] /\ p < r
    BY <1>1, <2>1 DEF Rank
  <2>3. r \in ChildrenOf(info, p)
    BY <1>1, <2>2, Zenon DEF ChildrenOf, Infos, Rank
  <2>4. PICK x \in Nat, y \in Nat : x = children[r] /\ y = children[p]
    BY <1>2, Zenon
  <2>5. r + x \in Block(info, r)
    BY <1>1, <2>4 DEF Block, Rank
  <2>6. UNION {Block(info, c) : c \in ChildrenOf(info, p)} = Block(info, p) \ {p}
    BY BlocksCover DEF Rank
  <2>7. r + x \in Block(info, p)
    <3> HIDE DEF info
    <3> QED BY <2>3, <2>5, <2>6, Zenon
  <2>8. r + x \in p .. p + y
    BY <1>1, <2>2, <2>4, <2>7, Zenon DEF Block
  <2>9. r + x <= p + y
    BY <2>8, <2>4 DEF Rank
  <2> QED BY <2>2, <2>4, <2>9, Zenon
<1> QED BY <1>2, <1>3, <1>4, <1>5, Zenon

\* A finite set of naturals can be counted off from below.
LEMMA CountOff ==
  ASSUME NEW A \in SUBSET Nat, IsFiniteSet(A)
  PROVE  \A k \in 1 .. Cardinality(A) : \E i \in A : Cardinality({j \in A : j < i}) = k - 1
<1> DEFINE lower(i) == {j \in A : j < i}
           E == {k \in Nat : k < Cardinality(A) => \E i \in A : Cardinality(lower(i)) = k}
<1>0. Cardinality(A) \in Nat
  BY FS_CardinalityType, Zenon
<1>1. 0 \in E
  <2> SUFFICES ASSUME 0 < Cardinality(A) PROVE \E i \in A : Cardinality(lower(i)) = 0
    BY Zenon
  <2>1. A # {}
    BY FS_EmptySet
  <2>2. PICK i \in A : \A j \in A : i <= j
    BY <2>1, NatMin, Zenon
  <2>3. lower(i) = {}
    <3>1. \A j \in A : ~ (j < i)
      BY <2>2
    <3> QED BY <3>1, Zenon
  <2> HIDE DEF lower
  <2> QED BY <2>3, FS_EmptySet, Zenon
<1>2. ASSUME NEW k \in Nat, k \in E PROVE k + 1 \in E
  <2> SUFFICES ASSUME k + 1 < Cardinality(A) PROVE \E i \in A : Cardinality(lower(i)) = k + 1
    OBVIOUS
  <2>1. k < Cardinality(A)
    BY <1>0
  <2>2. PICK i \in A : Cardinality(lower(i)) = k
    BY <1>2, <2>1, Zenon
  <2>3. IsFiniteSet(lower(i)) /\ i \notin lower(i)
    <3>1. lower(i) \in SUBSET A /\ i \notin lower(i)
      OBVIOUS
    <3> HIDE DEF lower
    <3> QED BY <3>1, FS_Subset, Zenon
  <2> DEFINE B == lower(i) \cup {i}
  <2>4. Cardinality(B) = k + 1
    <3> HIDE DEF lower
    <3> QED BY <2>2, <2>3, FS_AddElement, Zenon
  <2>5. B \in SUBSET A
    BY Zenon
  <2>6. A \ B # {}
    <3> HIDE DEF B
    <3>1. B # A
      BY <2>4, <1>0
    <3> QED BY <3>1, <2>5, Zenon
  <2>7. PICK i1 \in A \ B : \A j \in A \ B : i1 <= j
    <3>1. A \ B \in SUBSET Nat
      BY Zenon
    <3> HIDE DEF B
    <3> QED BY <2>6, <3>1, NatMin, Zenon
  <2>8. lower(i1) = B
    <3>1. \A j \in A : j \in B <=> j <= i
      OBVIOUS
    <3>2. i < i1 /\ i1 \in A
      BY <2>7, <3>1
    <3>3. \A j \in A : j \in B <=> j < i1
      <4>1. ASSUME NEW j \in A, j \in B PROVE j < i1
        BY <4>1, <3>1, <3>2
      <4>2. ASSUME NEW j \in A, j < i1 PROVE j \in B
        BY <4>2, <2>7
      <4> QED BY <4>1, <4>2, Zenon
    <3> HIDE DEF B
    <3> QED BY <3>3, <2>5, Zenon
  <2> HIDE DEF B, lower
  <2> QED BY <2>4, <2>7, <2>8, Zenon
<1> HIDE DEF E
<1>3. \A k \in Nat : k \in E
  BY <1>1, <1>2, NatSet, Zenon
<1> SUFFICES ASSUME NEW k \in 1 .. Cardinality(A)
             PROVE  \E i \in A : Cardinality(lower(i)) = k - 1
  BY Zenon
<1>4. k - 1 \in Nat /\ k - 1 < Cardinality(A)
  BY <1>0
<1>5. k - 1 \in E
  BY <1>3, <1>4, Zenon
<1> HIDE DEF lower
<1> QED BY <1>4, <1>5, Zenon DEF E

\* The first ranks of the runs of a set, the last ranks of the runs behind i, and the
\* first rank of the k-th run: what Ranges looks for.
Firsts(set) == {i \in set : i - 1 \notin set}
Lasts(set, i) == {j \in set : j >= i /\ j + 1 \notin set}
Nth(set, k) == CHOOSE i \in Firsts(set) : Cardinality({j \in Firsts(set) : j < i}) = k - 1

\* Ranges in terms of these.
LEMMA RangesAre ==
  ASSUME NEW set
  PROVE  Ranges(set) = [k \in 1 .. Cardinality(Firsts(set)) |->
                          [first |-> Nth(set, k), last |-> Min(Lasts(set, Nth(set, k)))]]
  BY Zenon DEF Ranges, Firsts, Lasts, Nth

\* Ranges gives runs of ranks of the set, and some if there are any.
LEMMA RangesInside ==
  ASSUME NEW set \in SUBSET Rank
  PROVE  /\ Ranges(set) \in Seq(Piece)
         /\ \A k \in 1 .. Len(Ranges(set)) :
              Ranges(set)[k].first .. Ranges(set)[k].last \subseteq set
         /\ set # {} => Ranges(set) # << >>
<1> DEFINE F == Firsts(set)
           R(k) == [first |-> Nth(set, k), last |-> Min(Lasts(set, Nth(set, k)))]
<1>0. IsFiniteSet(set) /\ set \in SUBSET Nat /\ IsFiniteSet(F) /\ F \in SUBSET set
  <2>1. IsFiniteSet(Rank)
    BY FS_Interval, StepCompleteAssumption DEF Rank
  <2>2. F \in SUBSET set
    BY Zenon DEF Firsts
  <2>3. set \in SUBSET Nat
    BY DEF Rank
  <2> HIDE DEF F
  <2> QED BY <2>1, <2>2, <2>3, FS_Subset, Zenon
<1>1. Cardinality(F) \in Nat
  BY <1>0, FS_CardinalityType, Zenon
<1>2. \A k \in 1 .. Cardinality(F) : Nth(set, k) \in F
  <2>1. F \in SUBSET Nat
    BY <1>0, Zenon
  <2>2. \A k \in 1 .. Cardinality(F) : \E i \in F : Cardinality({j \in F : j < i}) = k - 1
    <3> HIDE DEF F
    <3> QED BY <1>0, <2>1, CountOff, Zenon
  <2> QED BY <2>2, Zenon DEF Nth
<1>3. ASSUME NEW i \in set PROVE Min(Lasts(set, i)) \in Lasts(set, i)
                                 /\ \A j \in Lasts(set, i) : Min(Lasts(set, i)) <= j
  <2> DEFINE L == Lasts(set, i)
  <2>1. L # {}
    <3> SUFFICES ASSUME L = {} PROVE FALSE
      BY Zenon
    <3> DEFINE E == {d \in Nat : i + d \in set}
    <3>1. 0 \in E
      BY <1>0
    <3>2. ASSUME NEW d \in Nat, d \in E PROVE d + 1 \in E
      <4>1. i + d \in set /\ i + d >= i /\ i \in Nat
        BY <3>2, <1>0
      <4>2. (i + d) + 1 \in set
        BY <4>1, Zenon DEF Lasts
      <4>3. (i + d) + 1 = i + (d + 1)
        BY <4>1
      <4> QED BY <4>2, <4>3
    <3> HIDE DEF E
    <3>3. num_nodes \in E
      BY <3>1, <3>2, NatSet, StepCompleteAssumption, Zenon
    <3>4. i + num_nodes \in Rank
      BY <3>3, Zenon DEF E
    <3> QED BY <3>4, <1>0, StepCompleteAssumption DEF Rank
  <2>2. L \in SUBSET Nat
    BY <1>0, Zenon DEF Lasts
  <2> HIDE DEF L
  <2>3. PICK m \in L : \A j \in L : m <= j
    BY <2>1, <2>2, NatMin, Zenon
  <2>4. Min(L) \in L /\ \A j \in L : Min(L) <= j
    BY <2>3, Zenon DEF Min
  <2> QED BY <2>4, Zenon DEF L
<1>4. ASSUME NEW i \in set PROVE i .. Min(Lasts(set, i)) \subseteq set
  <2> DEFINE m == Min(Lasts(set, i))
             X == {x \in Nat : x \in i .. m /\ x \notin set}
  <2>1. m \in set /\ m \in Nat /\ i \in Nat
    BY <1>0, <1>3, Zenon DEF Lasts
  <2>2. \A j \in Lasts(set, i) : m <= j
    BY <1>3, Zenon
  <2> HIDE DEF m
  <2>3. ASSUME X # {} PROVE FALSE
    <3>1. PICK x \in X : \A y \in X : x <= y
      BY <2>3, NatMin, Zenon
    <3>2. x \in Nat /\ i <= x /\ x <= m /\ x \notin set
      BY <3>1, <2>1
    <3>3. i < x
      BY <3>2, <2>1
    <3>4. x - 1 \in set
      BY <3>1, <3>2, <3>3, <2>1
    <3>5. x - 1 \in Lasts(set, i)
      <4>1. (x - 1) + 1 = x /\ x - 1 >= i
        BY <3>2, <3>3, <2>1
      <4> QED BY <4>1, <3>2, <3>4, Zenon DEF Lasts
    <3>6. m <= x - 1
      BY <3>5, <2>2, Zenon
    <3> QED BY <3>2, <3>6, <2>1
  <2>4. ASSUME NEW x \in i .. m PROVE x \in set
    BY <2>3, <2>1
  <2> QED BY <2>4, Zenon DEF m
<1>5. ASSUME NEW k \in 1 .. Cardinality(F)
      PROVE  R(k) \in Piece /\ R(k).first .. R(k).last \subseteq set
  <2>1. Nth(set, k) \in set
    BY <1>0, <1>2, Zenon
  <2>2. Min(Lasts(set, Nth(set, k))) \in set
    BY <2>1, <1>3, Zenon DEF Lasts
  <2>3. Nth(set, k) .. Min(Lasts(set, Nth(set, k))) \subseteq set
    BY <2>1, <1>4, Zenon
  <2>4. R(k) \in Piece
    BY <2>1, <2>2, Zenon DEF Piece
  <2> QED BY <2>3, <2>4, Zenon
<1>6. Ranges(set) = [k \in 1 .. Cardinality(F) |-> R(k)]
  BY RangesAre, Zenon
<1> HIDE DEF R
<1>7. Ranges(set) \in Seq(Piece) /\ Len(Ranges(set)) = Cardinality(F)
  <2> HIDE DEF F
  <2> QED BY <1>1, <1>5, <1>6
<1>8. \A k \in 1 .. Len(Ranges(set)) :
        Ranges(set)[k].first .. Ranges(set)[k].last \subseteq set
  <2> HIDE DEF F
  <2> QED BY <1>1, <1>5, <1>6, <1>7, Zenon
<1>9. ASSUME set # {} PROVE Ranges(set) # << >>
  <2>1. PICK i \in set : \A j \in set : i <= j
    BY <1>0, <1>9, NatMin, Zenon
  <2>2. i - 1 \notin set
    BY <2>1, <1>0
  <2>3. i \in F
    BY <2>2, Zenon DEF Firsts
  <2>4. Cardinality(F) # 0
    BY <2>3, <1>0, FS_EmptySet, Zenon
  <2> HIDE DEF F
  <2>5. Len(Ranges(set)) # 0
    BY <2>4, <1>7, Zenon
  <2> QED BY <2>5
<1> QED BY <1>7, <1>8, <1>9, Zenon

\* A set that is one run is one range.
LEMMA RangesOfRun ==
  ASSUME NEW a \in Nat, NEW b \in Nat, a <= b
  PROVE  Ranges(a .. b) = <<[first |-> a, last |-> b]>>
<1> DEFINE set == a .. b
<1>1. Firsts(set) = {a}
  BY DEF Firsts
<1>2. Lasts(set, a) = {b}
  BY DEF Lasts
<1> HIDE DEF set
<1>3. Cardinality(Firsts(set)) = 1
  BY <1>1, FS_Singleton, Zenon
<1>4. {j \in Firsts(set) : j < a} = {}
  BY <1>1
<1>5. Nth(set, 1) = a
  <2>1. Cardinality({j \in Firsts(set) : j < a}) = 1 - 1
    BY <1>4, FS_EmptySet
  <2> QED BY <1>1, <2>1, Zenon DEF Nth
<1>6. Min({b}) = b
  BY DEF Min
<1>7. Ranges(set) = [k \in 1 .. 1 |-> [first |-> Nth(set, k), last |-> Min(Lasts(set, Nth(set, k)))]]
  BY <1>3, RangesAre, Zenon
<1>8. [first |-> Nth(set, 1), last |-> Min(Lasts(set, Nth(set, 1)))] = [first |-> a, last |-> b]
  BY <1>2, <1>5, <1>6, Zenon
<1>9. Ranges(set) = [k \in 1 .. 1 |-> [first |-> a, last |-> b]]
  <2>1. \A k \in 1 .. 1 : k = 1
    OBVIOUS
  <2> QED BY <1>7, <1>8, <2>1, Zenon
<1>10. [k \in 1 .. 1 |-> [first |-> a, last |-> b]] = <<[first |-> a, last |-> b]>>
  OBVIOUS
<1> QED BY <1>9, <1>10, Zenon DEF set

\* The empty set has no ranges.
LEMMA RangesOfNone == Ranges({}) = << >>
<1>1. Firsts({}) = {}
  BY Zenon DEF Firsts
<1>2. Cardinality(Firsts({})) = 0
  BY <1>1, FS_EmptySet, Zenon
<1>3. Ranges({}) = [k \in 1 .. 0 |-> [first |-> Nth({}, k), last |-> Min(Lasts({}, Nth({}, k)))]]
  BY <1>2, RangesAre, Zenon
<1> QED BY <1>3

\* What is sent: ranges of completed ranks below, and the own rank.
LEMMA ToSendInside ==
  ASSUME NEW r \in Rank, bits[r] \in SUBSET Rank
  PROVE  /\ ToSend(r) \in Seq(Piece) /\ ToSend(r) # << >>
         /\ \A k \in 1 .. Len(ToSend(r)) :
              ToSend(r)[k].first .. ToSend(r)[k].last \subseteq bits[r] \cup {r}
<1>1. CASE r + 1 \in bits[r]
  <2> DEFINE set == bits[r] \cup {r}
  <2>1. set \in SUBSET Rank /\ set # {}
    BY Zenon
  <2>2. ToSend(r) = Ranges(set)
    BY <1>1, Zenon DEF ToSend
  <2> HIDE DEF set
  <2>3. /\ Ranges(set) \in Seq(Piece) /\ Ranges(set) # << >>
        /\ \A k \in 1 .. Len(Ranges(set)) :
             Ranges(set)[k].first .. Ranges(set)[k].last \subseteq set
    BY <2>1, RangesInside, Zenon
  <2> QED BY <2>2, <2>3, Zenon DEF set
<1>2. CASE r + 1 \notin bits[r]
  <2>1. PICK q \in Seq(Piece) : q = Ranges(bits[r]) /\ \A k \in 1 .. Len(q) : q[k].first .. q[k].last \subseteq bits[r]
    BY RangesInside, Zenon
  <2>2. PICK p \in Piece : p = [first |-> r, last |-> r]
    BY Zenon DEF Piece
  <2>3. ToSend(r) = q \o <<p>>
    BY <1>2, <2>1, <2>2, Zenon DEF ToSend, Own
  <2>4. q \o <<p>> \in Seq(Piece) /\ Len(q \o <<p>>) = Len(q) + 1 /\ Len(q) \in Nat
    BY <2>1
  <2>5. ASSUME NEW k \in 1 .. Len(q) + 1
        PROVE  (q \o <<p>>)[k].first .. (q \o <<p>>)[k].last \subseteq bits[r] \cup {r}
    <3>1. CASE k \in 1 .. Len(q)
      <4>1. (q \o <<p>>)[k] = q[k]
        BY <3>1
      <4> QED BY <4>1, <3>1, <2>1, Zenon
    <3>2. CASE k = Len(q) + 1
      <4>1. (q \o <<p>>)[k] = p
        BY <3>2, <2>4
      <4>2. p.first .. p.last = r .. r
        BY <2>2, Zenon
      <4>3. r .. r \subseteq {r}
        BY DEF Rank
      <4> QED BY <4>1, <4>2, <4>3, Zenon
    <3> QED BY <3>1, <3>2, <2>4
  <2>6. q \o <<p>> # << >>
    BY <2>4
  <2> QED BY <2>3, <2>4, <2>5, <2>6, Zenon
<1> QED BY <1>1, <1>2, Zenon

\* With all bits set it is one range.
LEMMA ToSendWhole ==
  ASSUME NEW r \in Rank, bits[r] = r + 1 .. r + children[r]
  PROVE  ToSend(r) = <<[first |-> r, last |-> r + children[r]]>>
<1>1. PICK c \in Nat : c = children[r] /\ r \in Nat /\ r + c \in Nat
  BY TreeFacts DEF Rank
<1>2. CASE c = 0
  <2>1. bits[r] = {} /\ r + c = r
    BY <1>1, <1>2
  <2>2. ToSend(r) = Ranges(bits[r]) \o Own(r)
    BY <2>1, Zenon DEF ToSend
  <2>3. ToSend(r) = << >> \o Own(r)
    BY <2>1, <2>2, RangesOfNone, Zenon
  <2>4. << >> \o Own(r) = Own(r)
    BY DEF Own
  <2> QED BY <1>1, <2>1, <2>3, <2>4, Zenon DEF Own
<1>3. CASE c # 0
  <2>1. r + 1 \in bits[r] /\ bits[r] \cup {r} = r .. r + c
    BY <1>1, <1>3
  <2>2. ToSend(r) = Ranges(r .. r + c)
    BY <2>1, Zenon DEF ToSend
  <2> QED BY <1>1, <2>2, RangesOfRun
<1> QED BY <1>2, <1>3, Zenon

\* The larger of two.
LEMMA MaxPair ==
  ASSUME NEW a \in Nat, NEW b \in Nat
  PROVE  Max({a, b}) \in Nat /\ Max({a, b}) \in {a, b} /\ a <= Max({a, b}) /\ b <= Max({a, b})
<1>1. \E x \in {a, b} : \A y \in {a, b} : x >= y
  OBVIOUS
<1>2. Max({a, b}) \in {a, b} /\ \A y \in {a, b} : Max({a, b}) >= y
  BY <1>1, Zenon DEF Max
<1> QED BY <1>2, Zenon

\* The exit code of a rank is a number, and with no signalled task that of the last one.
LEMMA ExitCode ==
  ASSUME NEW r \in Rank, step_rc[r] \in Nat
  PROVE  /\ get_exit_code(r) \in Nat /\ LastTask(r) \in Nat
         /\ unsignaled => get_exit_code(r) = Max({step_rc[r], LastTask(r)})
<1> DEFINE n == Len(Estatus[r])
           s == {i \in 1 .. n : signaled(Estatus[r][i])}
<1>1. Estatus[r] \in Seq(Nat) /\ Estatus[r] # << >>
  BY StepCompleteAssumption, Zenon
<1>2. n \in Nat /\ n \in 1 .. n /\ \A i \in 1 .. n : Estatus[r][i] \in Nat
  BY <1>1
<1>3. LastTask(r) \in Nat
  BY <1>2, Zenon DEF LastTask
<1>4. get_exit_code(r) = IF s # {} THEN Estatus[r][Min(s)] ELSE Max({step_rc[r], LastTask(r)})
  BY Zenon DEF get_exit_code, LastTask
<1>5. CASE s # {}
  <2>1. s \in SUBSET Nat /\ s \subseteq 1 .. n
    OBVIOUS
  <2>2. ~ unsignaled
    BY <1>5, Zenon DEF unsignaled
  <2> HIDE DEF s
  <2>3. PICK m \in s : \A j \in s : m <= j
    BY <1>5, <2>1, NatMin, Zenon
  <2>4. Min(s) \in s
    BY <2>3, Zenon DEF Min
  <2>5. Estatus[r][Min(s)] \in Nat
    BY <1>2, <2>1, <2>4, Zenon
  <2> QED BY <1>3, <1>4, <1>5, <2>2, <2>5, Zenon
<1>6. CASE s = {}
  BY <1>3, <1>4, <1>6, MaxPair, Zenon
<1> QED BY <1>5, <1>6, Zenon

\* The message of a slurmstepd that is sending.
LEMMA MsgType ==
  ASSUME SType, NEW r \in Rank, st[r] = "sending"
  PROVE  /\ msg(r) \in Message /\ Len(unsent[r]) \in Nat \ {0}
         /\ msg(r).first = unsent[r][1].first /\ msg(r).last = unsent[r][1].last
         /\ msg(r).rc = step_rc[r]
         /\ msg(r).acct = IF acct_sent[r] THEN Nothing ELSE [jobacct[r] EXCEPT ![r] = @ + 1]
         /\ Tail(unsent[r]) \in Seq(Piece)
<1>1. unsent[r] \in Seq(Piece) /\ unsent[r] # << >> /\ step_rc[r] \in Nat
      /\ jobacct[r] \in [Rank -> Nat] /\ acct_sent[r] \in BOOLEAN
  BY Zenon DEF SType
<1>2. Head(unsent[r]) = unsent[r][1] /\ unsent[r][1] \in Piece /\ Len(unsent[r]) \in Nat \ {0}
      /\ Tail(unsent[r]) \in Seq(Piece)
  BY <1>1
<1>3. Nothing \in [Rank -> Nat]
  BY Zenon DEF Nothing
<1>4. [jobacct[r] EXCEPT ![r] = @ + 1] \in [Rank -> Nat]
  BY <1>1
<1> DEFINE a == IF acct_sent[r] THEN Nothing ELSE [jobacct[r] EXCEPT ![r] = @ + 1]
<1>5. a \in [Rank -> Nat]
  BY <1>3, <1>4, Zenon
<1>6. unsent[r][1].first \in Rank /\ unsent[r][1].last \in Rank
  BY <1>2, Zenon DEF Piece
<1>7. msg(r) = [first |-> unsent[r][1].first, last |-> unsent[r][1].last, rc |-> step_rc[r], acct |-> a]
  BY <1>2, Zenon DEF msg
<1> HIDE DEF a
<1>8. msg(r) \in Message
  BY <1>1, <1>5, <1>6, <1>7 DEF Message
<1> QED BY <1>2, <1>7, <1>8 DEF a

\* What taking a message does to the types of the parent's step_complete.
LEMMA HandleType ==
  ASSUME SType, NEW p \in Rank, NEW m \in Message, Handle_completion(p, m)
  PROVE  /\ bits' \in [Rank -> SUBSET Rank] /\ step_rc' \in [Rank -> Nat]
         /\ jobacct' \in [Rank -> [Rank -> Nat]] /\ wait_children' \in [Rank -> BOOLEAN]
<1>1. m.first \in Rank /\ m.last \in Rank /\ m.rc \in Nat /\ m.acct \in [Rank -> Nat]
  BY Zenon DEF Message
<1>2. bits[p] \in SUBSET Rank /\ step_rc[p] \in Nat /\ jobacct[p] \in [Rank -> Nat]
  BY Zenon DEF SType
<1>3. bits[p] \cup (m.first .. m.last) \in SUBSET Rank
  <2>1. PICK a \in Rank, b \in Rank : a = m.first /\ b = m.last
    BY <1>1, Zenon
  <2>2. a .. b \subseteq Rank
    BY StepCompleteAssumption DEF Rank
  <2> QED BY <1>2, <2>1, <2>2, Zenon
<1>4. Max({step_rc[p], m.rc}) \in Nat
  BY <1>1, <1>2, MaxPair, Zenon
<1>5. Plus(jobacct[p], m.acct) \in [Rank -> Nat]
  BY <1>1, <1>2 DEF Plus
<1>6. bits' \in [Rank -> SUBSET Rank]
  BY <1>3, Zenon DEF SType, Handle_completion
<1>7. step_rc' \in [Rank -> Nat]
  BY <1>4, Zenon DEF SType, Handle_completion
<1>8. jobacct' \in [Rank -> [Rank -> Nat]]
  BY <1>5, Zenon DEF SType, Handle_completion
<1> QED BY <1>6, <1>7, <1>8, Zenon DEF SType, Handle_completion

\* What having sent a message does to the types of the sender.
LEMMA SentType ==
  ASSUME SType, NEW r \in Rank, st[r] = "sending", Sent(r)
  PROVE  /\ unsent' \in [Rank -> Seq(Piece)] /\ tries' \in [Rank -> Nat]
         /\ acct_sent' \in [Rank -> BOOLEAN] /\ st' \in [Rank -> States]
         /\ \A q \in Rank : st'[q] = "sending" => unsent'[q] # << >>
<1>1. Tail(unsent[r]) \in Seq(Piece) /\ Len(unsent[r]) \in Nat \ {0}
  BY MsgType, Zenon
<1>2. unsent' \in [Rank -> Seq(Piece)]
  BY <1>1, Zenon DEF SType, Sent
<1>3. tries' \in [Rank -> Nat] /\ acct_sent' \in [Rank -> BOOLEAN]
  BY Zenon DEF SType, Sent
<1>4. st' \in [Rank -> States]
  BY Zenon DEF SType, Sent, States
<1>5. ASSUME NEW q \in Rank, st'[q] = "sending" PROVE unsent'[q] # << >>
  <2>1. CASE q # r
    BY <1>5, <2>1, Zenon DEF SType, Sent
  <2>2. CASE q = r
    <3>1. Len(unsent[r]) # 1
      BY <1>5, <2>2, Zenon DEF SType, Sent
    <3>2. unsent'[r] = Tail(unsent[r])
      BY Zenon DEF SType, Sent
    <3>3. Len(Tail(unsent[r])) # 0
      <4>1. unsent[r] \in Seq(Piece)
        BY Zenon DEF SType
      <4> QED BY <4>1, <3>1, <1>1
    <3>4. Tail(unsent[r]) # << >>
      <4>1. Len(<< >>) = 0
        BY Zenon
      <4> QED BY <3>3, <4>1, Zenon
    <3> QED BY <2>2, <3>2, <3>4, Zenon
  <2> QED BY <2>1, <2>2, Zenon
<1> QED BY <1>2, <1>3, <1>4, <1>5, Zenon

\* Counting a fault.
LEMMA FaultType ==
  ASSUME SType, NEW f \in {"lost", "reply", "death", "abort"}, Fault(f)
  PROVE  /\ faults' \in [lost : Nat, reply : Nat, death : Nat, abort : Nat]
         /\ faults'.reply = IF f = "reply" THEN faults.reply + 1 ELSE faults.reply
<1>0. faults \in [lost : Nat, reply : Nat, death : Nat, abort : Nat]
  BY Zenon DEF SType
<1>1. CASE f = "lost"
  <2>1. faults' = [faults EXCEPT !.lost = @ + 1]
    BY <1>1, Zenon DEF Fault
  <2>2. faults' \in [lost : Nat, reply : Nat, death : Nat, abort : Nat]
    BY <1>0, <2>1
  <2>3. faults'.reply = faults.reply
    BY <1>0, <2>1, Zenon
  <2> QED BY <1>1, <2>2, <2>3, Zenon
<1>2. CASE f = "reply"
  <2>1. faults' = [faults EXCEPT !.reply = @ + 1]
    BY <1>2, Zenon DEF Fault
  <2>2. faults' \in [lost : Nat, reply : Nat, death : Nat, abort : Nat]
    BY <1>0, <2>1
  <2>3. faults'.reply = faults.reply + 1
    BY <1>0, <2>1, Zenon
  <2> QED BY <1>2, <2>2, <2>3, Zenon
<1>3. CASE f = "death"
  <2>1. faults' = [faults EXCEPT !.death = @ + 1]
    BY <1>3, Zenon DEF Fault
  <2>2. faults' \in [lost : Nat, reply : Nat, death : Nat, abort : Nat]
    BY <1>0, <2>1
  <2>3. faults'.reply = faults.reply
    BY <1>0, <2>1, Zenon
  <2> QED BY <1>3, <2>2, <2>3, Zenon
<1>4. CASE f = "abort"
  <2>1. faults' = [faults EXCEPT !.abort = @ + 1]
    BY <1>4, Zenon DEF Fault
  <2>2. faults' \in [lost : Nat, reply : Nat, death : Nat, abort : Nat]
    BY <1>0, <2>1
  <2>3. faults'.reply = faults.reply
    BY <1>0, <2>1, Zenon
  <2> QED BY <1>4, <2>2, <2>3, Zenon
<1> QED BY <1>1, <1>2, <1>3, <1>4, Zenon

\* A slurmstepd that can send to its parent has one.
LEMMA ParentRank ==
  ASSUME NEW r \in Rank, parent[r] # -1
  PROVE  parent[r] \in Rank /\ parent[r] < r /\ parent[r] # r
         /\ r + children[r] <= parent[r] + children[parent[r]]
<1>1. r # 0
  BY TreeFacts, Zenon
<1> QED BY <1>1, TreeFacts DEF Rank

\* The types hold at first
LEMMA STypeInit == Init => SType
  BY StepCompleteAssumption DEF Init, SType, States, Nothing

\* ... and every step keeps them, as _handle_completion and the sending of a message do.
LEMMA STypeStep == SType /\ [Next]_vars => SType'
<1> SUFFICES ASSUME SType, [Next]_vars PROVE SType'
  BY Zenon
<1>1. CASE UNCHANGED vars
  BY <1>1, Zenon DEF vars, step_complete, sending, SType
<1>2. ASSUME NEW r \in Rank, Start(r) \/ Finish(r) \/ Exit(r) PROVE SType'
  <2>1. st' \in [Rank -> States] /\ \A q \in Rank : st'[q] = "sending" => st[q] = "sending"
    BY <1>2, Zenon DEF Start, Finish, Exit, Goto, SType, States
  <2>2. UNCHANGED <<aborted, step_complete, sending, ctld, faults, clean>>
    BY <1>2, Zenon DEF Start, Finish, Exit
  <2> QED BY <2>1, <2>2, Zenon DEF SType, step_complete, sending
<1>3. ASSUME NEW r \in Rank, Die(r) PROVE SType'
  <2>1. st' \in [Rank -> States] /\ \A q \in Rank : st'[q] = "sending" => st[q] = "sending"
    BY <1>3, Zenon DEF Die, Goto, SType, States
  <2>2. UNCHANGED <<aborted, step_complete, sending, ctld>> /\ clean' = FALSE /\ Fault("death")
    BY <1>3, Zenon DEF Die
  <2>3. faults' \in [lost : Nat, reply : Nat, death : Nat, abort : Nat]
    BY <2>2, FaultType, Zenon
  <2> QED BY <2>1, <2>2, <2>3, Zenon DEF SType, step_complete, sending
<1>4. ASSUME NEW r \in Rank, Waited(r) PROVE SType'
  <2>1. ToSend(r) \in Seq(Piece) /\ ToSend(r) # << >>
    BY ToSendInside, Zenon DEF SType
  <2>2. get_exit_code(r) \in Nat
    BY ExitCode, Zenon DEF SType
  <2>3. st' \in [Rank -> States] /\ unsent' \in [Rank -> Seq(Piece)]
        /\ step_rc' \in [Rank -> Nat] /\ wait_children' \in [Rank -> BOOLEAN]
    BY <1>4, <2>1, <2>2, Zenon DEF Waited, Goto, SType, States
  <2>4. \A q \in Rank : st'[q] = "sending" => unsent'[q] # << >>
    BY <1>4, <2>1, Zenon DEF Waited, Goto, SType
  <2>5. clean' \in BOOLEAN
    BY <1>4, Zenon DEF Waited, SType
  <2> QED BY <1>4, <2>3, <2>4, <2>5, Zenon DEF Waited, SType
<1>5. ASSUME NEW r \in Rank, Abort(r) PROVE SType'
  <2>1. ToSend(r) \in Seq(Piece) /\ ToSend(r) # << >>
    BY ToSendInside, Zenon DEF SType
  <2>2. faults' \in [lost : Nat, reply : Nat, death : Nat, abort : Nat]
    BY <1>5, FaultType, Zenon DEF Abort
  <2>3. st' \in [Rank -> States] /\ unsent' \in [Rank -> Seq(Piece)] /\ aborted' \in SUBSET Rank
    BY <1>5, <2>1, Zenon DEF Abort, Goto, SType, States
  <2>4. \A q \in Rank : st'[q] = "sending" => unsent'[q] # << >>
    BY <1>5, <2>1, Zenon DEF Abort, Goto, SType
  <2> QED BY <1>5, <2>2, <2>3, <2>4, Zenon DEF Abort, SType, step_complete
<1>6. ASSUME NEW r \in Rank, SendToParent(r) PROVE SType'
  <2>1. st[r] = "sending" /\ parent[r] \in Rank
    BY <1>6, ParentRank, Zenon DEF SendToParent, ToParent
  <2>2. msg(r) \in Message
    BY <2>1, MsgType, Zenon
  <2>3. Handle_completion(parent[r], msg(r)) /\ Sent(r) /\ UNCHANGED <<aborted, ctld, faults, clean>>
    BY <1>6, Zenon DEF SendToParent
  <2>4. /\ bits' \in [Rank -> SUBSET Rank] /\ step_rc' \in [Rank -> Nat]
        /\ jobacct' \in [Rank -> [Rank -> Nat]] /\ wait_children' \in [Rank -> BOOLEAN]
    BY <2>1, <2>2, <2>3, HandleType, Zenon
  <2>5. /\ unsent' \in [Rank -> Seq(Piece)] /\ tries' \in [Rank -> Nat]
        /\ acct_sent' \in [Rank -> BOOLEAN] /\ st' \in [Rank -> States]
        /\ \A q \in Rank : st'[q] = "sending" => unsent'[q] # << >>
    BY <2>1, <2>3, SentType, Zenon
  <2> QED BY <2>3, <2>4, <2>5, Zenon DEF SType
<1>7. ASSUME NEW r \in Rank, ParentReplyLost(r) PROVE SType'
  <2>1. st[r] = "sending" /\ parent[r] \in Rank
    BY <1>7, ParentRank, Zenon DEF ParentReplyLost, ToParent
  <2>2. msg(r) \in Message
    BY <2>1, MsgType, Zenon
  <2>3. Handle_completion(parent[r], msg(r)) /\ TryAgain(r) /\ UNCHANGED <<aborted, ctld>>
        /\ clean' = FALSE /\ Fault("reply")
    BY <1>7, Zenon DEF ParentReplyLost
  <2>4. /\ bits' \in [Rank -> SUBSET Rank] /\ step_rc' \in [Rank -> Nat]
        /\ jobacct' \in [Rank -> [Rank -> Nat]] /\ wait_children' \in [Rank -> BOOLEAN]
    BY <2>1, <2>2, <2>3, HandleType, Zenon
  <2>5. faults' \in [lost : Nat, reply : Nat, death : Nat, abort : Nat]
    BY <2>3, FaultType, Zenon
  <2>6. tries' \in [Rank -> Nat] /\ UNCHANGED <<st, unsent, acct_sent>>
    BY <2>3 DEF TryAgain, SType
  <2> QED BY <2>3, <2>4, <2>5, <2>6, Zenon DEF SType
<1>8. ASSUME NEW r \in Rank, ParentFails(r) PROVE SType'
  <2>1. TryAgain(r) /\ clean' = FALSE /\ UNCHANGED <<aborted, step_complete, ctld>>
        /\ (UNCHANGED faults \/ Fault("lost"))
    BY <1>8, Zenon DEF ParentFails
  <2>2. faults' \in [lost : Nat, reply : Nat, death : Nat, abort : Nat]
    BY <2>1, FaultType, Zenon DEF SType
  <2>3. tries' \in [Rank -> Nat] /\ UNCHANGED <<st, unsent, acct_sent>>
    BY <2>1 DEF TryAgain, SType
  <2> QED BY <2>1, <2>2, <2>3, Zenon DEF SType, step_complete
<1>9. ASSUME NEW r \in Rank, SendToCtld(r) PROVE SType'
  <2>1. st[r] = "sending"
    BY <1>9, Zenon DEF SendToCtld, ToCtld
  <2>2. msg(r) \in Message
    BY <2>1, MsgType, Zenon
  <2>3. Sent(r) /\ UNCHANGED <<aborted, step_complete, faults, clean>> /\ ctld' = Append(ctld, msg(r))
    BY <1>9, Zenon DEF SendToCtld
  <2>4. ctld' \in Seq(Message)
    BY <2>2, <2>3 DEF SType
  <2>5. /\ unsent' \in [Rank -> Seq(Piece)] /\ tries' \in [Rank -> Nat]
        /\ acct_sent' \in [Rank -> BOOLEAN] /\ st' \in [Rank -> States]
        /\ \A q \in Rank : st'[q] = "sending" => unsent'[q] # << >>
    BY <2>1, <2>3, SentType, Zenon
  <2> QED BY <2>3, <2>4, <2>5, Zenon DEF SType, step_complete
<1>10. ASSUME NEW r \in Rank, CtldReplyLost(r) PROVE SType'
  <2>1. st[r] = "sending"
    BY <1>10, Zenon DEF CtldReplyLost, ToCtld
  <2>2. msg(r) \in Message
    BY <2>1, MsgType, Zenon
  <2>3. UNCHANGED <<st, aborted, step_complete, sending>> /\ ctld' = Append(ctld, msg(r))
        /\ clean' = FALSE /\ Fault("reply")
    BY <1>10, Zenon DEF CtldReplyLost
  <2>4. ctld' \in Seq(Message)
    BY <2>2, <2>3 DEF SType
  <2>5. faults' \in [lost : Nat, reply : Nat, death : Nat, abort : Nat]
    BY <2>3, FaultType, Zenon
  <2> QED BY <2>3, <2>4, <2>5, Zenon DEF SType, step_complete, sending
<1> QED BY <1>1, <1>2, <1>3, <1>4, <1>5, <1>6, <1>7, <1>8, <1>9, <1>10, Zenon DEF Next, Step

-----------------------------------------------------------------------------
(* Only ranks that have ended are reported. *)

\* The inductive invariant for OnlyEndedReported.
EInv == SType /\ RInv /\ CtldEnded

\* No rank goes back to before the end of its tasks.
LEMMA EndedGrows ==
  ASSUME SType, Next
  PROVE  Ended \subseteq Ended'
<1> SUFFICES ASSUME NEW r \in Rank,
                    Step(r) \/ Abort(r) \/ ParentReplyLost(r) \/ CtldReplyLost(r) \/ Die(r)
             PROVE  Ended \subseteq Ended'
  BY Zenon DEF Next
<1>0. st \in [Rank -> States]
  BY Zenon DEF SType
<1>1. CASE Start(r) \/ Finish(r) \/ Waited(r) \/ Exit(r) \/ Abort(r) \/ Die(r)
  BY <1>0, <1>1, Zenon DEF Start, Finish, Waited, Exit, Abort, Die, Goto, Ended
<1>2. CASE Sent(r) /\ st[r] = "sending"
  BY <1>0, <1>2, Zenon DEF Sent, Ended
<1>3. CASE UNCHANGED st
  BY <1>3, Zenon DEF Ended
<1>4. CASE SendToParent(r) \/ SendToCtld(r)
  BY <1>2, <1>4, Zenon DEF SendToParent, SendToCtld, ToParent, ToCtld
<1>5. CASE ParentFails(r) \/ ParentReplyLost(r) \/ CtldReplyLost(r)
  BY <1>3, <1>5, Zenon DEF ParentFails, ParentReplyLost, CtldReplyLost, TryAgain
<1> QED BY <1>1, <1>4, <1>5, Zenon DEF Step

\* The range that is being sent.
LEMMA MsgRange ==
  ASSUME SType, RInv, NEW r \in Rank, st[r] = "sending"
  PROVE  msg(r).first .. msg(r).last \subseteq (r .. r + children[r]) \cap Ended
<1>1. msg(r).first = unsent[r][1].first /\ msg(r).last = unsent[r][1].last
      /\ Len(unsent[r]) \in Nat \ {0}
  BY MsgType, Zenon
<1>2. 1 \in 1 .. Len(unsent[r])
  BY <1>1
<1> QED BY <1>1, <1>2, Zenon DEF RInv

\* The parent's bit string has a bit for every rank of the message.
LEMMA BitsTaken ==
  ASSUME SType, RInv, NEW r \in Rank, st[r] = "sending", parent[r] # -1,
         Handle_completion(parent[r], msg(r)), Ended \subseteq Ended'
  PROVE  \A q \in Rank : bits'[q] \subseteq (q + 1 .. q + children[q]) \cap Ended'
<1>1. PICK p \in Rank : p = parent[r] /\ p < r /\ r + children[r] <= p + children[p]
  BY ParentRank, Zenon
<1>2. PICK c \in Nat, d \in Nat : c = children[r] /\ d = children[p]
  BY TreeFacts, Zenon
<1>3. r .. r + c \subseteq p + 1 .. p + d
  BY <1>1, <1>2 DEF Rank
<1> DEFINE M == msg(r).first .. msg(r).last
<1>4. M \subseteq (r .. r + c) \cap Ended
  BY <1>2, MsgRange, Zenon
<1>5. bits' = [bits EXCEPT ![p] = @ \cup M] /\ bits \in [Rank -> SUBSET Rank]
  BY <1>1, Zenon DEF Handle_completion, SType
<1> HIDE DEF M
<1>6. \A q \in Rank : bits[q] \subseteq (q + 1 .. q + children[q]) \cap Ended'
  BY Zenon DEF RInv
<1> SUFFICES ASSUME NEW q \in Rank PROVE bits'[q] \subseteq (q + 1 .. q + children[q]) \cap Ended'
  BY Zenon
<1>7. CASE q # p
  <2>1. bits'[q] = bits[q]
    BY <1>5, <1>7, Zenon
  <2> QED BY <1>6, <2>1, Zenon
<1>8. CASE q = p
  <2>1. bits'[q] = bits[p] \cup M
    BY <1>5, <1>8, Zenon
  <2>2. M \subseteq (p + 1 .. p + children[p]) \cap Ended'
    BY <1>2, <1>3, <1>4, Zenon
  <2> QED BY <1>6, <1>8, <2>1, <2>2, Zenon
<1> QED BY <1>7, <1>8, Zenon

\* All ranges a slurmstepd has still to send are of ended ranks of its block.
Pieces(r, set) ==
  \A k \in 1 .. Len(unsent[r]) : unsent[r][k].first .. unsent[r][k].last \subseteq set

\* Sending one leaves the others.
LEMMA PiecesSent ==
  ASSUME SType, NEW r \in Rank, st[r] = "sending", Sent(r), NEW q \in Rank, NEW set,
         Pieces(q, set)
  PROVE  Pieces(q, set)'
<1>1. unsent \in [Rank -> Seq(Piece)] /\ unsent' = [unsent EXCEPT ![r] = Tail(@)]
  BY Zenon DEF SType, Sent
<1>2. CASE q # r
  <2>1. unsent'[q] = unsent[q]
    BY <1>1, <1>2, Zenon
  <2> QED BY <2>1, Zenon DEF Pieces
<1>3. CASE q = r
  <2>1. PICK u \in Seq(Piece) : u = unsent[r] /\ Len(u) \in Nat \ {0} /\ unsent'[r] = Tail(u)
    BY <1>1, MsgType, Zenon
  <2>2. Len(Tail(u)) = Len(u) - 1 /\ \A k \in 1 .. Len(u) - 1 : Tail(u)[k] = u[k + 1]
    BY <2>1
  <2>3. ASSUME NEW k \in 1 .. Len(u) - 1 PROVE Tail(u)[k].first .. Tail(u)[k].last \subseteq set
    <3>1. k + 1 \in 1 .. Len(u) /\ Tail(u)[k] = u[k + 1]
      BY <2>1, <2>2
    <3> QED BY <1>3, <2>1, <3>1, Zenon DEF Pieces
  <2> QED BY <1>3, <2>1, <2>2, <2>3, SMTT(30) DEF Pieces
<1> QED BY <1>2, <1>3, Zenon

\* RInv in terms of Pieces.
LEMMA RInvParts ==
  RInv <=> \A r \in Rank : /\ bits[r] \subseteq (r + 1 .. r + children[r]) \cap Ended
                           /\ Pieces(r, (r .. r + children[r]) \cap Ended)
  BY Zenon DEF RInv, Pieces

\* The ranges computed from the bits.
LEMMA PiecesComputed ==
  ASSUME SType, RInv, NEW r \in Rank, unsent' = [unsent EXCEPT ![r] = ToSend(r)],
         Ended \subseteq Ended', r \in Ended'
  PROVE  \A q \in Rank : Pieces(q, (q .. q + children[q]) \cap Ended)'
<1>1. unsent \in [Rank -> Seq(Piece)] /\ bits[r] \in SUBSET Rank
  BY Zenon DEF SType
<1> SUFFICES ASSUME NEW q \in Rank PROVE Pieces(q, (q .. q + children[q]) \cap Ended)'
  BY Zenon
<1>2. CASE q # r
  <2>1. unsent'[q] = unsent[q]
    BY <1>1, <1>2, Zenon
  <2>2. Pieces(q, (q .. q + children[q]) \cap Ended)
    BY RInvParts, Zenon
  <2> QED BY <2>1, <2>2, Zenon DEF Pieces
<1>3. CASE q = r
  <2>1. unsent'[r] = ToSend(r)
    BY <1>1, Zenon
  <2>2. PICK c \in Nat : c = children[r]
    BY TreeFacts, Zenon
  <2>3. bits[r] \subseteq (r + 1 .. r + c) \cap Ended
    BY <2>2, RInvParts, Zenon
  <2>4. bits[r] \cup {r} \subseteq (r .. r + children[r]) \cap Ended'
    BY <2>2, <2>3, Zenon DEF Rank
  <2>5. \A k \in 1 .. Len(ToSend(r)) :
          ToSend(r)[k].first .. ToSend(r)[k].last \subseteq (r .. r + children[r]) \cap Ended'
    BY <1>1, <2>4, ToSendInside, Zenon
  <2> QED BY <1>3, <2>1, <2>5, Zenon DEF Pieces
<1> QED BY <1>2, <1>3, Zenon

\* A message to the controller is of ended ranks.
LEMMA CtldTaken ==
  ASSUME SType, RInv, CtldEnded, NEW r \in Rank, st[r] = "sending",
         ctld' = Append(ctld, msg(r)), Ended \subseteq Ended'
  PROVE  CtldEnded'
<1>1. PICK m \in Message : m = msg(r) /\ m.first .. m.last \subseteq Ended
  BY MsgType, MsgRange, Zenon
<1>2. ctld \in Seq(Message)
  BY Zenon DEF SType
<1>3. Len(ctld') = Len(ctld) + 1 /\ Len(ctld) \in Nat
  BY <1>1, <1>2
<1> SUFFICES ASSUME NEW i \in 1 .. Len(ctld) + 1 PROVE ctld'[i].first .. ctld'[i].last \subseteq Ended'
  BY <1>3, Zenon DEF CtldEnded
<1>4. CASE i \in 1 .. Len(ctld)
  <2>1. ctld'[i] = ctld[i]
    BY <1>1, <1>2, <1>4
  <2> QED BY <1>4, <2>1, Zenon DEF CtldEnded
<1>5. CASE i = Len(ctld) + 1
  <2>1. ctld'[i] = m
    BY <1>1, <1>2, <1>3, <1>5, SMTT(30)
  <2> QED BY <1>1, <2>1, Zenon
<1> QED BY <1>3, <1>4, <1>5, SMTT(30)

\* Nothing is to be sent at first.
LEMMA EInvInit == Init => EInv
<1> SUFFICES ASSUME Init PROVE RInv /\ CtldEnded
  BY STypeInit, Zenon DEF EInv
<1>1. /\ \A r \in Rank : bits[r] = {} /\ unsent[r] = << >>
      /\ ctld = << >>
  BY Zenon DEF Init
<1> QED BY <1>1 DEF RInv, CtldEnded

\* Every step keeps EInv.
LEMMA EInvStep == EInv /\ [Next]_vars => EInv'
<1> SUFFICES ASSUME SType, RInv, CtldEnded, [Next]_vars, SType' PROVE RInv' /\ CtldEnded'
  BY STypeStep, Zenon DEF EInv
<1>1. CASE UNCHANGED vars
  <2>1. UNCHANGED <<bits, unsent, ctld, st>>
    BY <1>1, Zenon DEF vars, step_complete, sending
  <2> QED BY <2>1 DEF RInv, CtldEnded, Ended
<1> SUFFICES ASSUME Next PROVE RInv' /\ CtldEnded'
  BY <1>1, Zenon
<1>2. Ended \subseteq Ended'
  BY EndedGrows, Zenon
<1>3. ASSUME UNCHANGED bits PROVE \A q \in Rank : bits'[q] \subseteq (q + 1 .. q + children[q]) \cap Ended'
  BY <1>2, <1>3, Zenon DEF RInv
<1>4. ASSUME UNCHANGED unsent PROVE \A q \in Rank : Pieces(q, (q .. q + children[q]) \cap Ended)'
  <2> SUFFICES ASSUME NEW q \in Rank PROVE Pieces(q, (q .. q + children[q]) \cap Ended)'
    BY Zenon
  <2>1. Pieces(q, (q .. q + children[q]) \cap Ended)
    BY RInvParts, Zenon
  <2> QED BY <1>2, <1>4, <2>1, Zenon DEF Pieces
<1>5. ASSUME UNCHANGED ctld PROVE CtldEnded'
  BY <1>2, <1>5, Zenon DEF CtldEnded
<1>6. ASSUME \A q \in Rank : bits'[q] \subseteq (q + 1 .. q + children[q]) \cap Ended',
             \A q \in Rank : Pieces(q, (q .. q + children[q]) \cap Ended)'
      PROVE  RInv'
  BY <1>6, Zenon DEF RInv, Pieces
<1>7. ASSUME NEW r \in Rank, Sent(r), st[r] = "sending"
      PROVE  \A q \in Rank : Pieces(q, (q .. q + children[q]) \cap Ended)'
  <2> SUFFICES ASSUME NEW q \in Rank PROVE Pieces(q, (q .. q + children[q]) \cap Ended)'
    BY Zenon
  <2>1. PICK set : set = (q .. q + children[q]) \cap Ended
    BY Zenon
  <2>2. Pieces(q, set)
    BY <2>1, RInvParts, Zenon
  <2>3. Pieces(q, set)'
    BY <1>7, <2>2, PiecesSent, Zenon
  <2> QED BY <1>2, <2>1, <2>3, Zenon DEF Pieces
<1>8. ASSUME NEW r \in Rank, Start(r) \/ Finish(r) \/ Exit(r) \/ Die(r) PROVE RInv' /\ CtldEnded'
  <2>1. UNCHANGED <<bits, unsent, ctld>>
    BY <1>8, Zenon DEF Start, Finish, Exit, Die, step_complete, sending
  <2> QED BY <2>1, <1>3, <1>4, <1>5, <1>6, Zenon
<1>9. ASSUME NEW r \in Rank, Waited(r) \/ Abort(r) PROVE RInv' /\ CtldEnded'
  <2>1. unsent' = [unsent EXCEPT ![r] = ToSend(r)] /\ UNCHANGED <<bits, ctld>> /\ Goto(r, "sending")
    BY <1>9, Zenon DEF Waited, Abort, step_complete
  <2>2. r \in Ended'
    BY <2>1, Zenon DEF Goto, Ended, SType
  <2>3. \A q \in Rank : Pieces(q, (q .. q + children[q]) \cap Ended)'
    BY <1>2, <2>1, <2>2, PiecesComputed, Zenon
  <2> QED BY <2>1, <2>3, <1>3, <1>5, <1>6, Zenon
<1>10. ASSUME NEW r \in Rank, SendToParent(r) \/ ParentReplyLost(r) PROVE RInv' /\ CtldEnded'
  <2>1. st[r] = "sending" /\ parent[r] # -1 /\ Handle_completion(parent[r], msg(r)) /\ UNCHANGED ctld
        /\ (Sent(r) \/ UNCHANGED unsent)
    BY <1>10, Zenon DEF SendToParent, ParentReplyLost, ToParent, TryAgain
  <2>2. \A q \in Rank : bits'[q] \subseteq (q + 1 .. q + children[q]) \cap Ended'
    BY <1>2, <2>1, BitsTaken, Zenon
  <2> QED BY <2>1, <2>2, <1>4, <1>5, <1>6, <1>7, Zenon
<1>11. ASSUME NEW r \in Rank, ParentFails(r) PROVE RInv' /\ CtldEnded'
  <2>1. UNCHANGED <<bits, unsent, ctld>>
    BY <1>11, Zenon DEF ParentFails, TryAgain, step_complete
  <2> QED BY <2>1, <1>3, <1>4, <1>5, <1>6, Zenon
<1>12. ASSUME NEW r \in Rank, SendToCtld(r) \/ CtldReplyLost(r) PROVE RInv' /\ CtldEnded'
  <2>1. st[r] = "sending" /\ ctld' = Append(ctld, msg(r)) /\ UNCHANGED bits
        /\ (Sent(r) \/ UNCHANGED unsent)
    BY <1>12, Zenon DEF SendToCtld, CtldReplyLost, ToCtld, step_complete, sending
  <2>2. CtldEnded'
    BY <1>2, <2>1, CtldTaken, Zenon
  <2> QED BY <2>1, <2>2, <1>3, <1>4, <1>6, <1>7, SMTT(30)
<1> QED BY <1>8, <1>9, <1>10, <1>11, <1>12, Zenon DEF Next, Step

\* What the controller is told of has ended, for any number of ranks, any width and any
\* faults: _send_step_complete_msgs leaves out the ranks that have not completed
\* (OnlyEndedReported).
THEOREM EndedBeforeReported == Spec => []OnlyEndedReported
<1>1. EInv => OnlyEndedReported
  BY Zenon DEF EInv, CtldEnded, OnlyEndedReported, Reported, Ended
<1> QED BY <1>1, EInvInit, EInvStep, PTL DEF Spec

-----------------------------------------------------------------------------
(* When nothing fails. *)

\* What holds while nothing has failed: no attempt at a parent was in vain, and the bits
\* are of slurmstepds that have sent all; those that send or have sent had all bits; what
\* they send is their whole block; the controller gets the block of rank 0.
CQuiet == \A r \in Rank : tries[r] = 0 /\ bits[r] \subseteq Done
CTold == \A r \in Told : ~ wait_children[r] /\ bits[r] = r + 1 .. r + children[r]
CWhole == \A r \in Rank : st[r] = "sending" => unsent[r] = <<[first |-> r, last |-> r + children[r]]>>
CCtld == ctld # << >> => /\ 0 \in Done /\ Len(ctld) = 1 /\ ctld[1].first = 0
                         /\ ctld[1].last = num_nodes - 1 /\ ctld[1].rc = step_rc[0]

CInv == clean => CQuiet /\ CTold /\ CWhole /\ CCtld

\* Without faults, a message is for the whole block of its sender.
LEMMA CMsg ==
  ASSUME SType, CWhole, NEW r \in Rank, st[r] = "sending"
  PROVE  msg(r).first = r /\ msg(r).last = r + children[r] /\ Len(unsent[r]) = 1
<1>1. unsent[r] = <<[first |-> r, last |-> r + children[r]]>>
  BY Zenon DEF CWhole
<1>2. unsent[r][1].first = r /\ unsent[r][1].last = r + children[r] /\ Len(unsent[r]) = 1
  BY <1>1
<1> QED BY <1>2, MsgType, Zenon

\* After it is sent, the sender is done and the others are as before.
LEMMA CSent ==
  ASSUME SType, CWhole, NEW r \in Rank, st[r] = "sending", Sent(r)
  PROVE  /\ Done' = Done \cup {r} /\ Told' = Told
         /\ \A q \in Rank : st'[q] = "sending" => q # r /\ st[q] = "sending" /\ unsent'[q] = unsent[q]
         /\ \A q \in Rank : tries[q] = 0 => tries'[q] = 0
<1>1. Len(unsent[r]) = 1
  BY CMsg, Zenon
<1>2. st \in [Rank -> States] /\ unsent \in [Rank -> Seq(Piece)] /\ tries \in [Rank -> Nat]
  BY Zenon DEF SType
<1>3. st' = [st EXCEPT ![r] = "ending"]
  BY <1>1, <1>2, Zenon DEF Sent
<1>4. \A q \in Rank : st'[q] = IF q = r THEN "ending" ELSE st[q]
  BY <1>2, <1>3, Zenon
<1>5. \A q \in Rank : q # r => unsent'[q] = unsent[q]
  BY <1>2, Zenon DEF Sent
<1>6. \A q \in Rank : tries[q] = 0 => tries'[q] = 0
  BY <1>2, Zenon DEF Sent
<1>7. Done' = Done \cup {r}
  BY <1>4, Zenon DEF Done
<1>8. Told' = Told
  BY <1>4, Zenon DEF Told
<1> QED BY <1>4, <1>5, <1>6, <1>7, <1>8, Zenon

\* No message has been sent at first.
LEMMA CInvInit == Init => CInv
<1> SUFFICES ASSUME Init PROVE CQuiet /\ CTold /\ CWhole /\ CCtld
  BY Zenon DEF CInv
<1>1. /\ \A r \in Rank : bits[r] = {} /\ tries[r] = 0 /\ st[r] = "absent"
      /\ ctld = << >>
  BY Zenon DEF Init
<1>2. Told = {}
  BY <1>1, Zenon DEF Told
<1> QED BY <1>1, <1>2, Zenon DEF CQuiet, CTold, CWhole, CCtld

\* Every step keeps CInv.
LEMMA CInvStep == EInv /\ CInv /\ [Next]_vars => CInv'
<1> SUFFICES ASSUME SType, RInv, CInv, [Next]_vars, clean'
             PROVE  CQuiet' /\ CTold' /\ CWhole' /\ CCtld'
  <2>1. CInv' <=> (clean => CQuiet /\ CTold /\ CWhole /\ CCtld)'
    BY Zenon DEF CInv
  <2> QED BY <2>1, Zenon DEF EInv
<1>1. CASE UNCHANGED vars
  <2>1. UNCHANGED <<st, wait_children, bits, step_rc, unsent, tries, ctld, clean>>
    BY <1>1, Zenon DEF vars, step_complete, sending
  <2>2. clean
    BY <2>1, Zenon
  <2>3. Done' = Done /\ Told' = Told
    BY <2>1, Zenon DEF Done, Told
  <2> QED BY <2>1, <2>2, <2>3, Zenon DEF CInv, CQuiet, CTold, CWhole, CCtld
<1>0. st \in [Rank -> States]
  BY Zenon DEF SType
<1>2. ASSUME NEW r \in Rank, Start(r) \/ Finish(r) \/ Exit(r)
      PROVE  CQuiet' /\ CTold' /\ CWhole' /\ CCtld'
  <2>1. UNCHANGED <<wait_children, bits, step_rc, unsent, tries, ctld, clean>>
    BY <1>2, Zenon DEF Start, Finish, Exit, step_complete, sending
  <2>2. clean /\ CQuiet /\ CTold /\ CWhole /\ CCtld
    BY <2>1, Zenon DEF CInv
  <2>3. Done' = Done /\ Told' = Told /\ \A q \in Rank : st'[q] = "sending" => st[q] = "sending"
    BY <1>0, <1>2, Zenon DEF Start, Finish, Exit, Goto, Done, Told
  <2> QED BY <2>1, <2>2, <2>3, Zenon DEF CQuiet, CTold, CWhole, CCtld
<1>3. ASSUME NEW r \in Rank, Waited(r)
      PROVE  CQuiet' /\ CTold' /\ CWhole' /\ CCtld'
  <2>1. clean /\ Cardinality(bits[r]) = children[r]
    BY <1>3, Zenon DEF Waited
  <2>2. CQuiet /\ CTold /\ CWhole /\ CCtld
    BY <2>1, Zenon DEF CInv
  <2>3. bits[r] = r + 1 .. r + children[r]
    <3>1. PICK c \in Nat : c = children[r] /\ r \in Nat
      BY TreeFacts DEF Rank
    <3>2. bits[r] \in SUBSET (r + 1 .. r + c)
      BY <3>1, Zenon DEF RInv
    <3>3. IsFiniteSet(r + 1 .. r + c) /\ Cardinality(r + 1 .. r + c) = c
      <4>1. PICK a \in Int, b \in Int : a = r + 1 /\ b = r + c
        BY <3>1
      <4>2. IsFiniteSet(a .. b) /\ Cardinality(a .. b) = IF a > b THEN 0 ELSE b - a + 1
        BY FS_Interval, Zenon
      <4>3. (IF a > b THEN 0 ELSE b - a + 1) = c
        BY <3>1, <4>1, SMTT(30)
      <4> QED BY <4>1, <4>2, <4>3, Zenon
    <3> QED BY <2>1, <3>1, <3>2, <3>3, FS_Subset, Zenon
  <2>4. ToSend(r) = <<[first |-> r, last |-> r + children[r]]>>
    BY <2>3, ToSendWhole, Zenon
  <2>5. /\ unsent' = [unsent EXCEPT ![r] = ToSend(r)] /\ st[r] = "waiting" /\ Goto(r, "sending")
        /\ wait_children' = [wait_children EXCEPT ![r] = FALSE]
        /\ step_rc' = [step_rc EXCEPT ![r] = get_exit_code(r)]
        /\ UNCHANGED <<bits, tries, ctld>>
    BY <1>3, Zenon DEF Waited
  <2>6. \A q \in Rank : st'[q] = IF q = r THEN "sending" ELSE st[q]
    BY <1>0, <2>5, Zenon DEF Goto
  <2>7. Done' = Done /\ Told' = Told \cup {r}
    BY <2>5, <2>6, Zenon DEF Done, Told
  <2>8. CQuiet'
    BY <2>2, <2>5, <2>7, Zenon DEF CQuiet
  <2>9. CTold'
    <3>1. wait_children \in [Rank -> BOOLEAN]
      BY Zenon DEF SType
    <3>2. \A q \in Told' : ~ wait_children'[q]
      BY <2>2, <2>5, <2>7, <3>1, Zenon DEF CTold, Told
    <3>3. \A q \in Told' : bits'[q] = q + 1 .. q + children[q]
      BY <2>2, <2>3, <2>5, <2>7, Zenon DEF CTold
    <3> QED BY <3>2, <3>3, Zenon DEF CTold
  <2>10. CWhole'
    <3>1. unsent \in [Rank -> Seq(Piece)]
      BY Zenon DEF SType
    <3> QED BY <2>2, <2>4, <2>5, <2>6, <3>1, Zenon DEF CWhole
  <2>11. CCtld'
    <3>1. ctld # << >> => r # 0
      BY <2>2, <2>5, Zenon DEF CCtld, Done
    <3>2. step_rc \in [Rank -> Nat] /\ 0 \in Rank
      BY TreeFacts, Zenon DEF SType
    <3>3. r # 0 => step_rc'[0] = step_rc[0]
      BY <2>5, <3>2, Zenon
    <3> QED BY <2>2, <2>5, <2>7, <3>1, <3>3, Zenon DEF CCtld
  <2> QED BY <2>8, <2>9, <2>10, <2>11, Zenon
<1>4. ASSUME NEW r \in Rank, SendToParent(r)
      PROVE  CQuiet' /\ CTold' /\ CWhole' /\ CCtld'
  <2>1. /\ st[r] = "sending" /\ parent[r] # -1 /\ Sent(r) /\ Taking(parent[r])
        /\ Handle_completion(parent[r], msg(r)) /\ UNCHANGED <<ctld, clean>>
    BY <1>4, Zenon DEF SendToParent, ToParent
  <2>2. clean /\ CQuiet /\ CTold /\ CWhole /\ CCtld
    BY <2>1, Zenon DEF CInv
  <2>3. PICK p \in Rank : p = parent[r] /\ p # r
    BY <2>1, ParentRank, Zenon
  <2>4. p \notin Told
    BY <2>1, <2>2, <2>3, Zenon DEF Taking, CTold
  <2>5. /\ Done' = Done \cup {r} /\ Told' = Told
        /\ \A q \in Rank : st'[q] = "sending" => q # r /\ st[q] = "sending" /\ unsent'[q] = unsent[q]
        /\ \A q \in Rank : tries[q] = 0 => tries'[q] = 0
    BY <2>1, <2>2, CSent, Zenon
  <2>6. /\ bits' = [bits EXCEPT ![p] = @ \cup (r .. r + children[r])]
        /\ UNCHANGED wait_children
        /\ \A q \in Rank : q # p => step_rc'[q] = step_rc[q]
    <3>1. msg(r).first = r /\ msg(r).last = r + children[r]
      BY <2>1, <2>2, CMsg, Zenon
    <3>2. step_rc \in [Rank -> Nat]
      BY Zenon DEF SType
    <3> QED BY <2>1, <2>3, <3>1, <3>2, Zenon DEF Handle_completion
  <2>7. bits \in [Rank -> SUBSET Rank]
    BY Zenon DEF SType
  <2>8. CQuiet'
    <3>1. r .. r + children[r] \subseteq Done'
      <4>1. r \in Told
        BY <2>1, Zenon DEF Told
      <4>2. r + 1 .. r + children[r] \subseteq Done
        BY <2>2, <4>1, Zenon DEF CTold, CQuiet
      <4>3. PICK c \in Nat : c = children[r] /\ r \in Nat
        BY TreeFacts DEF Rank
      <4>4. \A x \in r .. r + c : x = r \/ x \in r + 1 .. r + c
        BY <4>3
      <4> QED BY <4>2, <4>3, <4>4, <2>5, Zenon
    <3>2. \A q \in Rank : bits'[q] \subseteq Done'
      BY <2>2, <2>5, <2>6, <2>7, <3>1, Zenon DEF CQuiet
    <3> QED BY <2>2, <2>5, <3>2, Zenon DEF CQuiet
  <2>9. CTold'
    <3>1. \A q \in Told : q \in Rank /\ q # p
      BY <2>4, Zenon DEF Told
    <3> QED BY <2>2, <2>5, <2>6, <2>7, <3>1, Zenon DEF CTold
  <2>10. CWhole'
    BY <2>2, <2>5, Zenon DEF CWhole
  <2>11. CCtld'
    <3>1. 0 \in Done => p # 0
      BY <2>4, Zenon DEF Done, Told
    <3>2. 0 \in Rank
      BY TreeFacts, Zenon
    <3> QED BY <2>1, <2>2, <2>5, <2>6, <3>1, <3>2, SMTT(30) DEF CCtld
  <2> QED BY <2>8, <2>9, <2>10, <2>11, Zenon
<1>5. ASSUME NEW r \in Rank, SendToCtld(r)
      PROVE  CQuiet' /\ CTold' /\ CWhole' /\ CCtld'
  <2>1. /\ ToCtld(r) /\ st[r] = "sending" /\ Sent(r) /\ ctld' = Append(ctld, msg(r))
        /\ UNCHANGED <<wait_children, bits, step_rc, clean>>
    BY <1>5, Zenon DEF SendToCtld, ToCtld, step_complete
  <2>2. clean /\ CQuiet /\ CTold /\ CWhole /\ CCtld
    BY <2>1, Zenon DEF CInv
  <2>3. r = 0
    <3>1. tries[r] # PARENT_RETRY
      BY <2>2, StepCompleteAssumption, Zenon DEF CQuiet
    <3>2. parent[r] = -1
      BY <2>1, <3>1, Zenon DEF ToCtld
    <3> QED BY <3>2, TreeFacts DEF Rank
  <2>4. ctld = << >>
    <3>1. 0 \notin Done
      BY <2>1, <2>3, Zenon DEF Done
    <3> QED BY <2>2, <3>1, Zenon DEF CCtld
  <2>5. /\ Done' = Done \cup {r} /\ Told' = Told
        /\ \A q \in Rank : st'[q] = "sending" => q # r /\ st[q] = "sending" /\ unsent'[q] = unsent[q]
        /\ \A q \in Rank : tries[q] = 0 => tries'[q] = 0
    BY <2>1, <2>2, CSent, Zenon
  <2>6. PICK m \in Message : m = msg(r) /\ m.first = 0 /\ m.last = num_nodes - 1 /\ m.rc = step_rc[0]
    <3>1. msg(r) \in Message /\ msg(r).rc = step_rc[r]
      BY <2>1, MsgType, Zenon
    <3>2. msg(r).first = r /\ msg(r).last = r + children[r]
      BY <2>1, <2>2, CMsg, Zenon
    <3>3. r + children[r] = num_nodes - 1
      BY <2>3, TreeFacts, StepCompleteAssumption
    <3> QED BY <2>3, <3>1, <3>2, <3>3, Zenon
  <2>7. ctld' = <<m>>
    BY <2>1, <2>4, <2>6
  <2>8. Len(ctld') = 1 /\ ctld'[1] = m
    BY <2>7, Zenon
  <2>9. CCtld'
    BY <2>1, <2>3, <2>5, <2>6, <2>8, Zenon DEF CCtld
  <2>10. CQuiet'
    BY <2>1, <2>2, <2>5, Zenon DEF CQuiet
  <2>11. CTold' /\ CWhole'
    BY <2>1, <2>2, <2>5, Zenon DEF CTold, CWhole
  <2> QED BY <2>9, <2>10, <2>11, Zenon
<1>6. ASSUME NEW r \in Rank,
             Abort(r) \/ ParentReplyLost(r) \/ ParentFails(r) \/ CtldReplyLost(r) \/ Die(r)
      PROVE  FALSE
  BY <1>6, Zenon DEF Abort, ParentReplyLost, ParentFails, CtldReplyLost, Die
<1> QED BY <1>1, <1>2, <1>3, <1>4, <1>5, <1>6, SMTT(30) DEF Next, Step

\* When nothing failed the controller gets one message, for all ranks, which are done
\* then, for any number of ranks and any width (OneMessage).
THEOREM OneMessageForAll == Spec => []OneMessage
<1>1. EInv /\ CInv => OneMessage
  <2> SUFFICES ASSUME SType, CInv, clean, ctld # << >>
               PROVE  Len(ctld) = 1 /\ Reported = Rank /\ \A r \in Rank : st[r] \in {"ending", "ended"}
    BY Zenon DEF EInv, OneMessage
  <2>1. CQuiet /\ CTold /\ CCtld
    BY Zenon DEF CInv
  <2>2. /\ 0 \in Done /\ Len(ctld) = 1 /\ ctld[1].first = 0 /\ ctld[1].last = num_nodes - 1
    BY <2>1, Zenon DEF CCtld
  <2>3. Reported = Rank
    <3>1. 1 .. Len(ctld) = {1}
      BY <2>2
    <3> QED BY <2>2, <3>1, Zenon DEF Reported, Rank
  <2>4. 1 .. num_nodes - 1 \subseteq Done
    <3>1. 0 \in Told /\ 0 \in Rank
      BY <2>2, Zenon DEF Done, Told
    <3>2. bits[0] = 0 + 1 .. 0 + children[0]
      BY <2>1, <3>1, Zenon DEF CTold
    <3>3. bits[0] = 1 .. num_nodes - 1
      BY <3>2, TreeFacts, StepCompleteAssumption
    <3> QED BY <2>1, <3>1, <3>3, Zenon DEF CQuiet
  <2>5. \A r \in Rank : r = 0 \/ r \in 1 .. num_nodes - 1
    BY StepCompleteAssumption DEF Rank
  <2>6. \A r \in Rank : r \in Done
    BY <2>2, <2>4, <2>5, Zenon
  <2> QED BY <2>2, <2>3, <2>6, Zenon DEF Done
<1> QED BY <1>1, EInvInit, EInvStep, CInvInit, CInvStep, PTL DEF Spec

\* What holds while nothing has failed and if no task was signalled: step_rc is at least
\* the exit status of every rank whose bit is set, and of the rank itself once it sends,
\* and it is the exit status of some rank, or 0.
XBelow == \A r \in Rank : \A s \in bits[r] : LastTask(s) <= step_rc[r]
XOwn == \A r \in Told : LastTask(r) <= step_rc[r]
XSome == \A r \in Rank : step_rc[r] = 0 \/ \E s \in Rank : step_rc[r] = LastTask(s)

XInv == clean /\ unsignaled => XBelow /\ XOwn /\ XSome

\* No bit is set at first.
LEMMA XInvInit == Init => XInv
<1> SUFFICES ASSUME Init PROVE XBelow /\ XOwn /\ XSome
  BY Zenon DEF XInv
<1>1. \A r \in Rank : bits[r] = {} /\ step_rc[r] = 0 /\ st[r] = "absent"
  BY Zenon DEF Init
<1>2. Told = {}
  BY <1>1, Zenon DEF Told
<1> QED BY <1>1, <1>2, Zenon DEF XBelow, XOwn, XSome

\* Every step keeps XInv.
LEMMA XInvStep == EInv /\ CInv /\ XInv /\ [Next]_vars => XInv'
<1> SUFFICES ASSUME SType, RInv, CInv, XInv, [Next]_vars, clean', unsignaled
             PROVE  XBelow' /\ XOwn' /\ XSome'
  <2>1. (clean' /\ unsignaled => XBelow' /\ XOwn' /\ XSome') => XInv'
    BY Zenon DEF XInv, unsignaled
  <2> QED BY <2>1, Zenon DEF EInv
<1>0. clean => CQuiet /\ CTold /\ CWhole /\ CCtld /\ XBelow /\ XOwn /\ XSome
  BY Zenon DEF CInv, XInv
<1>1. /\ st \in [Rank -> States] /\ step_rc \in [Rank -> Nat] /\ bits \in [Rank -> SUBSET Rank]
      /\ \A s \in Rank : LastTask(s) \in Nat
  <2>1. st \in [Rank -> States] /\ step_rc \in [Rank -> Nat] /\ bits \in [Rank -> SUBSET Rank]
    BY Zenon DEF SType
  <2> QED BY <2>1, ExitCode, Zenon
<1>2. CASE UNCHANGED <<st, bits, step_rc, clean>>
  <2>1. Told' = Told
    BY <1>2, Zenon DEF Told
  <2> QED BY <1>0, <1>2, <2>1, Zenon DEF XBelow, XOwn, XSome, LastTask
<1>3. ASSUME NEW r \in Rank, Start(r) \/ Finish(r) \/ Exit(r) PROVE XBelow' /\ XOwn' /\ XSome'
  <2>1. UNCHANGED <<bits, step_rc, clean>>
    BY <1>3, Zenon DEF Start, Finish, Exit, step_complete
  <2>2. Told' = Told
    BY <1>1, <1>3, Zenon DEF Start, Finish, Exit, Goto, Told
  <2> QED BY <1>0, <2>1, <2>2, Zenon DEF XBelow, XOwn, XSome, LastTask
<1>4. ASSUME NEW r \in Rank, Waited(r) PROVE XBelow' /\ XOwn' /\ XSome'
  <2>1. clean /\ step_rc' = [step_rc EXCEPT ![r] = get_exit_code(r)] /\ UNCHANGED bits
        /\ Goto(r, "sending") /\ st[r] = "waiting"
    BY <1>4, Zenon DEF Waited
  <2>2. PICK a \in Nat, b \in Nat : a = step_rc[r] /\ b = LastTask(r)
    BY <1>1, Zenon
  <2>3. PICK m \in Nat : m = get_exit_code(r) /\ m \in {a, b} /\ a <= m /\ b <= m
    BY <1>1, <2>2, ExitCode, MaxPair, Zenon
  <2>4. \A q \in Rank : step_rc'[q] = IF q = r THEN m ELSE step_rc[q]
    BY <1>1, <2>1, <2>3, Zenon
  <2>5. Told' = Told \cup {r}
    BY <1>1, <2>1, Zenon DEF Goto, Told
  <2>6. XBelow'
    <3> SUFFICES ASSUME NEW q \in Rank, NEW s \in bits[q] PROVE LastTask(s) <= step_rc'[q]
      BY <2>1, Zenon DEF XBelow, LastTask
    <3>1. LastTask(s) <= step_rc[q] /\ LastTask(s) \in Nat
      BY <1>0, <1>1, <2>1, Zenon DEF XBelow
    <3> QED BY <2>2, <2>3, <2>4, <3>1, SMTT(30)
  <2>7. XOwn'
    <3> SUFFICES ASSUME NEW q \in Told \cup {r} PROVE LastTask(q) <= step_rc'[q]
      BY <2>5, Zenon DEF XOwn, LastTask
    <3>1. CASE q = r
      BY <2>2, <2>3, <2>4, <3>1, Zenon
    <3>2. CASE q # r
      BY <1>0, <2>1, <2>4, <3>2, Zenon DEF XOwn, Told
    <3> QED BY <3>1, <3>2, Zenon
  <2>8. XSome'
    <3> SUFFICES ASSUME NEW q \in Rank PROVE step_rc'[q] = 0 \/ \E s \in Rank : step_rc'[q] = LastTask(s)
      BY Zenon DEF XSome, LastTask
    <3>1. step_rc[q] = 0 \/ \E s \in Rank : step_rc[q] = LastTask(s)
      BY <1>0, <2>1, Zenon DEF XSome
    <3> QED BY <2>2, <2>3, <2>4, <3>1, Zenon
  <2> QED BY <2>6, <2>7, <2>8, Zenon
<1>5. ASSUME NEW r \in Rank, SendToParent(r) PROVE XBelow' /\ XOwn' /\ XSome'
  <2>1. /\ st[r] = "sending" /\ parent[r] # -1 /\ Sent(r) /\ Taking(parent[r])
        /\ Handle_completion(parent[r], msg(r)) /\ clean
    BY <1>5, Zenon DEF SendToParent, ToParent
  <2>2. CQuiet /\ CTold /\ CWhole /\ XBelow /\ XOwn /\ XSome
    BY <1>0, <2>1, Zenon
  <2>3. PICK p \in Rank : p = parent[r] /\ p # r
    BY <2>1, ParentRank, Zenon
  <2>4. p \notin Told /\ r \in Told
    BY <2>1, <2>2, <2>3, Zenon DEF Taking, CTold, Told
  <2>5. Told' = Told
    BY <2>1, <2>2, CSent, Zenon
  <2>6. msg(r).first = r /\ msg(r).last = r + children[r] /\ msg(r).rc = step_rc[r]
    BY <2>1, <2>2, CMsg, MsgType, Zenon
  <2>7. PICK a \in Nat, b \in Nat : a = step_rc[p] /\ b = step_rc[r]
    BY <1>1, Zenon
  <2>8. PICK m \in Nat : m = Max({a, b}) /\ m \in {a, b} /\ a <= m /\ b <= m
    BY MaxPair, Zenon
  <2>9. \A q \in Rank : step_rc'[q] = IF q = p THEN m ELSE step_rc[q]
    BY <1>1, <2>1, <2>3, <2>6, <2>7, <2>8 DEF Handle_completion
  <2>10. \A q \in Rank : bits'[q] = IF q = p THEN bits[p] \cup (r .. r + children[r]) ELSE bits[q]
    BY <1>1, <2>1, <2>3, <2>6, Zenon DEF Handle_completion
  <2>11. \A s \in r .. r + children[r] : s \in Rank /\ LastTask(s) <= b
    <3>1. PICK c \in Nat : c = children[r] /\ r \in Nat
      BY TreeFacts DEF Rank
    <3>2. \A s \in r .. r + c : s = r \/ s \in r + 1 .. r + c
      BY <3>1
    <3>3. bits[r] = r + 1 .. r + c
      BY <2>2, <2>4, <3>1, Zenon DEF CTold
    <3>4. \A s \in bits[r] : s \in Rank /\ LastTask(s) <= b
      BY <1>1, <2>2, <2>7, Zenon DEF XBelow
    <3>5. LastTask(r) <= b
      BY <2>2, <2>4, <2>7, Zenon DEF XOwn
    <3> QED BY <3>1, <3>2, <3>3, <3>4, <3>5, Zenon
  <2>12. XBelow'
    <3> SUFFICES ASSUME NEW q \in Rank, NEW s \in bits'[q] PROVE LastTask(s) <= step_rc'[q]
      BY Zenon DEF XBelow, LastTask
    <3>1. CASE q # p
      <4>1. bits'[q] = bits[q] /\ step_rc'[q] = step_rc[q]
        BY <2>9, <2>10, <3>1, Zenon
      <4> QED BY <2>2, <4>1, Zenon DEF XBelow
    <3>2. CASE q = p /\ s \in bits[p]
      <4>1. LastTask(s) <= a /\ s \in Rank
        BY <1>1, <2>2, <2>7, <3>2, Zenon DEF XBelow
      <4>2. PICK y \in Nat : y = LastTask(s)
        BY <1>1, <4>1, Zenon
      <4>3. y <= m
        BY <2>8, <4>1, <4>2, SMTT(30)
      <4>4. step_rc'[q] = m
        BY <2>9, <3>2, Zenon
      <4> QED BY <4>2, <4>3, <4>4, Zenon
    <3>3. CASE q = p /\ s \in r .. r + children[r]
      <4>1. LastTask(s) <= b /\ s \in Rank
        BY <2>11, <3>3, Zenon
      <4>2. PICK y \in Nat : y = LastTask(s)
        BY <1>1, <4>1, Zenon
      <4>3. y <= m
        BY <2>8, <4>1, <4>2, SMTT(30)
      <4>4. step_rc'[q] = m
        BY <2>9, <3>3, Zenon
      <4> QED BY <4>2, <4>3, <4>4, Zenon
    <3> QED BY <2>10, <3>1, <3>2, <3>3, Zenon
  <2>13. XOwn'
    <3> SUFFICES ASSUME NEW q \in Told PROVE LastTask(q) <= step_rc'[q]
      BY <2>5, Zenon DEF XOwn, LastTask
    <3>1. q # p /\ q \in Rank
      BY <2>4, Zenon DEF Told
    <3> QED BY <2>2, <2>9, <3>1, Zenon DEF XOwn
  <2>14. XSome'
    <3> SUFFICES ASSUME NEW q \in Rank PROVE step_rc'[q] = 0 \/ \E s \in Rank : step_rc'[q] = LastTask(s)
      BY Zenon DEF XSome, LastTask
    <3>1. \A x \in Rank : step_rc[x] = 0 \/ \E s \in Rank : step_rc[x] = LastTask(s)
      BY <2>2, Zenon DEF XSome
    <3> QED BY <2>3, <2>7, <2>8, <2>9, <3>1, SMTT(30)
  <2> QED BY <2>12, <2>13, <2>14, Zenon
<1>6. ASSUME NEW r \in Rank, SendToCtld(r) PROVE XBelow' /\ XOwn' /\ XSome'
  <2>1. st[r] = "sending" /\ Sent(r) /\ UNCHANGED <<bits, step_rc, clean>>
    BY <1>6, Zenon DEF SendToCtld, ToCtld, step_complete
  <2>2. CWhole /\ XBelow /\ XOwn /\ XSome
    BY <1>0, <2>1, Zenon
  <2>3. Told' = Told
    BY <2>1, <2>2, CSent, Zenon
  <2> QED BY <2>1, <2>2, <2>3, Zenon DEF XBelow, XOwn, XSome, LastTask
<1>7. ASSUME NEW r \in Rank,
             Abort(r) \/ ParentReplyLost(r) \/ ParentFails(r) \/ CtldReplyLost(r) \/ Die(r)
      PROVE  FALSE
  BY <1>7, Zenon DEF Abort, ParentReplyLost, ParentFails, CtldReplyLost, Die
<1>8. CASE UNCHANGED vars
  BY <1>2, <1>8, Zenon DEF vars, step_complete
<1> QED BY <1>3, <1>4, <1>5, <1>6, <1>7, <1>8, Zenon DEF Next, Step

\* Without faults and signals the controller gets the worst last exit status
\* (WorstExitReported).
THEOREM WorstExit == Spec => []WorstExitReported
<1>1. EInv /\ CInv /\ XInv => WorstExitReported
  <2> DEFINE S == {LastTask(r) : r \in Rank}
  <2>1. WorstExitReported <=> (clean /\ ctld # << >> /\ unsignaled => ctld[1].rc = Max(S))
    BY Zenon DEF WorstExitReported, LastTask, unsignaled
  <2> SUFFICES ASSUME SType, CInv, XInv, clean, ctld # << >>, unsignaled PROVE ctld[1].rc = Max(S)
    BY <2>1, Zenon DEF EInv
  <2>2. CQuiet /\ CTold /\ CCtld
    BY Zenon DEF CInv
  <2>3. XBelow /\ XOwn /\ XSome
    BY Zenon DEF XInv
  <2>4. \A r \in Rank : LastTask(r) \in Nat
    BY ExitCode, Zenon DEF SType
  <2>5. PICK m \in Nat : m = step_rc[0] /\ ctld[1].rc = m
    BY <2>2, TreeFacts, Zenon DEF CCtld, SType
  <2>6. 0 \in Told /\ 0 \in Rank
    BY <2>2, Zenon DEF CCtld, Done, Told
  <2>7. bits[0] = 1 .. num_nodes - 1
    <3>1. bits[0] = 0 + 1 .. 0 + children[0]
      BY <2>2, <2>6, Zenon DEF CTold
    <3> QED BY <3>1, TreeFacts, StepCompleteAssumption, SMTT(30)
  <2>8. \A r \in Rank : LastTask(r) <= m
    <3>1. \A r \in Rank : r = 0 \/ r \in 1 .. num_nodes - 1
      BY StepCompleteAssumption DEF Rank
    <3> QED BY <2>3, <2>5, <2>6, <2>7, <3>1, Zenon DEF XBelow, XOwn
  <2>9. m \in S
    <3>1. m = 0 \/ \E s \in Rank : m = LastTask(s)
      BY <2>3, <2>5, <2>6, Zenon DEF XSome
    <3>2. m = 0 => LastTask(0) = 0
      BY <2>4, <2>6, <2>8
    <3> QED BY <2>6, <3>1, <3>2, Zenon
  <2>10. \A y \in S : y \in Nat /\ y <= m
    BY <2>4, <2>8, Zenon
  <2> HIDE DEF S
  <2>11. \A x \in S : (\A y \in S : x >= y) => x = m
    BY <2>9, <2>10
  <2>12. \A y \in S : m >= y
    BY <2>10, Zenon
  <2>13. Max(S) = m
    BY <2>9, <2>11, <2>12, Zenon DEF Max
  <2> QED BY <2>5, <2>13, Zenon
<1> QED BY <1>1, EInvInit, EInvStep, CInvInit, CInvStep, XInvInit, XInvStep, PTL DEF Spec

-----------------------------------------------------------------------------
(* Every use is counted once. *)

\* The parts of KInv for the use of one rank s: where it can be counted before its
\* slurmstepd has sent it, with those who have still to send, at the controller.
KUnsent(s) == ~ acct_sent[s] => /\ \A r \in Rank : jobacct[r][s] = 0
                                /\ \A i \in 1 .. Len(ctld) : ctld[i].acct[s] = 0
KHolder(s) == \A r \in Rank : ~ acct_sent[r] =>
                 /\ jobacct[r][s] <= 1
                 /\ jobacct[r][s] # 0 => \A i \in 1 .. Len(ctld) : ctld[i].acct[s] = 0
KOne(s) == \A r, q \in Rank : r # q /\ ~ acct_sent[r] /\ ~ acct_sent[q]
                                => jobacct[r][s] + jobacct[q][s] <= 1
KCtld(s) == \A i, j \in 1 .. Len(ctld) : ctld[i].acct[s] + (IF i = j THEN 0 ELSE ctld[j].acct[s]) <= 1
KAll(s) == KUnsent(s) /\ KHolder(s) /\ KOne(s) /\ KCtld(s)

\* The inductive invariant for CountedOnce.
KInv == faults.reply = 0 => \A s \in Rank : KAll(s)

\* What the message of r counts for rank s.
LEMMA Carried ==
  ASSUME SType, NEW r \in Rank, st[r] = "sending", NEW s \in Rank
  PROVE  /\ msg(r).acct[s] \in Nat
         /\ acct_sent[r] => msg(r).acct[s] = 0
         /\ ~ acct_sent[r] => msg(r).acct[s] = jobacct[r][s] + (IF s = r THEN 1 ELSE 0)
<1>1. msg(r) \in Message
      /\ msg(r).acct = IF acct_sent[r] THEN Nothing ELSE [jobacct[r] EXCEPT ![r] = @ + 1]
  BY MsgType, Zenon
<1>2. jobacct[r] \in [Rank -> Nat]
  BY Zenon DEF SType
<1>3. msg(r).acct \in [Rank -> Nat]
  BY <1>1, Zenon DEF Message
<1>4. ASSUME acct_sent[r] PROVE msg(r).acct[s] = 0
  BY <1>1, <1>4, Zenon DEF Nothing
<1>5. ASSUME ~ acct_sent[r] PROVE msg(r).acct[s] = jobacct[r][s] + (IF s = r THEN 1 ELSE 0)
  <2>1. msg(r).acct = [jobacct[r] EXCEPT ![r] = @ + 1]
    BY <1>1, <1>5, Zenon
  <2>2. CASE s = r
    BY <1>2, <2>1, <2>2, Zenon
  <2>3. CASE s # r
    <3>1. msg(r).acct[s] = jobacct[r][s]
      BY <1>2, <2>1, <2>3, Zenon
    <3>2. jobacct[r][s] \in Nat
      BY <1>2, Zenon
    <3> QED BY <2>3, <3>1, <3>2, SMTT(30)
  <2> QED BY <2>2, <2>3, Zenon
<1> QED BY <1>3, <1>4, <1>5, Zenon

\* ... which is at most once, and then neither another slurmstepd that has still to send
\* nor the controller has counted it.
LEMMA CarriedOnce ==
  ASSUME SType, NEW r \in Rank, st[r] = "sending", NEW s \in Rank, KAll(s), KUnsent(r)
  PROVE  /\ msg(r).acct[s] \in Nat /\ msg(r).acct[s] <= 1
         /\ msg(r).acct[s] # 0 =>
              /\ ~ acct_sent[r] /\ (s = r \/ acct_sent[s])
              /\ \A q \in Rank : q # r /\ ~ acct_sent[q] => jobacct[q][s] = 0
              /\ \A i \in 1 .. Len(ctld) : ctld[i].acct[s] = 0
<1>1. PICK x : x = msg(r).acct[s]
  BY Zenon
<1>2. /\ x \in Nat
      /\ acct_sent[r] => x = 0
      /\ ~ acct_sent[r] => x = jobacct[r][s] + (IF s = r THEN 1 ELSE 0)
  BY <1>1, Carried, Zenon
<1>3. \A q \in Rank : jobacct[q][s] \in Nat
  BY Zenon DEF SType
<1>4. CASE acct_sent[r]
  BY <1>1, <1>2, <1>4, SMTT(30)
<1>5. CASE ~ acct_sent[r] /\ s = r
  <2>1. /\ \A q \in Rank : jobacct[q][s] = 0
        /\ \A i \in 1 .. Len(ctld) : ctld[i].acct[s] = 0
    BY <1>5, Zenon DEF KUnsent
  <2>2. x = 1
    BY <1>2, <1>5, <2>1, SMTT(30)
  <2> QED BY <1>1, <1>5, <2>1, <2>2, SMTT(30)
<1>6. CASE ~ acct_sent[r] /\ s # r
  <2>1. x = jobacct[r][s] /\ x <= 1
    BY <1>2, <1>3, <1>6, SMTT(30) DEF KAll, KHolder
  <2>2. ASSUME x # 0 PROVE acct_sent[s]
    BY <2>1, <2>2, Zenon DEF KAll, KUnsent
  <2>3. ASSUME x # 0 PROVE \A i \in 1 .. Len(ctld) : ctld[i].acct[s] = 0
    BY <1>6, <2>1, <2>3, Zenon DEF KAll, KHolder
  <2>4. ASSUME x # 0, NEW q \in Rank, q # r, ~ acct_sent[q] PROVE jobacct[q][s] = 0
    <3>1. x + jobacct[q][s] <= 1
      BY <1>6, <2>1, <2>4, Zenon DEF KAll, KOne
    <3> QED BY <1>2, <1>3, <2>4, <3>1, SMTT(30)
  <2> QED BY <1>1, <1>2, <1>6, <2>1, <2>2, <2>3, <2>4, SMTT(30)
<1> QED BY <1>4, <1>5, <1>6, Zenon

\* The parent takes the use that the message carries.
LEMMA AcctTaken ==
  ASSUME SType, NEW r \in Rank, st[r] = "sending", parent[r] # -1, Sent(r), UNCHANGED ctld,
         Handle_completion(parent[r], msg(r)), NEW s \in Rank, KAll(s), KUnsent(r)
  PROVE  KAll(s)'
<1>1. PICK p \in Rank : p = parent[r] /\ p # r
  BY ParentRank, Zenon
<1>2. PICK x \in Nat : /\ x = msg(r).acct[s] /\ x <= 1
                       /\ x # 0 => /\ ~ acct_sent[r] /\ (s = r \/ acct_sent[s])
                                   /\ \A q \in Rank : q # r /\ ~ acct_sent[q] => jobacct[q][s] = 0
                                   /\ \A i \in 1 .. Len(ctld) : ctld[i].acct[s] = 0
  BY CarriedOnce, Zenon
<1>3. \A q \in Rank : jobacct[q][s] \in Nat
  BY Zenon DEF SType
<1>4. \A q \in Rank : jobacct'[q][s] = IF q = p THEN jobacct[p][s] + x ELSE jobacct[q][s]
  <2>1. jobacct \in [Rank -> [Rank -> Nat]] /\ jobacct' = [jobacct EXCEPT ![p] = Plus(@, msg(r).acct)]
    BY <1>1, Zenon DEF SType, Handle_completion
  <2>2. Plus(jobacct[p], msg(r).acct)[s] = jobacct[p][s] + x
    BY <1>2, Zenon DEF Plus
  <2> QED BY <2>1, <2>2, Zenon
<1>5. \A q \in Rank : acct_sent'[q] = IF q = r THEN TRUE ELSE acct_sent[q]
  BY Zenon DEF SType, Sent
<1>6. KUnsent(s)'
  <2> SUFFICES ASSUME ~ acct_sent'[s]
               PROVE  /\ \A q \in Rank : jobacct'[q][s] = 0
                      /\ \A i \in 1 .. Len(ctld) : ctld[i].acct[s] = 0
    BY Zenon DEF KUnsent
  <2>1. s # r /\ ~ acct_sent[s]
    BY <1>5, Zenon
  <2>2. x = 0
    BY <1>2, <2>1, Zenon
  <2>3. /\ \A q \in Rank : jobacct[q][s] = 0
        /\ \A i \in 1 .. Len(ctld) : ctld[i].acct[s] = 0
    BY <2>1, Zenon DEF KAll, KUnsent
  <2> QED BY <1>4, <2>2, <2>3, SMTT(30)
<1>7. ASSUME NEW q \in Rank, ~ acct_sent'[q]
      PROVE  /\ q # r /\ ~ acct_sent[q]
             /\ jobacct'[q][s] \in Nat /\ jobacct'[q][s] <= 1
             /\ x # 0 => jobacct'[q][s] = IF q = p THEN x ELSE 0
             /\ x = 0 => jobacct'[q][s] = jobacct[q][s]
  <2>1. q # r /\ ~ acct_sent[q]
    BY <1>5, <1>7, Zenon
  <2>2. jobacct[q][s] <= 1
    BY <2>1, Zenon DEF KAll, KHolder
  <2>3. CASE x = 0
    BY <1>3, <1>4, <2>1, <2>2, <2>3, SMTT(30)
  <2>4. CASE x # 0
    <3>1. jobacct[q][s] = 0
      BY <1>2, <2>1, <2>4, Zenon
    <3> QED BY <1>2, <1>4, <2>1, <2>4, <3>1, SMTT(30)
  <2> QED BY <2>3, <2>4, Zenon
<1>8. KHolder(s)'
  <2> SUFFICES ASSUME NEW q \in Rank, ~ acct_sent'[q]
               PROVE  /\ jobacct'[q][s] <= 1
                      /\ jobacct'[q][s] # 0 => \A i \in 1 .. Len(ctld) : ctld[i].acct[s] = 0
    BY Zenon DEF KHolder
  <2>1. CASE x # 0
    BY <1>2, <1>7, <2>1, Zenon
  <2>2. CASE x = 0
    BY <1>7, <2>2, Zenon DEF KAll, KHolder
  <2> QED BY <2>1, <2>2, <1>2, Zenon
<1>9. KOne(s)'
  <2> SUFFICES ASSUME NEW q \in Rank, NEW t \in Rank, q # t, ~ acct_sent'[q], ~ acct_sent'[t]
               PROVE  jobacct'[q][s] + jobacct'[t][s] <= 1
    BY Zenon DEF KOne
  <2>1. CASE x # 0
    <3>1. jobacct'[q][s] = (IF q = p THEN x ELSE 0) /\ jobacct'[t][s] = (IF t = p THEN x ELSE 0)
      BY <1>7, <2>1, Zenon
    <3> QED BY <1>2, <3>1, SMTT(30)
  <2>2. CASE x = 0
    <3>1. jobacct'[q][s] = jobacct[q][s] /\ jobacct'[t][s] = jobacct[t][s]
      BY <1>7, <2>2, Zenon
    <3>2. jobacct[q][s] + jobacct[t][s] <= 1
      BY <1>7, Zenon DEF KAll, KOne
    <3> QED BY <3>1, <3>2, Zenon
  <2> QED BY <2>1, <2>2, Zenon
<1>10. KCtld(s)'
  BY Zenon DEF KAll, KCtld
<1> QED BY <1>6, <1>8, <1>9, <1>10, Zenon DEF KAll

\* The controller takes the use that the message carries.
LEMMA AcctReported ==
  ASSUME SType, NEW r \in Rank, st[r] = "sending", Sent(r), UNCHANGED jobacct,
         ctld' = Append(ctld, msg(r)), NEW s \in Rank, KAll(s), KUnsent(r)
  PROVE  KAll(s)'
<1>1. PICK x \in Nat : /\ x = msg(r).acct[s] /\ x <= 1
                       /\ x # 0 => /\ ~ acct_sent[r] /\ (s = r \/ acct_sent[s])
                                   /\ \A q \in Rank : q # r /\ ~ acct_sent[q] => jobacct[q][s] = 0
                                   /\ \A i \in 1 .. Len(ctld) : ctld[i].acct[s] = 0
  BY CarriedOnce, SMTT(30)
<1>2. PICK n \in Nat : n = Len(ctld) /\ Len(ctld') = n + 1
  BY MsgType, SMTT(30) DEF SType
<1>3. /\ \A i \in 1 .. n : ctld'[i] = ctld[i] /\ ctld[i].acct[s] \in Nat
      /\ ctld'[n + 1] = msg(r)
  <2>1. ctld \in Seq(Message) /\ msg(r) \in Message
    BY MsgType, Zenon DEF SType
  <2>2. \A i \in 1 .. n : ctld[i] \in Message
    BY <1>2, <2>1
  <2>3. \A m \in Message : m.acct[s] \in Nat
    BY Zenon DEF Message
  <2>4. \A i \in 1 .. n : ctld'[i] = ctld[i]
    BY <1>2, <2>1
  <2>5. ctld'[n + 1] = msg(r)
    BY <1>2, <2>1, SMTT(30)
  <2> QED BY <2>2, <2>3, <2>4, <2>5, Zenon
<1>4. \A q \in Rank : jobacct[q][s] \in Nat
  BY Zenon DEF SType
<1>5. \A q \in Rank : acct_sent'[q] = IF q = r THEN TRUE ELSE acct_sent[q]
  BY Zenon DEF SType, Sent
<1>6. ASSUME x = 0, \A i \in 1 .. n : ctld[i].acct[s] = 0
      PROVE  \A i \in 1 .. n + 1 : ctld'[i].acct[s] = 0
  <2> SUFFICES ASSUME NEW i \in 1 .. n + 1 PROVE ctld'[i].acct[s] = 0
    BY Zenon
  <2>1. i = n + 1 \/ i \in 1 .. n
    OBVIOUS
  <2> QED BY <1>1, <1>3, <1>6, <2>1, Zenon
<1>7. KUnsent(s)'
  <2> SUFFICES ASSUME ~ acct_sent'[s]
               PROVE  /\ \A q \in Rank : jobacct[q][s] = 0
                      /\ \A i \in 1 .. n + 1 : ctld'[i].acct[s] = 0
    BY <1>2, Zenon DEF KUnsent
  <2>1. s # r /\ ~ acct_sent[s]
    BY <1>5, Zenon
  <2>2. x = 0
    BY <1>1, <2>1, Zenon
  <2>3. /\ \A q \in Rank : jobacct[q][s] = 0
        /\ \A i \in 1 .. n : ctld[i].acct[s] = 0
    BY <1>2, <2>1, Zenon DEF KAll, KUnsent
  <2> QED BY <1>6, <2>2, <2>3, Zenon
<1>8. KHolder(s)'
  <2> SUFFICES ASSUME NEW q \in Rank, ~ acct_sent'[q]
               PROVE  /\ jobacct[q][s] <= 1
                      /\ jobacct[q][s] # 0 => \A i \in 1 .. n + 1 : ctld'[i].acct[s] = 0
    BY <1>2, Zenon DEF KHolder
  <2>1. q # r /\ ~ acct_sent[q]
    BY <1>5, Zenon
  <2>2. /\ jobacct[q][s] <= 1
        /\ jobacct[q][s] # 0 => \A i \in 1 .. n : ctld[i].acct[s] = 0
    BY <1>2, <2>1, Zenon DEF KAll, KHolder
  <2>3. jobacct[q][s] # 0 => x = 0
    BY <1>1, <2>1, Zenon
  <2> QED BY <1>6, <2>2, <2>3, Zenon
<1>9. KOne(s)'
  <2> SUFFICES ASSUME NEW q \in Rank, NEW t \in Rank, q # t, ~ acct_sent'[q], ~ acct_sent'[t]
               PROVE  jobacct[q][s] + jobacct[t][s] <= 1
    BY Zenon DEF KOne
  <2>1. ~ acct_sent[q] /\ ~ acct_sent[t]
    BY <1>5, Zenon
  <2> QED BY <2>1, Zenon DEF KAll, KOne
<1>10. KCtld(s)'
  <2> SUFFICES ASSUME NEW i \in 1 .. n + 1, NEW j \in 1 .. n + 1
               PROVE  ctld'[i].acct[s] + (IF i = j THEN 0 ELSE ctld'[j].acct[s]) <= 1
    BY <1>2, Zenon DEF KCtld
  <2>1. (i = n + 1 \/ i \in 1 .. n) /\ (j = n + 1 \/ j \in 1 .. n)
    BY SMTT(30)
  <2>2. CASE i \in 1 .. n /\ j \in 1 .. n
    <3>1. ctld[i].acct[s] + (IF i = j THEN 0 ELSE ctld[j].acct[s]) <= 1
      BY <1>2, <2>2, Zenon DEF KAll, KCtld
    <3>2. ctld'[i] = ctld[i] /\ ctld'[j] = ctld[j]
      BY <1>3, <2>2, Zenon
    <3> QED BY <3>1, <3>2, Zenon
  <2>3. CASE i = n + 1 /\ j = n + 1
    <3>1. ctld'[i].acct[s] = x
      BY <1>1, <1>3, <2>3, Zenon
    <3> QED BY <1>1, <2>3, <3>1
  <2>4. ASSUME NEW k \in 1 .. n PROVE ctld[k].acct[s] \in Nat /\ x + ctld[k].acct[s] <= 1
    <3>1. PICK y \in Nat : y = ctld[k].acct[s]
      BY <1>3, Zenon
    <3>2. y + (IF k = k THEN 0 ELSE y) <= 1
      BY <1>2, <3>1, Zenon DEF KAll, KCtld
    <3>3. y <= 1
      BY <3>2, SMTT(30)
    <3>4. x # 0 => y = 0
      BY <1>1, <1>2, <3>1, Zenon
    <3> QED BY <1>1, <3>1, <3>3, <3>4, SMTT(30)
  <2>5. CASE i = n + 1 /\ j \in 1 .. n
    <3>1. ctld'[i].acct[s] = x /\ ctld'[j].acct[s] = ctld[j].acct[s]
      BY <1>1, <1>3, <2>5, Zenon
    <3>2. i # j
      BY <2>5, SMTT(30)
    <3>3. PICK y \in Nat : y = ctld[j].acct[s] /\ x + y <= 1
      BY <2>4, <2>5, Zenon
    <3> QED BY <3>1, <3>2, <3>3, Zenon
  <2>6. CASE i \in 1 .. n /\ j = n + 1
    <3>1. ctld'[j].acct[s] = x /\ ctld'[i].acct[s] = ctld[i].acct[s]
      BY <1>1, <1>3, <2>6, Zenon
    <3>2. i # j
      BY <2>6, SMTT(30)
    <3>3. PICK y \in Nat : y = ctld[i].acct[s] /\ x + y <= 1
      BY <2>4, <2>6, Zenon
    <3> QED BY <3>1, <3>2, <3>3
  <2> QED BY <2>1, <2>2, <2>3, <2>5, <2>6, Zenon
<1> QED BY <1>7, <1>8, <1>9, <1>10, Zenon DEF KAll

\* Nothing has been counted at first.
LEMMA KInvInit == Init => KInv
<1> SUFFICES ASSUME Init, NEW s \in Rank PROVE KAll(s)
  BY Zenon DEF KInv
<1>1. \A r \in Rank : jobacct[r][s] = 0
  BY Zenon DEF Init, Nothing
<1>2. ctld = << >>
  BY Zenon DEF Init
<1> QED BY <1>1, <1>2 DEF KAll, KUnsent, KHolder, KOne, KCtld

\* Every step keeps KInv: the steps that lose a reply make faults.reply positive.
LEMMA KInvStep == EInv /\ KInv /\ [Next]_vars => KInv'
<1> SUFFICES ASSUME SType, SType', KInv, [Next]_vars, faults'.reply = 0, NEW s \in Rank
             PROVE  KAll(s)'
  BY STypeStep, Zenon DEF EInv, KInv
<1>0. faults.reply \in Nat
  BY Zenon DEF SType
<1>1. ASSUME UNCHANGED <<jobacct, acct_sent, ctld>>, faults.reply = 0 PROVE KAll(s)'
  BY <1>1, Zenon DEF KInv, KAll, KUnsent, KHolder, KOne, KCtld
<1>2. CASE UNCHANGED vars
  BY <1>1, <1>2, Zenon DEF vars, step_complete, sending
<1>3. ASSUME NEW r \in Rank, Start(r) \/ Finish(r) \/ Waited(r) \/ Exit(r) PROVE KAll(s)'
  BY <1>1, <1>3, Zenon DEF Start, Finish, Waited, Exit, step_complete, sending
<1>4. ASSUME NEW r \in Rank, Abort(r) \/ Die(r) PROVE KAll(s)'
  <2>1. UNCHANGED <<jobacct, acct_sent, ctld>> /\ (Fault("abort") \/ Fault("death"))
    BY <1>4, Zenon DEF Abort, Die, step_complete, sending
  <2>2. faults.reply = 0
    BY <2>1, FaultType, Zenon
  <2> QED BY <1>1, <2>1, <2>2, Zenon
<1>5. ASSUME NEW r \in Rank, ParentFails(r) PROVE KAll(s)'
  <2>1. UNCHANGED <<jobacct, acct_sent, ctld>> /\ (Fault("lost") \/ UNCHANGED faults)
    BY <1>5, Zenon DEF ParentFails, TryAgain, step_complete
  <2>2. faults.reply = 0
    BY <2>1, FaultType, Zenon
  <2> QED BY <1>1, <2>1, <2>2, Zenon
<1>6. ASSUME NEW r \in Rank, ParentReplyLost(r) \/ CtldReplyLost(r) PROVE FALSE
  <2>1. Fault("reply")
    BY <1>6, Zenon DEF ParentReplyLost, CtldReplyLost
  <2>2. faults'.reply = faults.reply + 1
    BY <2>1, FaultType, Zenon
  <2> QED BY <1>0, <2>2, SMTT(30)
<1>7. ASSUME NEW r \in Rank, SendToParent(r) PROVE KAll(s)'
  <2>1. /\ st[r] = "sending" /\ parent[r] # -1 /\ Sent(r) /\ UNCHANGED <<ctld, faults>>
        /\ Handle_completion(parent[r], msg(r))
    BY <1>7, Zenon DEF SendToParent, ToParent
  <2>2. KAll(s) /\ KUnsent(r)
    BY <2>1, Zenon DEF KInv, KAll
  <2> QED BY <2>1, <2>2, AcctTaken, Zenon
<1>8. ASSUME NEW r \in Rank, SendToCtld(r) PROVE KAll(s)'
  <2>1. st[r] = "sending" /\ Sent(r) /\ UNCHANGED <<jobacct, faults>> /\ ctld' = Append(ctld, msg(r))
    BY <1>8, Zenon DEF SendToCtld, ToCtld, step_complete
  <2>2. KAll(s) /\ KUnsent(r)
    BY <2>1, Zenon DEF KInv, KAll
  <2> QED BY <2>1, <2>2, AcctReported, Zenon
<1> QED BY <1>2, <1>3, <1>4, <1>5, <1>6, <1>7, <1>8, SMTT(30) DEF Next, Step

\* With no lost reply no use is counted twice in what the controller gets, however the
\* messages went, as accounting goes with the first message only (CountedOnce).
THEOREM UseCountedOnce == Spec => []CountedOnce
<1>1. KInv => CountedOnce
  BY Zenon DEF KInv, KAll, KCtld, CountedOnce
<1> QED BY <1>1, EInvInit, EInvStep, KInvInit, KInvStep, PTL DEF Spec
=============================================================================
