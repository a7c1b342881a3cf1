-------------------------- MODULE ReverseTreeProofs --------------------------
(***************************************************************************)
(* Proofs about module ReverseTree, for any number of ranks and any width: *)
(* the tree that reverse_tree_info describes is one and made of blocks.    *)
(***************************************************************************)
EXTENDS ReverseTree, FiniteSetTheorems, WellFoundedInduction, TLAPS

(* Induction and definition by recursion. *)

\* A nonempty set of naturals has a least element: what the inductions below use.
LEMMA NatMin ==
  ASSUME NEW S \in SUBSET Nat, S # {}
  PROVE  \E i \in S : \A k \in S : i <= k
<1>1. PICK x \in S : \A y \in S : ~ (<<y, x>> \in OpToRel(<, Nat))
  BY NatLessThanWellFounded, WFMin, Zenon
<1>2. ASSUME NEW y \in S, y < x PROVE FALSE
  <2>1. <<y, x>> \in OpToRel(<, Nat)
    BY <1>2, Zenon DEF OpToRel
  <2> QED BY <2>1, <1>1, Zenon
<1>3. \A k \in S : x <= k
  BY ONLY <1>2, S \in SUBSET Nat, x \in S
<1> QED BY ONLY <1>3, x \in S, Zenon

\* Induction: a set of naturals with 0 and with the successors of its members.
LEMMA NatSet ==
  ASSUME NEW S, 0 \in S, \A n \in Nat : n \in S => n + 1 \in S
  PROVE  \A n \in Nat : n \in S
<1> SUFFICES ASSUME NEW b \in Nat, b \notin S PROVE FALSE
  BY Zenon
<1> DEFINE B == {n \in Nat : n \notin S}
<1>1. B \in SUBSET Nat /\ B # {}
  BY Zenon
<1>2. PICK m \in B : \A k \in B : m <= k
  BY <1>1, NatMin, Zenon
<1>3. m \in Nat /\ m # 0 /\ m \notin S
  BY <1>2, Zenon
<1>4. m - 1 \in Nat /\ m - 1 \notin B
  BY <1>2, <1>3
<1> QED BY <1>3, <1>4

\* There is a sequence that starts with s and goes on with F.
Recursed(S, s, F) ==
  \E f \in [Nat -> S] : f[0] = s /\ \A n \in Nat : f[n + 1] = F[n][f[n]]

\* g holds the first n + 1 values of that sequence.
Begins(g, n, s, F) ==
  /\ g[0] = s
  /\ \A k \in 0 .. n - 1 : g[k + 1] = F[k][g[k]]

\* Definition by primitive recursion.
LEMMA PrimitiveRecursion ==
  ASSUME NEW S, NEW s \in S, NEW F \in [Nat -> [S -> S]]
  PROVE  Recursed(S, s, F)
<1> DEFINE Good(g, n) == Begins(g, n, s, F)
<1>1. \A n \in Nat : \E g \in [0 .. n -> S] : Good(g, n)
  <2> DEFINE H == {n \in Nat : \E g \in [0 .. n -> S] : Good(g, n)}
  <2>1. 0 \in H
    <3>1. [i \in 0 .. 0 |-> s] \in [0 .. 0 -> S] /\ Good([i \in 0 .. 0 |-> s], 0)
      BY DEF Begins
    <3> QED BY <3>1, Zenon
  <2>2. ASSUME NEW n \in Nat, n \in H PROVE n + 1 \in H
    <3>1. PICK g \in [0 .. n -> S] : Good(g, n)
      BY <2>2, Zenon
    <3> DEFINE h == [i \in 0 .. n + 1 |-> IF i = n + 1 THEN F[n][g[n]] ELSE g[i]]
    <3>2. h \in [0 .. n + 1 -> S]
      <4>1. F[n] \in [S -> S] /\ g[n] \in S
        OBVIOUS
      <4> QED BY <4>1
    <3>3. h[0] = s /\ \A k \in 0 .. n : h[k + 1] = F[k][h[k]]
      <4>1. h[0] = g[0] /\ \A k \in 0 .. n : h[k] = g[k]
        OBVIOUS
      <4>2. h[n + 1] = F[n][h[n]]
        BY <4>1
      <4>3. ASSUME NEW k \in 0 .. n - 1 PROVE h[k + 1] = F[k][h[k]]
        <5>1. g[k + 1] = F[k][g[k]]
          BY <3>1, Zenon DEF Begins
        <5>2. h[k + 1] = g[k + 1] /\ h[k] = g[k]
          OBVIOUS
        <5> QED BY <5>1, <5>2, Zenon
      <4>4. g[0] = s
        BY <3>1, Zenon DEF Begins
      <4> HIDE DEF h
      <4>5. \A k \in 0 .. n : k = n \/ k \in 0 .. n - 1
        OBVIOUS
      <4> QED BY <4>1, <4>2, <4>3, <4>4, <4>5, Zenon
    <3> HIDE DEF h
    <3>4. Good(h, n + 1)
      BY <3>3 DEF Begins
    <3> QED BY <3>2, <3>4
  <2> HIDE DEF H
  <2>3. \A n \in Nat : n \in H
    BY <2>1, <2>2, NatSet, Zenon
  <2> QED BY <2>3, Zenon DEF H
<1>2. \A n \in Nat : \A g, h : Good(g, n) /\ Good(h, n + 1) => g[n] = h[n]
  <2> SUFFICES ASSUME NEW n \in Nat, NEW g, NEW h, Good(g, n), Good(h, n + 1)
               PROVE  g[n] = h[n]
    BY Zenon
  <2> DEFINE E == {k \in Nat : k <= n => g[k] = h[k]}
  <2>1. 0 \in E
    BY Zenon DEF Begins
  <2>2. ASSUME NEW k \in Nat, k \in E PROVE k + 1 \in E
    <3> SUFFICES ASSUME k + 1 <= n PROVE g[k + 1] = h[k + 1]
      OBVIOUS
    <3>1. g[k + 1] = F[k][g[k]] /\ h[k + 1] = F[k][h[k]]
      BY DEF Begins
    <3>2. g[k] = h[k]
      BY <2>2
    <3> QED BY <3>1, <3>2, Zenon
  <2> HIDE DEF E
  <2>3. n \in E
    BY <2>1, <2>2, NatSet, Zenon
  <2> QED BY <2>3 DEF E
<1> DEFINE p(n) == CHOOSE g \in [0 .. n -> S] : Good(g, n)
           f == [n \in Nat |-> p(n)[n]]
<1>3. \A n \in Nat : p(n) \in [0 .. n -> S] /\ Good(p(n), n)
  BY <1>1, Zenon
<1> HIDE DEF p
<1>4. f \in [Nat -> S]
  <2>1. ASSUME NEW n \in Nat PROVE p(n)[n] \in S
    BY <1>3
  <2> QED BY <2>1, Zenon
<1>5. f[0] = s
  BY <1>3, Zenon DEF Begins
<1>6. ASSUME NEW n \in Nat PROVE f[n + 1] = F[n][f[n]]
  <2>1. Good(p(n), n) /\ Good(p(n + 1), n + 1)
    BY <1>3
  <2>2. p(n + 1)[n + 1] = F[n][p(n + 1)[n]]
    BY <2>1 DEF Begins
  <2>3. p(n)[n] = p(n + 1)[n]
    BY <1>2, <2>1, Zenon
  <2>4. f[n + 1] = p(n + 1)[n + 1] /\ f[n] = p(n)[n]
    OBVIOUS
  <2> QED BY <2>2, <2>3, <2>4, Zenon
<1> HIDE DEF f
<1> QED BY <1>4, <1>5, <1>6, Zenon DEF Recursed

\* There is a function that is res at Stop and elsewhere what it is at next.
TailRecursed(V, A, Stop, res, next) ==
  \E f \in [V -> A] : \A v \in V : f[v] = IF v \in Stop THEN res[v] ELSE f[next[v]]

\* Definition by tail recursion: next is taken until Stop, and lowers mu.
LEMMA TailRecursion ==
  ASSUME NEW V, NEW A, NEW Stop, NEW res \in [V -> A], NEW next \in [V -> V],
         NEW mu \in [V -> Nat], \A v \in V : v \notin Stop => mu[next[v]] < mu[v]
  PROVE  TailRecursed(V, A, Stop, res, next)
<1> DEFINE G == [V -> A]
           step(g) == [v \in V |-> IF v \in Stop THEN res[v] ELSE g[next[v]]]
           F == [n \in Nat |-> [g \in G |-> step(g)]]
<1>1. \A g \in G : step(g) \in G
  BY Zenon
<1> HIDE DEF G, step
<1>2. F \in [Nat -> [G -> G]]
  BY <1>1, Zenon
<1>3. res \in G
  BY Zenon DEF G
<1> HIDE DEF F
<1>4. \E h \in [Nat -> G] : h[0] = res /\ \A n \in Nat : h[n + 1] = F[n][h[n]]
  <2>1. Recursed(G, res, F)
    BY <1>2, <1>3, PrimitiveRecursion, Zenon
  <2> QED BY <2>1, Zenon DEF Recursed
<1>40. PICK h \in [Nat -> G] : h[0] = res /\ \A n \in Nat : h[n + 1] = F[n][h[n]]
  BY <1>4, Zenon
<1>5. \A n \in Nat : h[n + 1] = step(h[n]) /\ h[n] \in G
  BY <1>40, Zenon DEF F
<1>6. \A n \in Nat : \A v \in V :
        h[n + 1][v] = IF v \in Stop THEN res[v] ELSE h[n][next[v]]
  BY <1>5, ZenonT(40) DEF step
\* From mu[v] + 1 on the approximations agree on v.
<1>7. \A m \in Nat : \A v \in V : mu[v] < m => h[m + 1][v] = h[m][v]
  <2> DEFINE E == {m \in Nat : \A v \in V : mu[v] < m => h[m + 1][v] = h[m][v]}
  <2>1. 0 \in E
    OBVIOUS
  <2>2. ASSUME NEW m \in Nat, m \in E PROVE m + 1 \in E
    <3> SUFFICES ASSUME NEW v \in V, mu[v] < m + 1 PROVE h[(m + 1) + 1][v] = h[m + 1][v]
      OBVIOUS
    <3>0. m + 1 \in Nat
      OBVIOUS
    <3>1. CASE v \in Stop
      <4>1. h[m + 1][v] = res[v]
        BY <1>6, <3>1, Zenon
      <4>2. h[(m + 1) + 1][v] = res[v]
        BY <1>6, <3>0, <3>1, Zenon
      <4> QED BY <4>1, <4>2, Zenon
    <3>2. CASE v \notin Stop
      <4>1. next[v] \in V /\ mu[next[v]] \in Nat /\ mu[v] \in Nat /\ mu[next[v]] < mu[v]
        BY <3>2, Zenon
      <4>2. mu[next[v]] < m
        BY <4>1
      <4>3. h[m + 1][next[v]] = h[m][next[v]]
        BY <2>2, <4>1, <4>2, Zenon
      <4>4. h[m + 1][v] = h[m][next[v]] /\ h[(m + 1) + 1][v] = h[m + 1][next[v]]
        BY <1>6, <3>0, <3>2, Zenon
      <4> QED BY <4>3, <4>4, Zenon
    <3> QED BY <3>1, <3>2, Zenon
  <2> HIDE DEF E
  <2>3. \A m \in Nat : m \in E
    BY <2>1, <2>2, NatSet, Zenon
  <2> QED BY <2>3, Zenon DEF E
<1>8. \A v \in V : \A m \in Nat : h[mu[v] + 1 + m][v] = h[mu[v] + 1][v]
  <2> SUFFICES ASSUME NEW v \in V PROVE \A m \in Nat : h[mu[v] + 1 + m][v] = h[mu[v] + 1][v]
    BY Zenon
  <2> DEFINE E == {m \in Nat : h[mu[v] + 1 + m][v] = h[mu[v] + 1][v]}
  <2>1. 0 \in E
    OBVIOUS
  <2>2. ASSUME NEW m \in Nat, m \in E PROVE m + 1 \in E
    <3> DEFINE k == mu[v] + 1 + m
    <3>1. k \in Nat /\ mu[v] < k /\ mu[v] + 1 + (m + 1) = k + 1
      OBVIOUS
    <3>2. h[k + 1][v] = h[k][v]
      BY <1>7, <3>1, Zenon
    <3> QED BY <2>2, <3>1, <3>2
  <2> HIDE DEF E
  <2>3. \A m \in Nat : m \in E
    BY <2>1, <2>2, NatSet, Zenon
  <2> QED BY <2>3, Zenon DEF E
<1> DEFINE f == [v \in V |-> h[mu[v] + 1][v]]
<1>9. f \in [V -> A]
  <2>1. ASSUME NEW v \in V PROVE h[mu[v] + 1][v] \in A
    <3>1. h[mu[v] + 1] \in [V -> A]
      BY <1>5 DEF G
    <3> QED BY <3>1, Zenon
  <2> QED BY <2>1, Zenon
<1>10. ASSUME NEW v \in V PROVE f[v] = IF v \in Stop THEN res[v] ELSE f[next[v]]
  <2>1. f[v] = IF v \in Stop THEN res[v] ELSE h[mu[v]][next[v]]
    BY <1>6, Zenon
  <2>2. ASSUME v \notin Stop PROVE h[mu[v]][next[v]] = f[next[v]]
    <3> DEFINE u == next[v]
    <3>1. u \in V /\ mu[u] \in Nat /\ mu[v] \in Nat /\ mu[u] < mu[v]
      BY <2>2, Zenon
    <3>2. mu[v] - mu[u] - 1 \in Nat /\ mu[u] + 1 + (mu[v] - mu[u] - 1) = mu[v]
      BY <3>1
    <3>3. h[mu[v]][u] = h[mu[u] + 1][u]
      BY <1>8, <3>1, <3>2
    <3> QED BY <3>1, <3>3, Zenon
  <2> HIDE DEF f
  <2> QED BY <2>1, <2>2, Zenon
<1> HIDE DEF f
<1> QED BY <1>9, <1>10, Zenon DEF TailRecursed

-----------------------------------------------------------------------------
(* The arithmetic of the full tree. *)

\* int_pow: the powers.
LEMMA IntPow ==
  ASSUME NEW w \in Nat
  PROVE  /\ int_pow(w, 0) = 1
         /\ \A n \in Nat : int_pow(w, n) \in Nat /\ int_pow(w, n + 1) = w * int_pow(w, n)
<1> DEFINE g == CHOOSE f : f = [i \in Nat |-> IF i = 0 THEN 1 ELSE w * f[i - 1]]
           F == [n \in Nat |-> [x \in Nat |-> w * x]]
<1>1. \E f : f = [i \in Nat |-> IF i = 0 THEN 1 ELSE w * f[i - 1]]
  <2>1. F \in [Nat -> [Nat -> Nat]] /\ \A n, x \in Nat : F[n][x] = w * x
    OBVIOUS
  <2> HIDE DEF F
  <2>2. Recursed(Nat, 1, F)
    BY <2>1, PrimitiveRecursion, Zenon
  <2>3. PICK f \in [Nat -> Nat] : f[0] = 1 /\ \A n \in Nat : f[n + 1] = w * f[n]
    BY <2>2, <2>1, ZenonT(40) DEF Recursed
  <2>4. \A i \in Nat : f[i] = IF i = 0 THEN 1 ELSE w * f[i - 1]
    BY <2>3
  <2> QED BY <2>4, Zenon
<1>2. g = [i \in Nat |-> IF i = 0 THEN 1 ELSE w * g[i - 1]]
  BY <1>1, Zenon
<1>3. \A n \in Nat : int_pow(w, n) = g[n]
  BY Zenon DEF int_pow
<1> HIDE DEF g
<1>4. g[0] = 1 /\ \A n \in Nat : g[n + 1] = w * g[n]
  BY <1>2
<1> DEFINE E == {n \in Nat : g[n] \in Nat}
<1>5. 0 \in E /\ \A n \in Nat : n \in E => n + 1 \in E
  BY <1>4
<1> HIDE DEF E
<1>6. \A n \in Nat : n \in E
  BY <1>5, NatSet, Zenon
<1> QED BY <1>3, <1>4, <1>6 DEF E

\* powers(w)[n]: w + w^2 + ... + w^n.
LEMMA Powers ==
  ASSUME NEW w \in Nat
  PROVE  /\ powers(w)[0] = 0
         /\ \A n \in Nat : /\ powers(w)[n] \in Nat
                           /\ powers(w)[n + 1] = powers(w)[n] + int_pow(w, n + 1)
<1> DEFINE g == CHOOSE f : f = [i \in Nat |-> IF i = 0 THEN 0 ELSE f[i - 1] + int_pow(w, i)]
           F == [n \in Nat |-> [x \in Nat |-> x + int_pow(w, n + 1)]]
<1>0. \A n \in Nat : int_pow(w, n + 1) \in Nat
  BY IntPow
<1>1. \E f : f = [i \in Nat |-> IF i = 0 THEN 0 ELSE f[i - 1] + int_pow(w, i)]
  <2>1. F \in [Nat -> [Nat -> Nat]] /\ \A n, x \in Nat : F[n][x] = x + int_pow(w, n + 1)
    BY <1>0
  <2> HIDE DEF F
  <2>2. Recursed(Nat, 0, F)
    BY <2>1, PrimitiveRecursion, Zenon
  <2>3. PICK f \in [Nat -> Nat] : f[0] = 0 /\ \A n \in Nat : f[n + 1] = f[n] + int_pow(w, n + 1)
    BY <2>2, <2>1, ZenonT(40) DEF Recursed
  <2>4. \A i \in Nat : f[i] = IF i = 0 THEN 0 ELSE f[i - 1] + int_pow(w, i)
    BY <2>3
  <2> QED BY <2>4, Zenon
<1>2. g = [i \in Nat |-> IF i = 0 THEN 0 ELSE g[i - 1] + int_pow(w, i)]
  BY <1>1, Zenon
<1>3. powers(w) = g
  BY Zenon DEF powers
<1> HIDE DEF g
<1>4. g[0] = 0 /\ \A n \in Nat : g[n + 1] = g[n] + int_pow(w, n + 1)
  BY <1>2
<1> DEFINE E == {n \in Nat : g[n] \in Nat}
<1>5. 0 \in E /\ \A n \in Nat : n \in E => n + 1 \in E
  BY <1>4, <1>0
<1> HIDE DEF E
<1>6. \A n \in Nat : n \in E
  BY <1>5, NatSet, Zenon
<1> QED BY <1>3, <1>4, <1>6, Zenon DEF E

\* A power of w is one more than w - 1 times the sum of the lower ones.
LEMMA PowerSum ==
  ASSUME NEW w \in Nat \ {0, 1}
  PROVE  \A d \in Nat : int_pow(w, d + 1) = 1 + (w - 1) * (1 + powers(w)[d])
<1> DEFINE P(d) == int_pow(w, d)
           x(d) == powers(w)[d]
           E == {d \in Nat : P(d + 1) = 1 + (w - 1) * (1 + x(d))}
<1>1. P(0) = 1 /\ \A n \in Nat : P(n) \in Nat /\ P(n + 1) = w * P(n)
  BY IntPow, Zenon
<1>2. x(0) = 0 /\ \A n \in Nat : x(n) \in Nat /\ x(n + 1) = x(n) + P(n + 1)
  BY Powers, Zenon
<1> HIDE DEF P, x
<1>3. 0 \in E
  BY <1>1, <1>2
<1>4. ASSUME NEW d \in Nat, d \in E PROVE d + 1 \in E
  <2>1. P(d + 1) = 1 + (w - 1) * (1 + x(d))
    BY <1>4, Zenon
  <2>2. P((d + 1) + 1) = w * P(d + 1) /\ P(d + 1) \in Nat
    BY <1>1
  <2>3. x(d + 1) = x(d) + P(d + 1) /\ x(d) \in Nat /\ x(d + 1) \in Nat
    BY <1>2
  <2>4. \A a, b, c \in Nat : b = 1 + (w - 1) * (1 + a) /\ c = a + b
                             => w * b = 1 + (w - 1) * (1 + c)
    OBVIOUS
  <2>5. PICK a \in Nat, b \in Nat, c \in Nat : a = x(d) /\ b = P(d + 1) /\ c = x(d + 1)
    BY <2>2, <2>3, Zenon
  <2>6. w * b = 1 + (w - 1) * (1 + c)
    BY <2>1, <2>3, <2>4, <2>5
  <2> QED BY <2>2, <2>5, <2>6
<1> HIDE DEF E
<1>5. \A d \in Nat : d \in E
  BY <1>3, <1>4, NatSet, Zenon
<1> QED BY <1>5, Zenon DEF E, P, x

\* What the division of the code gives: the quotient of m * q + r is q.
LEMMA Quotient ==
  ASSUME NEW m \in Nat \ {0}, NEW q \in Nat, NEW r \in 0 .. m - 1
  PROVE  (m * q + r) \div m = q
<1> DEFINE a == m * q + r
<1>1. a \in Nat
  OBVIOUS
<1> HIDE DEF a
<1>2. PICK k \in Int, s \in 0 .. m - 1 : k = a \div m /\ a = m * k + s
  BY <1>1
<1>3. m * q + r = m * k + s
  BY <1>2, Zenon DEF a
<1>4. m * (q - k) = s - r
  BY <1>3
<1>5. ASSUME q > k PROVE FALSE
  <2>1. m * (q - k) >= m
    BY <1>5
  <2> QED BY <2>1, <1>4
<1>6. ASSUME k > q PROVE FALSE
  <2>1. m * (k - q) >= m
    BY <1>6
  <2>2. m * (k - q) = r - s
    BY <1>3
  <2> QED BY <2>1, <2>2
<1> QED BY <1>2, <1>5, <1>6 DEF a

\* How many ranks a full tree of a depth has: one, then one and w such trees of
\* one level less; dividing gives the size of these back.
LEMMA Geometric ==
  ASSUME NEW w \in Nat \ {0, 1}
  PROVE  /\ geometric_series(w, 0) = 1
         /\ \A d \in Nat :
              /\ geometric_series(w, d) \in Nat \ {0}
              /\ geometric_series(w, d) = 1 + powers(w)[d]
              /\ geometric_series(w, d + 1) = 1 + w * geometric_series(w, d)
              /\ geometric_series(w, d + 1) \div w = geometric_series(w, d)
              /\ (geometric_series(w, d + 1) - 1) \div w = geometric_series(w, d)
<1> DEFINE x(d) == powers(w)[d]
           G(d) == geometric_series(w, d)
<1>1. \A d \in Nat : x(d) \in Nat /\ G(d) = 1 + x(d)
  <2> SUFFICES ASSUME NEW d \in Nat PROVE x(d) \in Nat /\ G(d) = 1 + x(d)
    BY Zenon
  <2>1. x(d) \in Nat
    BY Powers, Zenon
  <2>2. int_pow(w, d + 1) = 1 + (w - 1) * (1 + x(d))
    BY PowerSum, Zenon
  <2> HIDE DEF x
  <2>3. PICK q \in Nat, m \in Nat \ {0} : q = 1 + x(d) /\ m = w - 1
    BY <2>1
  <2>4. (m * q + 0) \div m = q
    BY Quotient, 0 \in 0 .. m - 1
  <2>5. int_pow(w, d + 1) - 1 = m * q + 0
    BY <2>2, <2>3
  <2> QED BY <2>1, <2>3, <2>4, <2>5, Zenon DEF geometric_series
<1>2. x(0) = 0
  BY Powers, Zenon
<1>3. ASSUME NEW d \in Nat PROVE G(d + 1) = 1 + w * G(d)
  <2>1. int_pow(w, d + 1) = 1 + (w - 1) * (1 + x(d)) /\ x(d + 1) = x(d) + int_pow(w, d + 1)
    BY PowerSum, Powers, Zenon
  <2>2. d + 1 \in Nat /\ x(d) \in Nat /\ G(d) = 1 + x(d) /\ G(d + 1) = 1 + x(d + 1)
    BY <1>1
  <2> HIDE DEF x, G
  <2>3. PICK a \in Nat : a = x(d)
    BY <2>2, Zenon
  <2>4. x(d + 1) = a + (1 + (w - 1) * (1 + a))
    BY <2>1, <2>3, Zenon
  <2>5. a + (1 + (w - 1) * (1 + a)) = w * (1 + a)
    OBVIOUS
  <2> QED BY <2>2, <2>3, <2>4, <2>5, Zenon
<1>4. ASSUME NEW d \in Nat PROVE G(d + 1) \div w = G(d) /\ (G(d + 1) - 1) \div w = G(d)
  <2>1. PICK q \in Nat : q = G(d)
    BY <1>1
  <2>2. G(d + 1) = 1 + w * q
    BY <1>3, <2>1, Zenon
  <2> HIDE DEF G
  <2>3. (w * q + 1) \div w = q /\ (w * q + 0) \div w = q
    BY Quotient, 0 \in 0 .. w - 1, 1 \in 0 .. w - 1
  <2>4. G(d + 1) = w * q + 1 /\ G(d + 1) - 1 = w * q + 0
    BY <2>2
  <2> QED BY <2>1, <2>3, <2>4, Zenon
<1>5. \A d \in Nat : G(d) \in Nat \ {0} /\ G(d) = 1 + x(d)
  BY <1>1
<1>6. G(0) = 1
  BY <1>1, <1>2
<1> HIDE DEF G
<1>7. \A d \in Nat : /\ G(d) \in Nat \ {0} /\ G(d) = 1 + x(d) /\ G(d + 1) = 1 + w * G(d)
                     /\ G(d + 1) \div w = G(d) /\ (G(d + 1) - 1) \div w = G(d)
  BY <1>3, <1>4, <1>5, Zenon
<1> QED BY <1>6, <1>7, Zenon DEF G

\* The bigger tree has more ranks, and one more at least per level.
LEMMA GeometricGrows ==
  ASSUME NEW w \in Nat \ {0, 1}
  PROVE  \A d \in Nat : geometric_series(w, d) >= d + 1
<1> DEFINE G(d) == geometric_series(w, d)
           E == {d \in Nat : G(d) >= d + 1}
<1>1. G(0) = 1 /\ \A d \in Nat : G(d) \in Nat /\ G(d + 1) = 1 + w * G(d)
  BY Geometric, Zenon DEF G
<1> HIDE DEF G
<1>2. \A d \in Nat : w * G(d) >= G(d)
  <2>1. \A a \in Nat : w * a >= a
    OBVIOUS
  <2> QED BY <1>1, <2>1, Zenon
<1>3. 0 \in E /\ \A d \in Nat : d \in E => d + 1 \in E
  BY <1>1, <1>2
<1> HIDE DEF E
<1>4. \A d \in Nat : d \in E
  BY <1>3, NatSet, Zenon
<1> QED BY <1>4, Zenon DEF E, G

\* dep: the depth of the smallest full tree that has a place for every rank.
LEMMA Depth ==
  ASSUME NEW n \in Nat \ {0}, NEW w \in Nat \ {0, 1}
  PROVE  /\ dep(n, w) \in 0 .. n - 1
         /\ geometric_series(w, dep(n, w)) >= n
         /\ dep(n, w) = 0 \/ geometric_series(w, dep(n, w) - 1) < n
<1> DEFINE x(i) == powers(w)[i]
           G(i) == geometric_series(w, i)
           E == {i \in Nat : x(i) >= n - 1}
           Deep(i) == x(i) >= n - 1 /\ \A j \in 0 .. i - 1 : x(j) < n - 1
<1>1. \A d \in Nat : x(d) \in Nat /\ G(d) = 1 + x(d) /\ G(d) >= d + 1
  BY Geometric, GeometricGrows, Powers, Zenon
<1> HIDE DEF x, G
<1>2. n - 1 \in E /\ E \in SUBSET Nat
  BY <1>1
<1>3. PICK i \in E : \A k \in E : i <= k
  BY <1>2, NatMin, Zenon
<1>4. i \in 0 .. n /\ Deep(i)
  BY <1>1, <1>2, <1>3
<1> DEFINE D == CHOOSE j \in 0 .. n : Deep(j)
<1>5. D \in 0 .. n /\ Deep(D)
  BY <1>4, Zenon
<1>6. dep(n, w) = D
  BY Zenon DEF dep, x
<1> HIDE DEF D
<1>7. D \in Nat /\ x(D) >= n - 1 /\ D <= n - 1
  BY <1>5, <1>1, <1>2
<1>8. D = 0 \/ x(D - 1) < n - 1
  BY <1>5, <1>7
<1>9. G(D) >= n /\ (D = 0 \/ G(D - 1) < n)
  BY <1>1, <1>7, <1>8
<1> QED BY <1>6, <1>7, <1>9 DEF G

-----------------------------------------------------------------------------
(* search_tree, level by level. *)

\* The quotient is no more than the number divided.
LEMMA QuotientBound ==
  ASSUME NEW a \in Nat, NEW m \in Nat \ {0}
  PROVE  a \div m \in Nat /\ a \div m <= a
<1>1. PICK k \in Int, s \in 0 .. m - 1 : k = a \div m /\ a = m * k + s
  OBVIOUS
<1>2. ASSUME k < 0 PROVE FALSE
  <2>1. m * k <= - m
    BY <1>2
  <2> QED BY <2>1, <1>1
<1>3. m * k >= k
  BY <1>2
<1> QED BY <1>1, <1>2, <1>3

\* id is a child of v.node.
Hit(id, v, w) == \E i \in 0 .. w : id = current(v, w, i)

\* A visit that goes on goes on to a smaller block.
LEMMA Descend ==
  ASSUME NEW id \in Nat, NEW w \in Nat \ {0, 1}, NEW v \in Visit, gap(id, v, w) # {}
  PROVE  descend(id, v, w) \in Visit /\ descend(id, v, w).max_children < v.max_children
<1> DEFINE g == gap(id, v, w)
<1>1. v.node \in Nat /\ v.max_children \in Nat /\ v.depth \in Nat
  BY Zenon DEF Visit
<1>2. PICK s \in Nat : s = stride(v, w) /\ s <= v.max_children
  BY <1>1, QuotientBound, Zenon DEF stride
<1>3. g \in SUBSET Nat
  BY DEF gap
<1>4. PICK i \in g : \A k \in g : i <= k
  BY <1>3, NatMin, Zenon
<1>5. Min(g) \in g
  BY <1>4, Zenon DEF Min
<1>6. PICK j \in 0 .. w - 1 : j = Min(g) /\ current(v, w, j) < id /\ id < current(v, w, j + 1)
  BY <1>5, Zenon DEF gap
<1>7. current(v, w, j) = v.node + 1 + j * s /\ current(v, w, j + 1) = v.node + 1 + (j + 1) * s
  BY <1>2, Zenon DEF current
<1>8. (j + 1) * s = j * s + s /\ j * s \in Nat
  OBVIOUS
<1>9. s >= 2 /\ current(v, w, j) \in Nat
  BY <1>1, <1>6, <1>7, <1>8
<1> HIDE DEF g
<1>10. descend(id, v, w) = [node |-> current(v, w, j), max_children |-> s - 1, depth |-> v.depth + 1]
  BY <1>2, <1>6, Zenon DEF descend, g
<1> QED BY <1>1, <1>2, <1>9, <1>10 DEF Visit

\* search_tree is what its recursion says.
LEMMA Search ==
  ASSUME NEW id \in Nat, NEW w \in Nat \ {0, 1}, NEW v \in Visit
  PROVE  search_tree(id, w)[v] =
           IF Hit(id, v, w)
           THEN [parent |-> v.node, children |-> stride(v, w) - 1, depth |-> v.depth + 1]
           ELSE IF gap(id, v, w) = {}
           THEN [parent |-> -1, children |-> -1, depth |-> v.depth + 1]
           ELSE search_tree(id, w)[descend(id, v, w)]
<1> DEFINE found(u) == [parent |-> u.node, children |-> stride(u, w) - 1, depth |-> u.depth + 1]
           lost(u) == [parent |-> -1, children |-> -1, depth |-> u.depth + 1]
           body(f, u) == IF Hit(id, u, w) THEN found(u)
                         ELSE IF gap(id, u, w) = {} THEN lost(u)
                         ELSE f[descend(id, u, w)]
           g == CHOOSE f : f = [u \in Visit |-> body(f, u)]
           Stop == {u \in Visit : Hit(id, u, w) \/ gap(id, u, w) = {}}
           A == {found(u) : u \in Visit} \cup {lost(u) : u \in Visit}
           res == [u \in Visit |-> IF Hit(id, u, w) THEN found(u) ELSE lost(u)]
           next == [u \in Visit |-> IF u \in Stop THEN u ELSE descend(id, u, w)]
           mu == [u \in Visit |-> u.max_children]
<1>1. g = search_tree(id, w)
  BY Zenon DEF search_tree, Hit
<1>2. \E f : f = [u \in Visit |-> body(f, u)]
  <2> HIDE DEF found, lost
  <2>1. res \in [Visit -> A]
    BY Zenon
  <2>2. \A u \in Visit : u \notin Stop => /\ descend(id, u, w) \in Visit
                                          /\ descend(id, u, w).max_children < u.max_children
    BY Descend, Zenon
  <2> HIDE DEF Stop
  <2>3. next \in [Visit -> Visit]
    BY <2>2, Zenon
  <2>4. mu \in [Visit -> Nat] /\ \A u \in Visit : u \notin Stop => mu[next[u]] < mu[u]
    <3>1. mu \in [Visit -> Nat]
      BY Zenon DEF Visit
    <3>2. ASSUME NEW u \in Visit, u \notin Stop PROVE mu[next[u]] < mu[u]
      <4>1. next[u] = descend(id, u, w) /\ next[u] \in Visit
        BY <3>2, <2>3, Zenon
      <4>2. mu[next[u]] = next[u].max_children /\ mu[u] = u.max_children
        BY <4>1, Zenon
      <4> QED BY <4>1, <4>2, <2>2, <3>2, Zenon
    <3> QED BY <3>1, <3>2, Zenon
  <2> HIDE DEF res, next, mu, A
  <2>51. TailRecursed(Visit, A, Stop, res, next)
    BY <2>1, <2>3, <2>4, TailRecursion, Zenon
  <2>5. PICK f \in [Visit -> A] :
          \A u \in Visit : f[u] = IF u \in Stop THEN res[u] ELSE f[next[u]]
    BY <2>51, Zenon DEF TailRecursed
  <2>6. \A u \in Visit : f[u] = body(f, u)
    BY <2>5, Zenon DEF Stop, res, next
  <2> HIDE DEF body
  <2> QED BY <2>6, Zenon
<1> HIDE DEF body
<1>3. g = [u \in Visit |-> body(g, u)]
  BY <1>2, Zenon
<1> HIDE DEF g
<1>4. g[v] = body(g, v)
  BY <1>3, Zenon
<1> QED BY <1>1, <1>4, Zenon DEF body, found, lost

\* v is a visit at level d of the search: the children it looks at have depth d.
Level(v, d, w, D) ==
  /\ v \in Visit /\ d \in 1 .. D /\ v.depth + 1 = d
  /\ stride(v, w) = geometric_series(w, D - d)

\* Multiples of s are s apart.
LEMMA Apart ==
  ASSUME NEW s \in Nat, NEW i \in Nat, NEW j \in Nat, i < j
  PROVE  i * s + s <= j * s
<1>1. PICK k \in Nat : j = i + 1 + k
  <2>1. j - i - 1 \in Nat /\ j = i + 1 + (j - i - 1)
    OBVIOUS
  <2> QED BY <2>1, Zenon
<1>2. (i + 1 + k) * s = i * s + s + k * s /\ k * s \in Nat
  OBVIOUS
<1>3. i * s \in Nat
  OBVIOUS
<1> QED BY <1>1, <1>2, <1>3

\* A child of v.node is found in v.
LEMMA FoundHere ==
  ASSUME NEW w \in Nat \ {0, 1}, NEW D \in Nat, NEW d \in Nat, NEW v, Level(v, d, w, D),
         NEW i \in 0 .. w - 1, NEW id, id = v.node + 1 + i * geometric_series(w, D - d)
  PROVE  /\ id \in Nat
         /\ search_tree(id, w)[v] = [parent |-> v.node, depth |-> d,
                                     children |-> geometric_series(w, D - d) - 1]
<1>1. v \in Visit /\ v.node \in Nat /\ D - d \in Nat /\ stride(v, w) = geometric_series(w, D - d)
  BY DEF Level, Visit
<1>2. PICK s \in Nat : s = geometric_series(w, D - d)
  BY <1>1, Geometric, Zenon
<1>3. i * s \in Nat
  OBVIOUS
<1>4. id \in Nat
  BY <1>1, <1>2, <1>3
<1>5. Hit(id, v, w)
  BY <1>1, <1>2 DEF Hit, current
<1>6. search_tree(id, w)[v] = [parent |-> v.node, children |-> stride(v, w) - 1, depth |-> v.depth + 1]
  BY <1>1, <1>4, <1>5, Search, Zenon
<1> QED BY <1>1, <1>4, <1>6, Zenon DEF Level

\* The visit of the i-th child of v.node.
Below(v, i, w, D, d) ==
  [node |-> v.node + 1 + i * geometric_series(w, D - d),
   max_children |-> geometric_series(w, D - d) - 1, depth |-> d]

\* A rank between two children of v.node is searched below the first of them.
LEMMA FoundBelow ==
  ASSUME NEW w \in Nat \ {0, 1}, NEW D \in Nat, NEW d \in Nat, NEW v, Level(v, d, w, D),
         NEW i \in 0 .. w - 1, NEW id \in Nat,
         v.node + 1 + i * geometric_series(w, D - d) < id,
         id <= v.node + i * geometric_series(w, D - d) + geometric_series(w, D - d)
  PROVE  /\ search_tree(id, w)[v] = search_tree(id, w)[Below(v, i, w, D, d)]
         /\ Level(Below(v, i, w, D, d), d + 1, w, D)
         /\ geometric_series(w, D - d) = 1 + w * geometric_series(w, D - (d + 1))
<1>1. v \in Visit /\ v.node \in Nat /\ D - d \in Nat /\ stride(v, w) = geometric_series(w, D - d)
  BY DEF Level, Visit
<1>2. PICK s \in Nat : s = geometric_series(w, D - d)
  BY <1>1, Geometric, Zenon
<1>3. i * s \in Nat /\ v.node + 1 + i * s < id /\ id <= v.node + i * s + s
  BY <1>2
<1>4. s >= 2
  BY <1>1, <1>3
<1>5. \A j \in Nat : current(v, w, j) = v.node + 1 + j * s
  BY <1>1, <1>2, Zenon DEF current
<1>6. \A j \in Nat : j < i => j * s + s <= i * s
  BY Apart
<1>7. \A j \in Nat : i < j => i * s + s <= j * s
  BY Apart
<1>8. \A j \in Nat : j * s \in Nat /\ (j + 1) * s = j * s + s
  OBVIOUS
<1>9. ~ Hit(id, v, w)
  <2> SUFFICES ASSUME NEW j \in 0 .. w, id = current(v, w, j) PROVE FALSE
    BY Zenon DEF Hit
  <2>0. id = v.node + 1 + j * s
    BY <1>5
  <2>1. CASE j < i
    BY <2>0, <2>1, <1>1, <1>3, <1>6, <1>8
  <2>2. CASE i < j
    BY <2>0, <2>2, <1>1, <1>3, <1>7, <1>8
  <2> QED BY <2>0, <2>1, <2>2, <1>1, <1>3
<1>10. gap(id, v, w) = {i}
  <2>1. i \in gap(id, v, w)
    <3>1. current(v, w, i) < id /\ id < current(v, w, i + 1)
      BY <1>1, <1>3, <1>5, <1>8
    <3> QED BY <3>1, Zenon DEF gap
  <2>2. ASSUME NEW j \in gap(id, v, w) PROVE j = i
    <3>1. j \in 0 .. w - 1 /\ current(v, w, j) < id /\ id < current(v, w, j + 1)
      BY <2>2, Zenon DEF gap
    <3>2. j * s \in Nat /\ v.node + 1 + j * s < id /\ id < v.node + 1 + j * s + s
      BY <3>1, <1>1, <1>5, <1>8
    <3>3. CASE j < i
      BY <3>1, <3>2, <3>3, <1>1, <1>3, <1>6
    <3>4. CASE i < j
      BY <3>1, <3>2, <3>4, <1>1, <1>3, <1>7
    <3> QED BY <3>1, <3>3, <3>4
  <2> QED BY <2>1, <2>2, Zenon
<1>11. Min({i}) = i
  BY DEF Min
<1>12. descend(id, v, w) = Below(v, i, w, D, d)
  BY <1>1, <1>2, <1>5, <1>10, <1>11 DEF descend, Below, Level
<1>13. search_tree(id, w)[v] = search_tree(id, w)[Below(v, i, w, D, d)]
  <2>1. gap(id, v, w) # {}
    BY <1>10, Zenon
  <2>2. search_tree(id, w)[v] = search_tree(id, w)[descend(id, v, w)]
    BY <1>1, <1>9, <2>1, Search, Zenon
  <2> QED BY <1>12, <2>2, Zenon
<1>14. D - d # 0
  BY <1>2, <1>4, Geometric
<1>15. d + 1 \in 1 .. D /\ D - (d + 1) \in Nat /\ (D - (d + 1)) + 1 = D - d
  BY <1>1, <1>14
<1> DEFINE m == D - (d + 1)
           G(k) == geometric_series(w, k)
<1>16. G(m + 1) = 1 + w * G(m) /\ (G(m + 1) - 1) \div w = G(m)
  BY <1>15, Geometric, Zenon
<1>17. G(D - d) = 1 + w * G(m) /\ (G(D - d) - 1) \div w = G(m)
  BY <1>15, <1>16, Zenon
<1>18. Level(Below(v, i, w, D, d), d + 1, w, D)
  <2> DEFINE b == Below(v, i, w, D, d)
  <2>1. b \in Visit
    BY <1>1, <1>2, <1>3, <1>4 DEF Below, Visit
  <2>2. b.depth + 1 = d + 1 /\ b.max_children = G(D - d) - 1
    BY Zenon DEF Below
  <2>3. stride(b, w) = G(m)
    BY <2>2, <1>17, Zenon DEF stride
  <2> QED BY <2>1, <2>2, <2>3, <1>15, Zenon DEF Level
<1> QED BY <1>13, <1>17, <1>18, Zenon

\* Every number below w * s lies in one of the w intervals of length s.
LEMMA Slot ==
  ASSUME NEW s \in Nat \ {0}, NEW w \in Nat \ {0}, NEW k \in Nat, k < w * s
  PROVE  \E i \in 0 .. w - 1 : i * s <= k /\ k < i * s + s
<1>1. PICK q \in Int, r \in 0 .. s - 1 : q = k \div s /\ k = s * q + r
  OBVIOUS
<1>2. q \in Nat
  BY <1>1, QuotientBound, Zenon
<1>3. q < w
  <2> SUFFICES ASSUME w <= q PROVE FALSE
    BY <1>2
  <2>1. PICK j \in Nat : q = w + j
    <3>1. q - w \in Nat /\ q = w + (q - w)
      BY <1>2
    <3> QED BY <3>1, Zenon
  <2>2. s * (w + j) = w * s + s * j /\ s * j \in Nat /\ w * s \in Nat
    OBVIOUS
  <2> QED BY <1>1, <2>1, <2>2
<1>4. s * q = q * s /\ q * s \in Nat /\ q \in 0 .. w - 1
  BY <1>2, <1>3
<1>5. q * s <= k /\ k < q * s + s
  BY <1>1, <1>4
<1> QED BY <1>4, <1>5, Zenon

\* The ranks v searches through.
Reach(v, d, w, D) == v.node + 1 .. v.node + w * geometric_series(w, D - d)

\* Where the search from v puts id: among the children of v.node or below one of them.
Placed(id, v, d, w, D) ==
  LET t == search_tree(id, w)[v] IN
  /\ t.depth \in d .. D
  /\ t.children = geometric_series(w, D - t.depth) - 1
  /\ \E i \in 0 .. w - 1 : id = t.parent + 1 + i * geometric_series(w, D - t.depth)
  /\ id + t.children <= v.node + w * geometric_series(w, D - d)
  /\ \/ t.parent = v.node /\ t.depth = d
     \/ t.parent \in Reach(v, d, w, D) /\ search_tree(t.parent, w)[v].depth = t.depth - 1

\* The child of v.node in whose block id lies.
LEMMA Slots ==
  ASSUME NEW w \in Nat \ {0, 1}, NEW D \in Nat, NEW d \in Nat, NEW v, Level(v, d, w, D),
         NEW id \in Reach(v, d, w, D)
  PROVE  \E i \in 0 .. w - 1 :
            /\ v.node + 1 + i * geometric_series(w, D - d) <= id
            /\ id <= v.node + i * geometric_series(w, D - d) + geometric_series(w, D - d)
<1>1. v.node \in Nat /\ D - d \in Nat
  BY DEF Level, Visit
<1>2. PICK s \in Nat \ {0} : s = geometric_series(w, D - d)
  BY <1>1, Geometric, Zenon
<1>3. w * s \in Nat
  OBVIOUS
<1>4. id \in Nat /\ v.node + 1 <= id /\ id <= v.node + w * s
  BY <1>1, <1>2, <1>3 DEF Reach
<1>5. PICK k \in Nat : id = v.node + 1 + k
  <2>1. id - v.node - 1 \in Nat /\ id = v.node + 1 + (id - v.node - 1)
    BY <1>1, <1>4
  <2> QED BY <2>1, Zenon
<1>6. k < w * s
  BY <1>1, <1>3, <1>4, <1>5
<1>7. PICK i \in 0 .. w - 1 : i * s <= k /\ k < i * s + s
  BY <1>6, Slot, Zenon
<1>8. i * s \in Nat
  OBVIOUS
<1>9. v.node + 1 + i * s <= id /\ id <= v.node + i * s + s
  BY <1>1, <1>5, <1>7, <1>8
<1> QED BY <1>2, <1>9, Zenon

\* The blocks of the children of v.node lie in its own.
LEMMA BlockInside ==
  ASSUME NEW w \in Nat \ {0, 1}, NEW s \in Nat, NEW i \in 0 .. w - 1
  PROVE  i * s + s <= w * s /\ i * s \in Nat /\ w * s \in Nat
<1>1. i \in Nat /\ i < w
  OBVIOUS
<1> QED BY <1>1, Apart

\* search_tree places every rank in reach, level by level from the leaves.
LEMMA AllPlaced ==
  ASSUME NEW w \in Nat \ {0, 1}, NEW D \in Nat
  PROVE  \A d \in Nat : \A v : \A id : Level(v, d, w, D) /\ id \in Reach(v, d, w, D)
           => Placed(id, v, d, w, D)
<1> DEFINE G(k) == geometric_series(w, k)
           E == {k \in Nat : \A d \in Nat : \A v : \A id :
                   D - d = k /\ Level(v, d, w, D) /\ id \in Reach(v, d, w, D)
                     => Placed(id, v, d, w, D)}
<1>1. ASSUME NEW d \in Nat, NEW v, NEW id, Level(v, d, w, D), id \in Reach(v, d, w, D),
             \A u, e : Level(u, d + 1, w, D) /\ e \in Reach(u, d + 1, w, D)
                         => Placed(e, u, d + 1, w, D)
      PROVE  Placed(id, v, d, w, D)
  <2>1. v.node \in Nat /\ D - d \in Nat /\ d <= D
    BY <1>1 DEF Level, Visit
  <2>2. PICK s \in Nat \ {0} : s = G(D - d)
    BY <2>1, Geometric, Zenon
  <2>3. PICK i \in 0 .. w - 1 : v.node + 1 + i * s <= id /\ id <= v.node + i * s + s
    BY <1>1, <2>2, Slots, Zenon
  <2>4. i * s + s <= w * s /\ i * s \in Nat /\ w * s \in Nat
    BY BlockInside, Zenon
  <2>5. id \in Nat /\ id \in v.node + 1 .. v.node + w * s
    BY <1>1, <2>1, <2>2, <2>4 DEF Reach
  <2>6. CASE id = v.node + 1 + i * s
    <3> DEFINE t == search_tree(id, w)[v]
    <3>0. id = v.node + 1 + i * geometric_series(w, D - d)
      BY <2>2, <2>6, Zenon
    <3>1. t = [parent |-> v.node, depth |-> d, children |-> G(D - d) - 1]
      BY <1>1, <3>0, FoundHere
    <3>2. t.parent = v.node /\ t.depth = d /\ t.children = s - 1 /\ G(D - t.depth) = s
      BY <3>1, <2>2
    <3> HIDE DEF t, G
    <3>3. id + t.children <= v.node + w * s
      BY <3>2, <2>1, <2>4, <2>6
    <3>4. d \in d .. D
      BY <2>1
    <3>5. \E j \in 0 .. w - 1 : id = t.parent + 1 + j * G(D - t.depth)
      BY <2>6, <3>2, Zenon
    <3> QED BY <2>2, <3>2, <3>3, <3>4, <3>5, Zenon DEF Placed, t, G
  <2>7. CASE id # v.node + 1 + i * s
    <3> DEFINE u == Below(v, i, w, D, d)
               t == search_tree(id, w)[v]
               g == G(D - (d + 1))
    <3>1. v.node + 1 + i * s < id
      BY <2>1, <2>3, <2>4, <2>5, <2>7
    <3>2. search_tree(id, w)[v] = search_tree(id, w)[u] /\ Level(u, d + 1, w, D) /\ s = 1 + w * g
      BY <1>1, <2>2, <2>3, <2>5, <3>1, FoundBelow
    <3>3. u.node = v.node + 1 + i * s
      BY <2>2, Zenon DEF Below
    <3>31. g \in Nat /\ w * g = s - 1
      <4>1. D - (d + 1) \in Nat
        BY <3>2, <2>1 DEF Level
      <4>2. g \in Nat /\ w * g \in Nat
        BY <4>1, Geometric
      <4> QED BY <3>2, <4>2
    <3> HIDE DEF u, t, g, G
    <3>4. Reach(u, d + 1, w, D) = u.node + 1 .. u.node + s - 1
      BY <3>3, <3>31, <2>1, <2>4, Zenon DEF Reach, g, G
    <3>5. id \in Reach(u, d + 1, w, D)
      BY <3>1, <3>3, <3>4, <2>1, <2>3, <2>4, <2>5, SMTT(30)
    <3>6. Placed(id, u, d + 1, w, D)
      BY <1>1, <3>2, <3>5, Zenon
    <3>7. /\ t.depth \in d + 1 .. D
          /\ t.children = G(D - t.depth) - 1
          /\ \E j \in 0 .. w - 1 : id = t.parent + 1 + j * G(D - t.depth)
          /\ id + t.children <= u.node + w * g
          /\ \/ t.parent = u.node /\ t.depth = d + 1
             \/ t.parent \in Reach(u, d + 1, w, D) /\ search_tree(t.parent, w)[u].depth = t.depth - 1
      BY <3>2, <3>6, Zenon DEF Placed, t, g, G
    <3>8. G(D - t.depth) \in Nat
      <4>1. D - t.depth \in Nat
        BY <3>7, <2>1
      <4> QED BY <4>1, Geometric, Zenon DEF G
    <3>9. id + t.children <= v.node + w * s
      <4>1. t.children \in Int
        BY <3>7, <3>8
      <4> QED BY <4>1, <3>7, <3>3, <3>31, <2>1, <2>4, <2>5
    <3>10. t.parent \in v.node + 1 .. v.node + w * s /\ search_tree(t.parent, w)[v].depth = t.depth - 1
      <4>1. CASE t.parent = u.node /\ t.depth = d + 1
        <5>1. search_tree(u.node, w)[v] = [parent |-> v.node, depth |-> d, children |-> G(D - d) - 1]
          BY <1>1, <2>2, <3>3, FoundHere DEF G
        <5>2. search_tree(u.node, w)[v].depth = d
          BY <5>1
        <5>3. t.depth - 1 = d
          BY <4>1
        <5>4. u.node \in v.node + 1 .. v.node + w * s
          BY <3>3, <2>1, <2>4
        <5> QED BY <4>1, <5>2, <5>3, <5>4, Zenon
      <4>2. CASE t.parent \in Reach(u, d + 1, w, D) /\ search_tree(t.parent, w)[u].depth = t.depth - 1
        <5>0. PICK p : p = t.parent
          BY Zenon
        <5>01. p \in (v.node + 1 + i * s) + 1 .. (v.node + 1 + i * s) + s - 1
          BY <4>2, <5>0, <3>3, <3>4, Zenon
        <5>02. p \in Nat /\ v.node + 1 + i * s < p /\ p <= v.node + i * s + s
          BY <5>01, <2>1, <2>4
        <5>1. /\ t.parent \in Nat /\ v.node + 1 + i * s < t.parent
              /\ t.parent <= v.node + i * s + s
          BY <5>0, <5>02, Zenon
        <5>2. search_tree(t.parent, w)[v] = search_tree(t.parent, w)[u]
          BY <1>1, <2>2, <5>1, FoundBelow DEF u, G
        <5>3. t.parent \in v.node + 1 .. v.node + w * s
          BY <5>1, <2>1, <2>4
        <5> QED BY <4>2, <5>2, <5>3, Zenon
      <4> QED BY <4>1, <4>2, <3>7, Zenon
    <3>11. t.depth \in d .. D
      BY <3>7, <2>1
    <3> QED BY <2>2, <3>7, <3>9, <3>10, <3>11, Zenon DEF Placed, Reach, t, G
  <2> QED BY <2>6, <2>7, Zenon
<1>2. 0 \in E
  <2> SUFFICES ASSUME NEW d \in Nat, NEW v, NEW id, D - d = 0, Level(v, d, w, D),
                      id \in Reach(v, d, w, D)
               PROVE  Placed(id, v, d, w, D)
    BY Zenon
  <2>1. \A u : ~ Level(u, d + 1, w, D)
    BY DEF Level
  <2> QED BY <1>1, <2>1, Zenon
<1>3. ASSUME NEW k \in Nat, k \in E PROVE k + 1 \in E
  <2> SUFFICES ASSUME NEW d \in Nat, NEW v, NEW id, D - d = k + 1, Level(v, d, w, D),
                      id \in Reach(v, d, w, D)
               PROVE  Placed(id, v, d, w, D)
    OBVIOUS
  <2>1. d + 1 \in Nat /\ D - (d + 1) = k
    OBVIOUS
  <2>2. \A u, e : Level(u, d + 1, w, D) /\ e \in Reach(u, d + 1, w, D)
                    => Placed(e, u, d + 1, w, D)
    BY <1>3, <2>1, Zenon
  <2> QED BY <1>1, <2>2, Zenon
<1> HIDE DEF E
<1>4. \A k \in Nat : k \in E
  BY <1>2, <1>3, NatSet, Zenon
<1> SUFFICES ASSUME NEW d \in Nat, NEW v, NEW id, Level(v, d, w, D), id \in Reach(v, d, w, D)
             PROVE  Placed(id, v, d, w, D)
  BY Zenon
<1>5. D - d \in Nat
  BY DEF Level
<1>6. D - d \in E
  BY <1>4, <1>5, Zenon
<1> QED BY <1>6, Zenon DEF E

\* The ranks that are to be the children of r are found as such by the search from v.
Parents(r, v, w, D) ==
  LET e == search_tree(r, w)[v].depth IN
  e < D => \A i \in 0 .. w - 1 :
             search_tree(r + 1 + i * geometric_series(w, D - (e + 1)), w)[v].parent = r

\* The children of a rank, if there are enough ranks, lie in its block.
LEMMA ChildInBlock ==
  ASSUME NEW w \in Nat \ {0, 1}, NEW D \in Nat, NEW e \in Nat, e < D, NEW r \in Nat,
         NEW i \in 0 .. w - 1
  PROVE  LET g == geometric_series(w, D - (e + 1))
             c == r + 1 + i * g IN
         /\ g \in Nat \ {0} /\ c \in Nat /\ geometric_series(w, D - e) = 1 + w * g
         /\ r < c /\ c + g <= r + geometric_series(w, D - e)
<1> DEFINE m == D - (e + 1)
           G(k) == geometric_series(w, k)
           c == r + 1 + i * G(m)
<1>1. m \in Nat /\ m + 1 = D - e
  OBVIOUS
<1>2. G(m) \in Nat \ {0} /\ G(m + 1) = 1 + w * G(m)
  BY <1>1, Geometric, Zenon
<1>3. PICK g \in Nat \ {0} : g = G(m)
  BY <1>2, Zenon
<1>4. G(D - e) = 1 + w * g
  BY <1>1, <1>2, <1>3, Zenon
<1> HIDE DEF G, m
<1>5. i * g + g <= w * g /\ i * g \in Nat /\ w * g \in Nat
  BY BlockInside, Zenon
<1>6. c = r + 1 + i * g
  BY <1>3, Zenon
<1> HIDE DEF c
<1>7. c \in Nat /\ r < c /\ c + g <= r + G(D - e)
  BY <1>4, <1>5, <1>6
<1> QED BY <1>3, <1>4, <1>7, Zenon DEF G, m, c

\* Every rank in reach is the parent of the ranks that are to be its children.
LEMMA AllParents ==
  ASSUME NEW w \in Nat \ {0, 1}, NEW D \in Nat
  PROVE  \A d \in Nat : \A v : \A r : Level(v, d, w, D) /\ r \in Reach(v, d, w, D)
           => Parents(r, v, w, D)
<1> DEFINE G(k) == geometric_series(w, k)
           E == {k \in Nat : \A d \in Nat : \A v : \A r :
                   D - d = k /\ Level(v, d, w, D) /\ r \in Reach(v, d, w, D)
                     => Parents(r, v, w, D)}
<1>1. ASSUME NEW d \in Nat, NEW v, NEW r, Level(v, d, w, D), r \in Reach(v, d, w, D),
             \A u, q : Level(u, d + 1, w, D) /\ q \in Reach(u, d + 1, w, D)
                         => Parents(q, u, w, D)
      PROVE  Parents(r, v, w, D)
  <2> DEFINE e == search_tree(r, w)[v].depth
             c(j) == r + 1 + j * geometric_series(w, D - (e + 1))
  <2> SUFFICES ASSUME e < D, NEW j \in 0 .. w - 1
               PROVE  search_tree(c(j), w)[v].parent = r
    BY Zenon DEF Parents
  <2>1. v.node \in Nat /\ D - d \in Nat /\ d <= D
    BY <1>1 DEF Level, Visit
  <2>2. PICK s \in Nat \ {0} : s = G(D - d)
    BY <2>1, Geometric, Zenon
  <2>3. PICK i \in 0 .. w - 1 : v.node + 1 + i * s <= r /\ r <= v.node + i * s + s
    BY <1>1, <2>2, Slots, Zenon
  <2>4. i * s + s <= w * s /\ i * s \in Nat /\ w * s \in Nat
    BY BlockInside, Zenon
  <2>5. r \in Nat /\ r \in v.node + 1 .. v.node + w * s
    BY <1>1, <2>1, <2>2, <2>4 DEF Reach
  <2>6. Placed(r, v, d, w, D)
    BY <1>1, AllPlaced, Zenon
  <2>7. e \in d .. D /\ e \in Nat
    BY <2>6, <2>1 DEF Placed
  <2> DEFINE u == Below(v, i, w, D, d)
             g == G(D - (e + 1))
  <2>8. u.node = v.node + 1 + i * s
    BY <2>2, Zenon DEF Below
  <2>9. g \in Nat \ {0} /\ c(j) \in Nat /\ r < c(j) /\ c(j) + g <= r + G(D - e)
    BY <2>5, <2>7, ChildInBlock, Zenon
  <2>10. ASSUME c(j) <= v.node + i * s + s
         PROVE  /\ search_tree(c(j), w)[v] = search_tree(c(j), w)[u]
                /\ Level(u, d + 1, w, D) /\ G(D - d) = 1 + w * G(D - (d + 1))
    <3> HIDE DEF c, u, g, e
    <3>1. v.node + 1 + i * s < c(j)
      BY <2>1, <2>3, <2>4, <2>5, <2>9
    <3> QED BY <1>1, <2>2, <2>9, <2>10, <3>1, FoundBelow DEF u
  <2>11. CASE r = v.node + 1 + i * s
    <3>1. search_tree(r, w)[v] = [parent |-> v.node, depth |-> d, children |-> G(D - d) - 1]
      BY <1>1, <2>2, <2>11, FoundHere
    <3>2. e = d
      BY <3>1
    <3> HIDE DEF e, c, u, g, G
    <3>3. c(j) <= v.node + i * s + s
      BY <3>2, <2>1, <2>2, <2>4, <2>5, <2>9, <2>11
    <3>4. search_tree(c(j), w)[v] = search_tree(c(j), w)[u] /\ Level(u, d + 1, w, D)
      BY <2>10, <3>3, Zenon
    <3>5. c(j) = u.node + 1 + j * geometric_series(w, D - (d + 1)) /\ u.node = r
      BY <3>2, <2>8, <2>11, Zenon DEF c
    <3>6. search_tree(c(j), w)[u].parent = u.node
      <4>1. PICK y \in Nat : y = d + 1
        OBVIOUS
      <4>2. PICK b, id : b = u /\ id = c(j)
        BY Zenon
      <4>3. Level(b, y, w, D) /\ id = b.node + 1 + j * geometric_series(w, D - y)
        BY <3>4, <3>5, <4>1, <4>2, Zenon
      <4>4. search_tree(id, w)[b] = [parent |-> b.node, depth |-> y,
                                     children |-> geometric_series(w, D - y) - 1]
        BY <4>3, FoundHere
      <4> QED BY <4>2, <4>4
    <3> QED BY <3>4, <3>5, <3>6, Zenon
  <2>12. CASE r # v.node + 1 + i * s
    <3>1. v.node + 1 + i * s < r
      <4> HIDE DEF e, c, u, g, G
      <4> QED BY <2>1, <2>3, <2>4, <2>5, <2>12
    <3>2. search_tree(r, w)[v] = search_tree(r, w)[u] /\ Level(u, d + 1, w, D)
          /\ s = 1 + w * G(D - (d + 1))
      BY <1>1, <2>2, <2>3, <2>5, <3>1, FoundBelow
    <3>3. w * G(D - (d + 1)) = s - 1
      <4>1. D - (d + 1) \in Nat
        BY <3>2, <2>1 DEF Level
      <4>2. PICK a \in Nat : a = G(D - (d + 1))
        BY <4>1, Geometric, Zenon
      <4>3. w * a \in Nat
        OBVIOUS
      <4> HIDE DEF e, c, u, g, G
      <4> QED BY <3>2, <4>2, <4>3
    <3>4. Reach(u, d + 1, w, D) = u.node + 1 .. u.node + s - 1
      <4> HIDE DEF u
      <4> QED BY <3>3, <2>8, <2>1, <2>4, Zenon DEF Reach
    <3>5. r \in Reach(u, d + 1, w, D)
      <4> HIDE DEF u
      <4> QED BY <3>1, <3>4, <2>8, <2>1, <2>3, <2>4, <2>5, SMTT(30)
    <3>6. Parents(r, u, w, D)
      BY <1>1, <3>2, <3>5, Zenon
    <3>7. search_tree(r, w)[u].depth = e
      BY <3>2, Zenon
    <3>8. search_tree(c(j), w)[u].parent = r
      BY <3>6, <3>7, Zenon DEF Parents
    <3>9. r + (G(D - e) - 1) <= u.node + w * G(D - (d + 1))
      <4>1. Placed(r, u, d + 1, w, D)
        BY <3>2, <3>5, AllPlaced
      <4> QED BY <4>1, <3>7, Zenon DEF Placed
    <3> HIDE DEF e, c, u, g, G
    <3>10. c(j) <= v.node + i * s + s
      <4>1. PICK x \in Nat : x = G(D - e)
        <5>1. D - e \in Nat
          BY <2>7
        <5> QED BY <5>1, Geometric, Zenon DEF G
      <4> QED BY <4>1, <3>3, <3>9, <2>1, <2>4, <2>5, <2>8, <2>9
    <3> QED BY <2>10, <3>8, <3>10, Zenon
  <2> QED BY <2>11, <2>12, Zenon
<1>2. 0 \in E
  <2> SUFFICES ASSUME NEW d \in Nat, NEW v, NEW r, D - d = 0, Level(v, d, w, D),
                      r \in Reach(v, d, w, D)
               PROVE  Parents(r, v, w, D)
    BY Zenon
  <2>1. \A u : ~ Level(u, d + 1, w, D)
    BY DEF Level
  <2> QED BY <1>1, <2>1, Zenon
<1>3. ASSUME NEW k \in Nat, k \in E PROVE k + 1 \in E
  <2> SUFFICES ASSUME NEW d \in Nat, NEW v, NEW r, D - d = k + 1, Level(v, d, w, D),
                      r \in Reach(v, d, w, D)
               PROVE  Parents(r, v, w, D)
    OBVIOUS
  <2>1. d + 1 \in Nat /\ D - (d + 1) = k
    OBVIOUS
  <2>2. \A u, q : Level(u, d + 1, w, D) /\ q \in Reach(u, d + 1, w, D)
                    => Parents(q, u, w, D)
    BY <1>3, <2>1, Zenon
  <2> QED BY <1>1, <2>2, Zenon
<1> HIDE DEF E
<1>4. \A k \in Nat : k \in E
  BY <1>2, <1>3, NatSet, Zenon
<1> SUFFICES ASSUME NEW d \in Nat, NEW v, NEW r, Level(v, d, w, D), r \in Reach(v, d, w, D)
             PROVE  Parents(r, v, w, D)
  BY Zenon
<1>5. D - d \in Nat
  BY DEF Level
<1>6. D - d \in E
  BY <1>4, <1>5, Zenon
<1> QED BY <1>6, Zenon DEF E

-----------------------------------------------------------------------------
(* reverse_tree_info. *)

\* The visit search_tree starts with.
Top(w, D) == [node |-> 0, max_children |-> geometric_series(w, D), depth |-> 0]

\* The size of the full subtree of r.
Full(n, w, r) == geometric_series(w, dep(n, w) - Infos(n, w)[r].depth)

\* The root.
LEMMA RootInfo ==
  ASSUME NEW n \in Nat \ {0}, NEW w
  PROVE  LET t == Infos(n, w)[0] IN
         t.parent = -1 /\ t.children = n - 1 /\ t.depth = 0 /\ t.max_depth = dep(n, w)
<1>1. 0 \in 0 .. n - 1 /\ ~ (0 >= n)
  OBVIOUS
<1>2. Infos(n, w)[0] = reverse_tree_info(0, n, w)
  BY <1>1, Zenon DEF Infos
<1> QED BY <1>1, <1>2 DEF reverse_tree_info

\* The other ranks: what search_tree finds, and a block that ends with the last rank.
LEMMA RankInfo ==
  ASSUME NEW n \in Nat \ {0}, NEW w, NEW r \in 1 .. n - 1
  PROVE  LET t == search_tree(r, w)[Top(w, dep(n, w))] IN
         /\ Infos(n, w)[r].parent = t.parent
         /\ Infos(n, w)[r].depth = t.depth
         /\ Infos(n, w)[r].max_depth = dep(n, w)
         /\ Infos(n, w)[r].children = IF r + t.children >= n THEN n - r - 1 ELSE t.children
<1>1. r \in 0 .. n - 1 /\ ~ (r >= n) /\ r # 0
  OBVIOUS
<1>2. Infos(n, w)[r] = reverse_tree_info(r, n, w)
  BY <1>1, Zenon DEF Infos
<1> DEFINE t == search_tree(r, w)[Top(w, dep(n, w))]
<1>3. Infos(n, w)[r] = [parent |-> t.parent, depth |-> t.depth, max_depth |-> dep(n, w),
                        children |-> IF r + t.children >= n THEN n - r - 1 ELSE t.children]
  BY <1>1, <1>2, Zenon DEF reverse_tree_info, Top
<1> HIDE DEF t
<1>4. /\ Infos(n, w)[r].parent = t.parent
      /\ Infos(n, w)[r].depth = t.depth
      /\ Infos(n, w)[r].max_depth = dep(n, w)
      /\ Infos(n, w)[r].children = IF r + t.children >= n THEN n - r - 1 ELSE t.children
  BY <1>3
<1> QED BY <1>4, Zenon DEF t

\* With more than one rank the search starts at level 1 and reaches all of them.
LEMMA TopLevel ==
  ASSUME NEW n \in Nat \ {0}, NEW w \in Nat \ {0, 1}, NEW r \in 1 .. n - 1
  PROVE  LET D == dep(n, w) IN
         /\ D \in Nat \ {0} /\ Level(Top(w, D), 1, w, D)
         /\ Reach(Top(w, D), 1, w, D) = 1 .. geometric_series(w, D) - 1
         /\ r \in Reach(Top(w, D), 1, w, D)
<1> DEFINE G(k) == geometric_series(w, k)
<1>1. PICK D \in Nat : D = dep(n, w) /\ G(D) >= n
  BY Depth
<1>2. D # 0
  BY <1>1, Geometric
<1>3. PICK m \in Nat : m = D - 1 /\ D = m + 1
  BY <1>2
<1>4. G(m + 1) = 1 + w * G(m) /\ G(m + 1) \div w = G(m) /\ G(m) \in Nat \ {0}
  BY <1>3, Geometric, Zenon
<1>5. PICK g \in Nat \ {0} : g = G(m)
  BY <1>4, Zenon
<1>6. Top(w, D) \in Visit /\ Top(w, D).depth = 0 /\ Top(w, D).node = 0
  BY Geometric, Zenon DEF Top, Visit
<1>7. stride(Top(w, D), w) = G(m)
  BY <1>3, <1>4, Zenon DEF stride, Top
<1>8. Level(Top(w, D), 1, w, D)
  BY <1>2, <1>3, <1>6, <1>7 DEF Level
<1> HIDE DEF G
<1>9. w * g = G(D) - 1 /\ w * g \in Nat
  <2>1. w * g \in Nat
    OBVIOUS
  <2> QED BY <2>1, <1>3, <1>4, <1>5
<1>10. Reach(Top(w, D), 1, w, D) = 1 .. G(D) - 1
  BY <1>3, <1>5, <1>6, <1>9 DEF Reach, G
<1>11. r \in 1 .. G(D) - 1
  <2>1. G(D) \in Nat
    BY Geometric, Zenon DEF G
  <2> QED BY <1>1, <2>1
<1> QED BY <1>1, <1>2, <1>8, <1>10, <1>11, Zenon DEF G

\* The shape of the tree: depths, blocks, and the parents of the ranks but the root.
LEMMA Shape ==
  ASSUME NEW n \in Nat \ {0}, NEW w \in Nat \ {0, 1}, NEW r \in 0 .. n - 1
  PROVE  LET info == Infos(n, w)
             D == dep(n, w)
         IN  /\ info[r].max_depth = D
             /\ info[r].depth \in 0 .. D
             /\ info[r].depth = 0 => r = 0
             /\ info[r].children \in Nat /\ r + info[r].children <= n - 1
             /\ \A s \in 0 .. n - 1 : s \in Block(info, r) <=> r <= s /\ s < r + Full(n, w, r)
             /\ r # 0 => /\ info[r].parent \in 0 .. r - 1
                         /\ info[r].depth = info[info[r].parent].depth + 1
                         /\ \E i \in 0 .. w - 1 : r = info[r].parent + 1 + i * Full(n, w, r)
<1> DEFINE info == Infos(n, w)
           G(k) == geometric_series(w, k)
<1>1. PICK D \in Nat : D = dep(n, w) /\ G(D) >= n /\ D <= n - 1
  BY Depth
<1>2. G(D) \in Nat
  BY Geometric, Zenon
<1>3. CASE r = 0
  <2>2. info[r].children = n - 1 /\ info[r].depth = 0 /\ info[r].max_depth = D
    BY <1>1, <1>3, RootInfo, Zenon
  <2>3. Full(n, w, r) = G(D)
    BY <1>1, <2>2 DEF Full
  <2> HIDE DEF info, G
  <2>4. \A s \in 0 .. n - 1 : s \in Block(info, r) <=> r <= s /\ s < r + Full(n, w, r)
    BY <1>1, <1>2, <1>3, <2>2, <2>3 DEF Block
  <2>5. 0 \in 0 .. D /\ n - 1 \in Nat /\ r + (n - 1) <= n - 1
    BY <1>3
  <2> QED BY <1>1, <1>3, <2>2, <2>4, <2>5, Zenon DEF info, G
<1>4. CASE r # 0
  <2> DEFINE T == Top(w, D)
             t == search_tree(r, w)[T]
  <2>0. r \in 1 .. n - 1
    BY <1>4
  <2>1. Level(T, 1, w, D) /\ Reach(T, 1, w, D) = 1 .. G(D) - 1 /\ r \in Reach(T, 1, w, D)
    BY <1>1, <2>0, TopLevel, Zenon
  <2>3. /\ info[r].parent = t.parent /\ info[r].depth = t.depth /\ info[r].max_depth = D
        /\ info[r].children = IF r + t.children >= n THEN n - r - 1 ELSE t.children
    BY <1>1, <2>0, RankInfo
  <2>4. T.node = 0 /\ 1 \in Nat
    BY Zenon DEF Top
  <2>5. Placed(r, T, 1, w, D)
    BY <2>1, <2>4, AllPlaced, Zenon
  <2> HIDE DEF T
  <2>6. /\ t.depth \in 1 .. D
        /\ t.children = G(D - t.depth) - 1
        /\ \E i \in 0 .. w - 1 : r = t.parent + 1 + i * G(D - t.depth)
        /\ \/ t.parent = 0 /\ t.depth = 1
           \/ t.parent \in 1 .. G(D) - 1 /\ search_tree(t.parent, w)[T].depth = t.depth - 1
    BY <2>1, <2>4, <2>5, Zenon DEF Placed
  <2> HIDE DEF t, info
  <2>7. PICK x \in Nat \ {0} : x = G(D - t.depth)
    <3>1. D - t.depth \in Nat
      BY <2>6
    <3> QED BY <3>1, Geometric, Zenon
  <2> HIDE DEF G
  <2>8. Full(n, w, r) = x
    BY <1>1, <2>3, <2>7, Zenon DEF Full, info, G
  <2>9. PICK i \in 0 .. w - 1 : r = t.parent + 1 + i * x
    BY <2>6, <2>7, Zenon
  <2>10. t.parent \in 0 .. r - 1
    <3>1. i * x \in Nat
      OBVIOUS
    <3>2. PICK p \in Nat : p = t.parent
      BY <2>6, <1>2
    <3> QED BY <3>1, <3>2, <2>9
  <2>11. info[t.parent].depth + 1 = t.depth
    <3>1. CASE t.parent = 0 /\ t.depth = 1
      <4>1. info[0].depth = 0
        BY RootInfo, Zenon DEF info
      <4> QED BY <3>1, <4>1
    <3>2. CASE t.parent \in 1 .. G(D) - 1 /\ search_tree(t.parent, w)[T].depth = t.depth - 1
      <4>1. t.parent \in 1 .. n - 1
        BY <3>2, <2>10, <1>2
      <4>2. info[t.parent].depth = search_tree(t.parent, w)[T].depth
        <5>1. PICK p \in 1 .. n - 1 : p = t.parent
          BY <4>1, Zenon
        <5>2. info[p].depth = search_tree(p, w)[T].depth
          BY <1>1, RankInfo DEF info, T
        <5> QED BY <5>1, <5>2, Zenon
      <4> QED BY <3>2, <4>2, <2>6
    <3> QED BY <3>1, <3>2, <2>6, Zenon
  <2>12. info[r].children \in Nat /\ r + info[r].children <= n - 1
    BY <2>3, <2>6, <2>7
  <2>13. \A s \in 0 .. n - 1 : s \in Block(info, r) <=> r <= s /\ s < r + Full(n, w, r)
    <3>1. t.children = x - 1
      BY <2>6, <2>7, Zenon
    <3>2. PICK c \in Nat : c = info[r].children /\ c = IF r + (x - 1) >= n THEN n - r - 1 ELSE x - 1
      BY <2>3, <2>12, <3>1, Zenon
    <3>3. \A s \in 0 .. n - 1 : s \in r .. r + c <=> r <= s /\ s < r + x
      BY <3>2
    <3> QED BY <3>2, <3>3, <2>8, Zenon DEF Block
  <2>14. t.depth \in 0 .. D /\ t.depth # 0
    BY <2>6, SMTT(30)
  <2> QED BY <1>1, <1>4, <2>3, <2>8, <2>9, <2>10, <2>11, <2>12, <2>13, <2>14, Zenon DEF info
<1> QED BY <1>3, <1>4, Zenon

\* ... and the children: each place for a child of r is taken by a child of r.
LEMMA ShapeDown ==
  ASSUME NEW n \in Nat \ {0}, NEW w \in Nat \ {0, 1}, NEW r \in 0 .. n - 1,
         NEW i \in 0 .. w - 1
  PROVE  LET info == Infos(n, w)
             D == dep(n, w)
             c == r + 1 + i * geometric_series(w, D - (info[r].depth + 1))
         IN  info[r].depth < D /\ c <= n - 1
               => c \in 1 .. n - 1 /\ info[c].parent = r /\ info[c].depth = info[r].depth + 1
<1> DEFINE info == Infos(n, w)
           G(k) == geometric_series(w, k)
           e == info[r].depth
<1>1. PICK D \in Nat : D = dep(n, w)
  BY Depth, SMTT(30)
<1> DEFINE c == r + 1 + i * G(D - (e + 1))
           T == Top(w, D)
<1> SUFFICES ASSUME e < D, c <= n - 1
             PROVE  c \in 1 .. n - 1 /\ info[c].parent = r /\ info[c].depth = e + 1
  BY <1>1, Zenon
<1>2. e \in Nat
  <2>1. e \in 0 .. D
    BY <1>1, Shape, Zenon
  <2> HIDE DEF e
  <2> QED BY <2>1
<1>3. c \in Nat /\ r < c
  <2>1. PICK k \in Nat : k = e /\ k < D /\ r \in Nat
    BY <1>2
  <2> HIDE DEF e
  <2>2. r + 1 + i * geometric_series(w, D - (k + 1)) \in Nat
        /\ r < r + 1 + i * geometric_series(w, D - (k + 1))
    BY <2>1, ChildInBlock, Zenon
  <2> QED BY <2>1, <2>2, Zenon
<1>4. c \in 1 .. n - 1
  <2> HIDE DEF c
  <2> QED BY <1>3
<1>5. Level(T, 1, w, D) /\ Reach(T, 1, w, D) = 1 .. G(D) - 1 /\ c \in Reach(T, 1, w, D)
  <2> HIDE DEF c
  <2> QED BY <1>1, <1>4, TopLevel, Zenon
<1>6. info[c].parent = search_tree(c, w)[T].parent
  <2> HIDE DEF c
  <2> QED BY <1>1, <1>4, RankInfo, Zenon
<1>7. search_tree(c, w)[T].parent = r
  <2>1. CASE r = 0
    <3>1. e = 0
      BY <2>1, RootInfo, Zenon
    <3>2. T.node = 0 /\ 1 \in Nat
      BY Zenon DEF Top
    <3>3. c = 0 + 1 + i * G(D - 1)
      BY <2>1, <3>1
    <3> HIDE DEF c, T
    <3>4. PICK id : id = c /\ id = T.node + 1 + i * geometric_series(w, D - 1)
      BY <3>2, <3>3, Zenon
    <3>5. search_tree(id, w)[T] = [parent |-> T.node, depth |-> 1, children |-> geometric_series(w, D - 1) - 1]
      BY <1>5, <3>2, <3>4, FoundHere
    <3> QED BY <2>1, <3>2, <3>4, <3>5
  <2>2. CASE r # 0
    <3>1. r \in 1 .. n - 1
      BY <2>2
    <3>2. r \in Reach(T, 1, w, D)
      BY <1>1, <3>1, TopLevel, Zenon
    <3>3. Parents(r, T, w, D)
      BY <1>5, <3>2, AllParents, 1 \in Nat
    <3>4. e = search_tree(r, w)[T].depth
      BY <1>1, <3>1, RankInfo, Zenon
    <3> HIDE DEF T, e
    <3> QED BY <3>3, <3>4, Zenon DEF Parents
  <2> QED BY <2>1, <2>2, Zenon
<1>8. info[c].depth = info[info[c].parent].depth + 1
  <2> HIDE DEF c
  <2>1. c \in 0 .. n - 1 /\ c # 0
    BY <1>4
  <2> QED BY <2>1, Shape, Zenon
<1> QED BY <1>4, <1>6, <1>7, <1>8, Zenon

\* The places for the children of r: where they are and how far their blocks go.
LEMMA ChildPlace ==
  ASSUME NEW n \in Nat \ {0}, NEW w \in Nat \ {0, 1}, NEW r \in 0 .. n - 1,
         NEW c \in ChildrenOf(Infos(n, w), r)
  PROVE  LET info == Infos(n, w)
             g == geometric_series(w, dep(n, w) - (info[r].depth + 1))
         IN  /\ c \in 1 .. n - 1 /\ r < c /\ g \in Nat \ {0}
             /\ info[c].depth = info[r].depth + 1
             /\ Full(n, w, c) = g /\ c + g <= r + Full(n, w, r)
             /\ \E i \in 0 .. w - 1 : c = r + 1 + i * g
<1> DEFINE info == Infos(n, w)
<1>1. DOMAIN info = 0 .. n - 1
  BY Zenon DEF Infos
<1>2. c \in 0 .. n - 1 /\ info[c].parent = r
  BY <1>1, Zenon DEF ChildrenOf
<1>3. c # 0
  <2>1. info[0].parent = -1
    BY RootInfo, Zenon
  <2> QED BY <2>1, <1>2
<1> HIDE DEF info
<1>4. /\ info[r].depth \in 0 .. dep(n, w) /\ info[c].depth \in 0 .. dep(n, w)
      /\ info[c].depth = info[r].depth + 1
      /\ \E i \in 0 .. w - 1 : c = r + 1 + i * Full(n, w, c)
  <2>1. info[r].depth \in 0 .. dep(n, w)
    BY Shape, Zenon DEF info
  <2>2. /\ info[c].depth \in 0 .. dep(n, w) /\ info[c].depth = info[info[c].parent].depth + 1
        /\ \E i \in 0 .. w - 1 : c = info[c].parent + 1 + i * Full(n, w, c)
    BY <1>2, <1>3, Shape DEF info
  <2> QED BY <2>1, <2>2, <1>2, Zenon
<1>5. PICK D \in Nat, e \in Nat : D = dep(n, w) /\ e = info[r].depth /\ e < D
  BY <1>4, Depth
<1>6. PICK g : g = geometric_series(w, D - (e + 1))
  BY Zenon
<1>7. Full(n, w, c) = g /\ Full(n, w, r) = geometric_series(w, D - e)
  BY <1>4, <1>5, <1>6, Zenon DEF Full, info
<1>8. PICK i \in 0 .. w - 1 : c = r + 1 + i * g
  BY <1>4, <1>7, Zenon
<1>9. g \in Nat \ {0} /\ r < c /\ c + g <= r + geometric_series(w, D - e)
  <2>1. r \in Nat
    OBVIOUS
  <2> QED BY <2>1, <1>5, <1>6, <1>8, ChildInBlock, Zenon
<1>10. c \in 1 .. n - 1
  BY <1>2, <1>3
<1> QED BY <1>4, <1>5, <1>6, <1>7, <1>8, <1>9, <1>10, Zenon DEF info

\* A rank has at most w children.
LEMMA FewChildren ==
  ASSUME NEW n \in Nat \ {0}, NEW w \in Nat \ {0, 1}, NEW r \in 0 .. n - 1
  PROVE  Cardinality(ChildrenOf(Infos(n, w), r)) <= w
<1> DEFINE C == ChildrenOf(Infos(n, w), r)
           g == geometric_series(w, dep(n, w) - (Infos(n, w)[r].depth + 1))
           place(c) == CHOOSE i \in 0 .. w - 1 : c = r + 1 + i * g
           f == [c \in C |-> place(c)]
<1>1. \A c \in C : \E i \in 0 .. w - 1 : c = r + 1 + i * g
  BY ChildPlace
<1> HIDE DEF g, C
<1>2. \A c \in C : place(c) \in 0 .. w - 1 /\ c = r + 1 + place(c) * g
  BY <1>1, Zenon
<1> HIDE DEF place
<1>3. f \in [C -> 0 .. w - 1]
  BY <1>2, Zenon
<1>4. \A a, b \in C : f[a] = f[b] => a = b
  BY <1>2, Zenon
<1> HIDE DEF f
<1>5. f \in Injection(C, 0 .. w - 1)
  BY <1>3, <1>4, Zenon DEF Injection, IsInjective
<1>6. IsFiniteSet(0 .. w - 1) /\ Cardinality(0 .. w - 1) = w
  BY FS_Interval
<1>7. Cardinality(C) <= Cardinality(0 .. w - 1)
  BY <1>5, <1>6, FS_Injection
<1> QED BY <1>6, <1>7, Zenon DEF C

\* The blocks of the children of r make up its own, without r.
LEMMA BlocksCover ==
  ASSUME NEW n \in Nat \ {0}, NEW w \in Nat \ {0, 1}, NEW r \in 0 .. n - 1
  PROVE  LET info == Infos(n, w) IN
         UNION {Block(info, c) : c \in ChildrenOf(info, r)} = Block(info, r) \ {r}
<1> DEFINE info == Infos(n, w)
           C == ChildrenOf(info, r)
<1>0. ASSUME NEW x \in 0 .. n - 1 PROVE /\ Block(info, x) \subseteq 0 .. n - 1
                                        /\ Full(n, w, x) \in Nat
                                        /\ \A s \in 0 .. n - 1 : s \in Block(info, x)
                                              <=> x <= s /\ s < x + Full(n, w, x)
  <2>1. /\ info[x].children \in Nat /\ x + info[x].children <= n - 1
        /\ \A s \in 0 .. n - 1 : s \in Block(info, x) <=> x <= s /\ s < x + Full(n, w, x)
        /\ info[x].depth \in 0 .. dep(n, w)
    BY Shape, Zenon
  <2>2. dep(n, w) - info[x].depth \in Nat
    <3>1. PICK D \in Nat : D = dep(n, w)
      BY Depth
    <3> DEFINE e == info[x].depth
    <3>2. e \in 0 .. D
      BY <2>1, <3>1, Zenon
    <3> HIDE DEF e
    <3>3. D - e \in Nat
      BY <3>2
    <3> QED BY <3>1, <3>3, Zenon DEF e
  <2>3. Full(n, w, x) \in Nat
    BY <2>2, Geometric, Zenon DEF Full
  <2>4. Block(info, x) \subseteq 0 .. n - 1
    BY <2>1 DEF Block
  <2> QED BY <2>1, <2>3, <2>4, Zenon
<1>1. ASSUME NEW c \in C, NEW s \in Block(info, c) PROVE s \in Block(info, r) \ {r}
  <2>1. PICK g \in Nat \ {0} : /\ c \in 1 .. n - 1 /\ r < c
                               /\ Full(n, w, c) = g /\ c + g <= r + Full(n, w, r)
    BY <1>1, ChildPlace, Zenon
  <2>2. c \in 0 .. n - 1
    BY <2>1
  <2> HIDE DEF info, C
  <2>3. s \in 0 .. n - 1 /\ c <= s /\ s < c + g
    BY <1>0, <1>1, <2>1, <2>2, Zenon
  <2>4. r <= s /\ s # r /\ s < r + Full(n, w, r)
    BY <2>1, <2>2, <2>3, <1>0
  <2> QED BY <1>0, <2>3, <2>4, Zenon
<1>2. ASSUME NEW s \in Block(info, r), s # r PROVE \E c \in C : s \in Block(info, c)
  <2>1. s \in 0 .. n - 1 /\ r <= s /\ s < r + Full(n, w, r)
    BY <1>0, <1>2, Zenon
  <2>2. PICK D \in Nat, e \in Nat : D = dep(n, w) /\ e = info[r].depth /\ e <= D
    <3>1. PICK D \in Nat : D = dep(n, w)
      BY Depth
    <3>2. info[r].depth \in 0 .. D
      BY <3>1, Shape, Zenon
    <3> HIDE DEF info
    <3> QED BY <3>1, <3>2
  <2>3. Full(n, w, r) = geometric_series(w, D - e)
    BY <2>2, Zenon DEF Full
  <2>4. e < D
    <3> SUFFICES ASSUME e = D PROVE FALSE
      BY <2>2
    <3>1. Full(n, w, r) = 1
      BY <2>3, Geometric
    <3> QED BY <3>1, <2>1, <1>2
  <2>5. PICK g \in Nat \ {0} : /\ g = geometric_series(w, D - (e + 1))
                               /\ geometric_series(w, D - e) = 1 + w * g
    <3>1. PICK m \in Nat : m = D - (e + 1) /\ m + 1 = D - e
      BY <2>4
    <3>2. geometric_series(w, m) \in Nat \ {0}
          /\ geometric_series(w, m + 1) = 1 + w * geometric_series(w, m)
      BY Geometric, Zenon
    <3> QED BY <3>1, <3>2, Zenon
  <2> HIDE DEF info, C
  <2>6. PICK k \in Nat : s = r + 1 + k /\ k < w * g
    <3>1. s - r - 1 \in Nat /\ s = r + 1 + (s - r - 1)
      BY <2>1, <1>2
    <3>2. w * g \in Nat
      OBVIOUS
    <3>3. s - r - 1 < w * g
      BY <2>1, <2>3, <2>5, <3>2
    <3> QED BY <3>1, <3>3, Zenon
  <2>7. PICK i \in 0 .. w - 1 : i * g <= k /\ k < i * g + g
    BY <2>6, Slot, Zenon
  <2>8. PICK c \in Nat : c = r + 1 + i * g /\ c <= s /\ s < c + g
    <3>1. i * g \in Nat
      OBVIOUS
    <3> QED BY <3>1, <2>6, <2>7
  <2>9. c <= n - 1 /\ c = r + 1 + i * geometric_series(w, D - (info[r].depth + 1)) /\ info[r].depth < D
    BY <2>1, <2>2, <2>4, <2>5, <2>8
  <2>10. c \in 1 .. n - 1 /\ info[c].parent = r /\ info[c].depth = e + 1
    BY <2>2, <2>9, ShapeDown DEF info
  <2>11. c \in C /\ c \in 0 .. n - 1
    BY <2>10 DEF C, info, ChildrenOf, Infos
  <2>12. Full(n, w, c) = g
    BY <2>2, <2>5, <2>10, Zenon DEF Full, info
  <2>13. s \in Block(info, c)
    BY <1>0, <2>1, <2>8, <2>11, <2>12, Zenon
  <2> QED BY <2>11, <2>13, Zenon
<1> HIDE DEF info, C
<1>3. UNION {Block(info, c) : c \in C} = Block(info, r) \ {r}
  BY <1>1, <1>2, Zenon
<1> QED BY <1>3, Zenon DEF info, C

\* Different children of r have different blocks.
LEMMA BlocksApart ==
  ASSUME NEW n \in Nat \ {0}, NEW w \in Nat \ {0, 1}, NEW r \in 0 .. n - 1,
         NEW a \in ChildrenOf(Infos(n, w), r), NEW b \in ChildrenOf(Infos(n, w), r), a < b
  PROVE  Block(Infos(n, w), a) \cap Block(Infos(n, w), b) = {}
<1> DEFINE info == Infos(n, w)
<1>1. PICK g \in Nat \ {0} : g = geometric_series(w, dep(n, w) - (info[r].depth + 1))
  BY ChildPlace, Zenon
<1>2. PICK i \in 0 .. w - 1 : a = r + 1 + i * g
  BY <1>1, ChildPlace
<1>3. PICK j \in 0 .. w - 1 : b = r + 1 + j * g
  BY <1>1, ChildPlace
<1>4. /\ a \in 0 .. n - 1 /\ Full(n, w, a) = g
      /\ b \in 0 .. n - 1
  <2>1. a \in 1 .. n - 1 /\ Full(n, w, a) = g /\ b \in 1 .. n - 1
    BY <1>1, ChildPlace
  <2> QED BY <2>1
<1>5. i * g + g <= j * g /\ i * g \in Nat /\ j * g \in Nat
  <2>1. i * g \in Nat /\ j * g \in Nat
    OBVIOUS
  <2>2. ASSUME j < i PROVE FALSE
    <3>1. j * g + g <= i * g
      BY <2>2, Apart
    <3> QED BY <3>1, <2>1, <1>2, <1>3
  <2>3. i < j
    BY <2>2, <1>2, <1>3
  <2> QED BY <2>1, <2>3, Apart
<1>6. a + g <= b
  BY <1>2, <1>3, <1>5
<1>7. ASSUME NEW s \in Block(info, a), s \in Block(info, b) PROVE FALSE
  <2>1. info[b].children \in Nat /\ b + info[b].children <= n - 1
    BY <1>4, Shape, Zenon
  <2>2. s \in b .. b + info[b].children
    BY <1>7, Zenon DEF Block
  <2> HIDE DEF info
  <2>3. b <= s /\ s \in 0 .. n - 1
    BY <2>1, <2>2, <1>4
  <2>4. s < a + g
    BY <1>4, <1>7, <2>3, Shape, Zenon DEF info
  <2> QED BY <2>3, <2>4, <1>4, <1>6, SMTT(30)
<1> QED BY <1>7, Zenon

\* The first ranks go down from the root, one level each, so that some rank has
\* the depth that dep says.
LEMMA Deepest ==
  ASSUME NEW n \in Nat \ {0}, NEW w \in Nat \ {0, 1}
  PROVE  LET info == Infos(n, w) IN
         \E r \in 0 .. n - 1 : info[r].depth = dep(n, w)
<1> DEFINE info == Infos(n, w)
<1>1. PICK D \in Nat : D = dep(n, w) /\ D <= n - 1
  BY Depth
<1> DEFINE E == {k \in Nat : k <= D => info[k].depth = k}
<1>2. 0 \in E
  BY RootInfo, Zenon
<1>3. ASSUME NEW k \in Nat, k \in E PROVE k + 1 \in E
  <2> SUFFICES ASSUME k + 1 <= D PROVE info[k + 1].depth = k + 1
    OBVIOUS
  <2>1. info[k].depth = k
    BY <1>3
  <2>2. k \in 0 .. n - 1 /\ 0 \in 0 .. w - 1 /\ info[k].depth < D
    BY <1>1, <2>1
  <2>3. PICK g \in Nat : g = geometric_series(w, D - (info[k].depth + 1))
    <3>1. D - (k + 1) \in Nat
      OBVIOUS
    <3> QED BY <2>1, <3>1, Geometric, Zenon
  <2>4. k + 1 + 0 * g = k + 1 /\ k + 1 <= n - 1
    BY <1>1
  <2>5. k + 1 + 0 * geometric_series(w, D - (info[k].depth + 1)) = k + 1
    BY <2>3, <2>4, Zenon
  <2>6. info[k + 1 + 0 * geometric_series(w, D - (info[k].depth + 1))].depth = info[k].depth + 1
    BY <1>1, <2>2, <2>4, <2>5, ShapeDown, SMTT(30)
  <2> QED BY <2>1, <2>5, <2>6, Zenon
<1> HIDE DEF E
<1>4. \A k \in Nat : k \in E
  BY <1>2, <1>3, NatSet, Zenon
<1>5. info[D].depth = D /\ D \in 0 .. n - 1
  BY <1>1, <1>4 DEF E
<1> QED BY <1>1, <1>5, Zenon

\* reverse_tree_info makes a tree of blocks, for any number of ranks and any width.
THEOREM EveryTreeIsBlocks ==
  ASSUME NEW n \in Nat \ {0}, NEW w \in Nat \ {0, 1}
  PROVE  BlockTree(n, w)
<1> DEFINE info == Infos(n, w)
           D == dep(n, w)
           S == {info[r].depth : r \in 0 .. n - 1}
<1>1. \A r \in 0 .. n - 1 : info[r].max_depth = D /\ info[r].depth \in 0 .. D
  BY Shape, Zenon
<1>2. D \in S
  BY Deepest, Zenon
<1>3. D \in Nat
  BY Depth
<1>4. Max(S) = D
  <2>1. \A y \in S : y \in Nat /\ y <= D
    BY <1>1, <1>3
  <2> HIDE DEF S, D
  <2>2. \A x \in S : (\A y \in S : x >= y) => x = D
    BY <1>2, <1>3, <2>1
  <2>3. \A y \in S : D >= y
    BY <1>3, <2>1, Zenon
  <2> QED BY <1>2, <2>2, <2>3, Zenon DEF Max
<1>5. {info[r].max_depth : r \in 0 .. n - 1} = {Max(S)}
  <2>1. 0 \in 0 .. n - 1
    OBVIOUS
  <2> HIDE DEF S, D, info
  <2> QED BY <1>1, <1>4, <2>1, Zenon
<1>6. ASSUME NEW r \in 0 .. n - 1
      PROVE  LET below == ChildrenOf(info, r) IN
             /\ Cardinality(below) <= w
             /\ \A c \in below : info[c].depth = info[r].depth + 1
             /\ UNION {Block(info, c) : c \in below} = Block(info, r) \ {r}
             /\ \A c, d \in below : c # d => Block(info, c) \cap Block(info, d) = {}
  <2>1. \A c \in ChildrenOf(info, r) : info[c].depth = info[r].depth + 1 /\ c \in 1 .. n - 1
    BY ChildPlace
  <2>2. ASSUME NEW c \in ChildrenOf(info, r), NEW d \in ChildrenOf(info, r), c # d
        PROVE  Block(info, c) \cap Block(info, d) = {}
    <3>1. CASE c < d
      BY <3>1, BlocksApart, Zenon
    <3>2. CASE d < c
      <4>1. Block(info, d) \cap Block(info, c) = {}
        BY <3>2, BlocksApart, Zenon
      <4> QED BY <4>1, Zenon
    <3> QED BY <3>1, <3>2, <2>1, <2>2
  <2>3. Cardinality(ChildrenOf(info, r)) <= w
    BY FewChildren, Zenon
  <2>4. UNION {Block(info, c) : c \in ChildrenOf(info, r)} = Block(info, r) \ {r}
    BY BlocksCover, Zenon
  <2> HIDE DEF info
  <2> QED BY <2>1, <2>2, <2>3, <2>4, Zenon
<1> HIDE DEF info
<1> QED BY <1>5, <1>6, Zenon DEF BlockTree, info, S
=============================================================================
