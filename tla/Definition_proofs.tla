------------------------- MODULE Definition_proofs -------------------------
(***************************************************************************)
(* Proofs about definitions, for any records, policies and limits.         *)
(*                                                                         *)
(* Sorting is known by what it leaves: a permutation in order (OrderIs),   *)
(* which is the list itself if it was in order (OrderIsIdentity).  So the  *)
(* comparison of neighbours decides what is said of any two records        *)
(* (DuplicatesAreSeen, EdgesSorted), and what is canonical stays as it is  *)
(* (CanonicalStays), which is why a payload, a text or a second            *)
(* canonicalization gives the same definition.  The two passes that fill   *)
(* the adjacency have a closed form (OffsetsAre, OutListIs).               *)
(***************************************************************************)
EXTENDS Definition, FiniteSetTheorems, SequenceTheorems, TLAPS

-----------------------------------------------------------------------------
(* Natural numbers                                                         *)

\* Induction: a set of naturals with 0 and all successors is all of them.
LEMMA NaturalSet ==
    ASSUME NEW T, T \subseteq Nat, 0 \in T, \A n \in T : n + 1 \in T
    PROVE  T = Nat
<1> DEFINE M == Nat \ T
           I == {1..n : n \in M}
<1>1. SUFFICES ASSUME M # {} PROVE FALSE
  OBVIOUS
<1>2. PICK p \in I : \A q \in I : <<q, p>> \notin StrictSubsetOrdering(Nat)
  <2>1. \A n \in Nat : 1..n \subseteq Nat /\ IsFiniteSet(1..n)
    BY FS_Interval
  <2>2. I \subseteq FiniteSubsetsOf(Nat)
    BY <2>1 DEF FiniteSubsetsOf
  <2>3. I # {}
    BY <1>1
  <2> HIDE DEF I
  <2> QED BY <2>2, <2>3, WFMin, FS_StrictSubsetOrderingWellFounded
<1>3. PICK x \in M : p = 1..x
  OBVIOUS
<1>4. x # 0 /\ x \in Nat /\ x - 1 \in Nat
  OBVIOUS
<1>5. x - 1 \in M
  <2>1. x - 1 \in T => (x - 1) + 1 \in T
    OBVIOUS
  <2> QED BY <1>4, <2>1
<1>6. <<1..(x - 1), 1..x>> \in StrictSubsetOrdering(Nat)
  <2>1. 1..(x - 1) \in SUBSET Nat /\ 1..x \in SUBSET Nat /\ 1..(x - 1) \subseteq 1..x
    BY <1>4
  <2>2. x \in 1..x /\ x \notin 1..(x - 1)
    BY <1>4
  <2> QED BY <2>1, <2>2 DEF StrictSubsetOrdering
<1> QED BY <1>2, <1>3, <1>5, <1>6

\* A set of naturals has a least element.
LEMMA LeastNatural ==
    ASSUME NEW S, S \subseteq Nat, S # {}
    PROVE  \E x \in S : \A y \in S : x <= y
<1>1. SUFFICES ASSUME \A x \in S : \E y \in S : y < x
               PROVE  FALSE
  OBVIOUS
<1> DEFINE T == {n \in Nat : \A m \in 0..n : m \notin S}
<1>2. 0 \in T
  BY <1>1
<1>3. \A n \in T : n + 1 \in T
  <2> TAKE n \in T
  <2>1. n + 1 \notin S
    <3>1. SUFFICES ASSUME n + 1 \in S PROVE FALSE
      OBVIOUS
    <3>2. PICK y \in S : y < n + 1
      BY <1>1, <3>1
    <3> QED BY <3>2
  <2> QED BY <2>1
<1>4. T = Nat
  <2> HIDE DEF T
  <2>1. T \subseteq Nat
    BY DEF T
  <2> QED BY <1>2, <1>3, <2>1, NaturalSet
<1>5. PICK x \in S : TRUE
  OBVIOUS
<1> QED BY <1>4, <1>5, x \in T, x \in 0..x

-----------------------------------------------------------------------------
(* Sorting                                                                 *)

\* Of two elements at most one is before the other, and what is not before
\* either of two that are in order is after neither.
WeakOrder(n, before) ==
    /\ before \subseteq (1..n) \X (1..n)
    /\ \A i, j \in 1..n : <<i, j>> \in before => <<j, i>> \notin before
    /\ \A i, j, k \in 1..n : <<i, j>> \in before => <<i, k>> \in before \/ <<k, j>> \in before

\* A set has an element that is before no other.
LEMMA LastExists ==
    ASSUME NEW n \in Nat, NEW before, WeakOrder(n, before),
           NEW S, S \subseteq 1..n, S # {}
    PROVE  \E m \in S : \A i \in S : <<m, i>> \notin before
<1> DEFINE Lasts(T) == \E m \in T : \A i \in T : <<m, i>> \notin before
           K == {k \in Nat : \A T \in SUBSET (1..n) : T # {} /\ T \subseteq 1..k => Lasts(T)}
<1>1. 0 \in K
  <2>1. \A T : T \subseteq 1..0 => T = {}
    OBVIOUS
  <2> HIDE DEF Lasts
  <2> QED BY <2>1
<1>2. ASSUME NEW k \in K PROVE k + 1 \in K
  <2>1. SUFFICES ASSUME NEW T \in SUBSET (1..n), T # {}, T \subseteq 1..(k + 1)
                 PROVE  Lasts(T)
    <3> HIDE DEF Lasts
    <3> QED OBVIOUS
  <2>2. CASE k + 1 \notin T
    <3>1. T \subseteq 1..k
      BY <2>1, <2>2
    <3> QED BY <2>1, <3>1
  <2>3. CASE T = {k + 1}
    BY <2>1, <2>3 DEF WeakOrder
  <2>4. CASE k + 1 \in T /\ T # {k + 1}
    <3> DEFINE U == T \ {k + 1}
    <3>1. U \in SUBSET (1..n) /\ U # {} /\ U \subseteq 1..k
      BY <2>1, <2>4
    <3>2. PICK m \in U : \A i \in U : <<m, i>> \notin before
      <4> HIDE DEF U
      <4> QED BY <3>1
    <3>3. CASE <<m, k + 1>> \notin before
      BY <3>2, <3>3
    <3>4. CASE <<m, k + 1>> \in before
      <4>1. \A i \in U : <<k + 1, i>> \notin before
        BY <2>1, <3>1, <3>2, <3>4, <2>4 DEF WeakOrder
      <4>2. <<k + 1, k + 1>> \notin before
        BY <2>1, <2>4 DEF WeakOrder
      <4> QED BY <2>4, <4>1, <4>2
    <3> QED BY <3>3, <3>4
  <2> QED BY <2>2, <2>3, <2>4
<1>3. K = Nat
  <2> HIDE DEF K
  <2>1. K \subseteq Nat
    BY DEF K
  <2> QED BY <1>1, <1>2, <2>1, NaturalSet
<1> QED BY <1>3

Sorts(p, n, before) == \A i, j \in 1..n : i < j => <<p[j], p[i]>> \notin before

\* A finite set can be listed in order.
LEMMA OrderExists ==
    ASSUME NEW n \in Nat, NEW before, WeakOrder(n, before)
    PROVE  \E p \in Permutation(n) : Sorts(p, n, before)
<1> DEFINE Lists(f, S, k) == /\ f \in [1..k -> S] /\ \A x \in S : \E j \in 1..k : f[j] = x
                             /\ Sorts(f, k, before)
           K == {k \in Nat : \A S \in SUBSET (1..n) : Cardinality(S) = k => \E f : Lists(f, S, k)}
<1>1. \A S \in SUBSET (1..n) : IsFiniteSet(S)
  <2>1. IsFiniteSet(1..n)
    BY FS_Interval
  <2> QED BY <2>1, FS_Subset
<1>2. 0 \in K
  <2>1. SUFFICES ASSUME NEW S \in SUBSET (1..n), Cardinality(S) = 0
                 PROVE  \E f : Lists(f, S, 0)
    OBVIOUS
  <2>2. S = {} /\ 1..0 = {}
    BY <1>1, <2>1, FS_EmptySet
  <2>3. Lists([i \in 1..0 |-> i], S, 0)
    BY <2>2 DEF Sorts
  <2> QED BY <2>3
<1>3. ASSUME NEW k \in K PROVE k + 1 \in K
  <2>1. SUFFICES ASSUME NEW S \in SUBSET (1..n), Cardinality(S) = k + 1
                 PROVE  \E f : Lists(f, S, k + 1)
    OBVIOUS
  <2>2. S # {}
    BY <2>1, FS_EmptySet
  <2>3. PICK m \in S : \A i \in S : <<m, i>> \notin before
    BY <2>2, LastExists
  <2> DEFINE U == S \ {m}
  <2>4. U \in SUBSET (1..n) /\ Cardinality(U) = k
    <3>1. IsFiniteSet(S)
      BY <1>1
    <3>2. Cardinality(U) = Cardinality(S) - 1
      BY <3>1, FS_RemoveElement
    <3> QED BY <2>1, <3>2
  <2>5. PICK f : Lists(f, U, k)
    <3> HIDE DEF U, Lists
    <3> QED BY <2>4
  <2> DEFINE g == [i \in 1..(k + 1) |-> IF i = k + 1 THEN m ELSE f[i]]
  <2>6. /\ \A i \in 1..k : g[i] = f[i] /\ f[i] \in U
        /\ g[k + 1] = m
        /\ \A i \in 1..(k + 1) : i \in 1..k \/ i = k + 1
    BY <2>5
  <2>7. g \in [1..(k + 1) -> S]
    BY <2>5, <2>6
  <2>8. \A x \in S : \E j \in 1..(k + 1) : g[j] = x
    <3> TAKE x \in S
    <3>1. CASE x = m
      BY <2>6, <3>1
    <3>2. CASE x # m
      <4>1. PICK j \in 1..k : f[j] = x
        BY <2>5, <3>2
      <4>2. j \in 1..(k + 1) /\ g[j] = x
        BY <2>6, <4>1
      <4> QED BY <4>2
    <3> QED BY <3>1, <3>2
  <2>9. Sorts(g, k + 1, before)
    <3> SUFFICES ASSUME NEW i \in 1..(k + 1), NEW j \in 1..(k + 1), i < j
                 PROVE  <<g[j], g[i]>> \notin before
      BY DEF Sorts
    <3>1. i \in 1..k
      OBVIOUS
    <3> HIDE DEF g
    <3>2. CASE j = k + 1
      BY <2>3, <2>6, <3>1, <3>2
    <3>3. CASE j \in 1..k
      BY <2>5, <2>6, <3>1, <3>3 DEF Sorts
    <3> QED BY <2>6, <3>2, <3>3
  <2> HIDE DEF g
  <2> QED BY <2>7, <2>8, <2>9
<1>4. K = Nat
  <2> HIDE DEF K
  <2>1. K \subseteq Nat
    BY DEF K
  <2> QED BY <1>2, <1>3, <2>1, NaturalSet
<1>5. 1..n \in SUBSET (1..n) /\ Cardinality(1..n) = n
  BY FS_Interval
<1>6. PICK f : Lists(f, 1..n, n)
  BY <1>4, <1>5
<1> QED BY <1>6 DEF Permutation

\* What std::sort computes is a permutation, and in order.
LEMMA OrderIs ==
    ASSUME NEW n \in Nat, NEW before, WeakOrder(n, before)
    PROVE  Order(n, before) \in Permutation(n) /\ Sorts(Order(n, before), n, before)
BY OrderExists DEF Order, Sorts

\* Each place of a permutation is taken once.
LEMMA PermutationInjective ==
    ASSUME NEW n \in Nat, NEW p \in Permutation(n)
    PROVE  \A i, j \in 1..n : p[i] = p[j] => i = j
<1>1. p \in Surjection(1..n, 1..n)
  BY DEF Permutation, Surjection
<1>2. p \in Injection(1..n, 1..n)
  BY <1>1, FS_Interval, FS_SurjSameCardinalityImpliesInj
<1> QED BY <1>2 DEF Injection, IsInjective

\* What is in order already stays where it is.
LEMMA OrderIsIdentity ==
    ASSUME NEW n \in Nat, NEW before, WeakOrder(n, before),
           \A i, j \in 1..n : i < j => <<i, j>> \in before
    PROVE  \A i \in 1..n : Order(n, before)[i] = i
<1> DEFINE p == Order(n, before)
           Moved == {i \in 1..n : p[i] # i}
<1>1. p \in Permutation(n) /\ Sorts(p, n, before)
  BY OrderIs
<1>2. \A i, j \in 1..n : p[i] = p[j] => i = j
  BY <1>1, PermutationInjective
<1> HIDE DEF p
<1>3. p \in [1..n -> 1..n] /\ \A i \in 1..n : \E j \in 1..n : p[j] = i
  BY <1>1 DEF Permutation
<1>4. SUFFICES ASSUME Moved # {} PROVE FALSE
  BY DEF p
<1>5. PICK i \in Moved : \A j \in Moved : i <= j
  <2>1. Moved \subseteq Nat
    OBVIOUS
  <2> HIDE DEF Moved
  <2> QED BY <1>4, <2>1, LeastNatural
<1>6. i \in 1..n /\ p[i] \in 1..n /\ p[i] # i
  BY <1>3, <1>5
<1>7. \A j \in 1..n : j < i => p[j] = j
  BY <1>5, <1>6
<1>8. PICK k \in 1..n : p[k] = i
  BY <1>3, <1>6
<1>9. i < k
  <2>1. k # i
    BY <1>6, <1>8
  <2>2. ~ k < i
    BY <1>7, <1>8, <2>1
  <2> QED BY <1>6, <2>1, <2>2
<1>10. ~ i < p[i]
  <2>1. <<i, p[i]>> \notin before
    BY <1>1, <1>6, <1>8, <1>9 DEF Sorts
  <2> QED BY <1>6, <2>1
<1>11. p[i] < i
  BY <1>6, <1>10
<1>12. p[p[i]] = p[i]
  BY <1>6, <1>7, <1>11
<1> QED BY <1>2, <1>6, <1>11, <1>12

\* The same elements, each as often.
Rearranged(t, s) ==
    /\ Len(t) = Len(s)
    /\ \E p \in Permutation(Len(s)) : \A i \in 1..Len(s) : t[i] = s[p[i]]

\* A sequence read through a permutation is one of the same elements.
LEMMA Reordered ==
    ASSUME NEW X, NEW s \in Seq(X), NEW n, n = Len(s), NEW p \in Permutation(n),
           NEW t, t = [i \in 1..n |-> s[p[i]]]
    PROVE  t \in Seq(X) /\ Len(t) = n /\ \A i \in 1..n : t[i] = s[p[i]]
<1>1. n \in Nat /\ p \in [1..n -> 1..n]
  BY DEF Permutation
<1>2. \A i \in 1..n : s[p[i]] \in X
  BY <1>1
<1>3. t \in [1..n -> X] /\ \A i \in 1..n : t[i] = s[p[i]]
  BY <1>2
<1> QED BY <1>1, <1>3

Identified(X) == \A x \in X : x.id \in Nat
Directed(X) == \A x \in X : x.from \in Nat /\ x.to \in Nat /\ x.id \in Nat

\* Sorting by identity puts a list in order, and leaves one in order as it is.
LEMMA SortedById ==
    ASSUME NEW X, NEW s \in Seq(X), Identified(X)
    PROVE  LET t == Sorted(s, IdBefore)
           IN  /\ t \in Seq(X) /\ Rearranged(t, s)
               /\ \A i, j \in 1..Len(s) : i < j => t[i].id <= t[j].id
               /\ (\A i, j \in 1..Len(s) : i < j => s[i].id < s[j].id) => t = s
<1> DEFINE n == Len(s)
<1>91. PICK before : before = {pair \in (DOMAIN s) \X (DOMAIN s) : IdBefore(s[pair[1]], s[pair[2]])}
  OBVIOUS
<1>92. PICK t : t = Sorted(s, IdBefore)
  OBVIOUS
<1>1. n \in Nat /\ DOMAIN s = 1..n /\ \A i \in 1..n : s[i].id \in Nat
  BY DEF Identified
<1>2. t = [i \in 1..n |-> s[Order(n, before)[i]]]
  <2>1. t = [i \in DOMAIN s |-> s[Order(n, before)[i]]]
    BY <1>91, <1>92 DEF Sorted
  <2> QED BY <1>1, <2>1, Zenon
<1>3. before \subseteq (1..n) \X (1..n)
  BY <1>91, <1>1
<1>4. \A i, j \in 1..n : <<i, j>> \in before <=> s[i].id < s[j].id
  BY <1>91, <1>1 DEF IdBefore
<1>5. WeakOrder(n, before)
  <2>1. \A i, j \in 1..n : <<i, j>> \in before => <<j, i>> \notin before
    BY <1>1, <1>4
  <2>2. \A i, j, k \in 1..n : <<i, j>> \in before => <<i, k>> \in before \/ <<k, j>> \in before
    BY <1>1, <1>4
  <2> QED BY <1>3, <2>1, <2>2 DEF WeakOrder
<1>6. /\ t \in Seq(X) /\ Rearranged(t, s)
      /\ \A i, j \in 1..n : i < j =>
            \E a, b \in 1..n : t[i] = s[a] /\ t[j] = s[b] /\ <<b, a>> \notin before
      /\ (\A i, j \in 1..n : i < j => <<i, j>> \in before) => t = s
  <2>1. n = Len(s)
    OBVIOUS
  <2> HIDE DEF n
  <2>2. Order(n, before) \in Permutation(n)
    BY <1>1, <1>5, OrderIs
  <2> DEFINE p == Order(n, before)
  <2>3. t = [i \in 1..n |-> s[p[i]]]
    BY <1>2
  <2>4. t \in Seq(X) /\ Len(t) = n /\ \A i \in 1..n : t[i] = s[p[i]]
    <3> HIDE DEF p
    <3>1. p \in Permutation(n)
      BY <2>2 DEF p
    <3> QED BY <2>1, <2>3, <3>1, Reordered
  <2>5. p \in Permutation(n) /\ Sorts(p, n, before)
    BY <1>1, <1>5, OrderIs
  <2>6. (\A i, j \in 1..n : i < j => <<i, j>> \in before) => \A i \in 1..n : p[i] = i
    BY <1>1, <1>5, OrderIsIdentity
  <2> HIDE DEF p
  <2>7. p \in [1..n -> 1..n]
    BY <2>5 DEF Permutation
  <2>8. Rearranged(t, s)
    BY <2>1, <2>4, <2>5 DEF Rearranged
  <2>9. \A i, j \in 1..n : i < j =>
           \E a, b \in 1..n : t[i] = s[a] /\ t[j] = s[b] /\ <<b, a>> \notin before
    BY <2>4, <2>5, <2>7 DEF Sorts
  <2>10. ASSUME \A i, j \in 1..n : i < j => <<i, j>> \in before PROVE t = s
    <3>1. \A i \in 1..n : t[i] = s[i]
      BY <2>4, <2>6, <2>10
    <3> QED BY <2>1, <2>4, <3>1, SeqEqual
  <2> QED BY <2>4, <2>8, <2>9, <2>10
<1>7. \A i, j \in 1..n : i < j => t[i].id <= t[j].id
  <2> TAKE i, j \in 1..n
  <2> HAVE i < j
  <2>1. PICK a, b \in 1..n : t[i] = s[a] /\ t[j] = s[b] /\ <<b, a>> \notin before
    BY <1>6
  <2>2. ~ (s[b].id < s[a].id)
    BY <1>4, <2>1
  <2> QED BY <1>1, <2>1, <2>2
<1>8. (\A i, j \in 1..n : i < j => s[i].id < s[j].id) => t = s
  BY <1>4, <1>6
<1> QED BY <1>92, <1>6, <1>7, <1>8, Zenon

\* The order of edges is total but for edges that agree in ends and identity.
LEMMA EdgeOrder ==
    ASSUME NEW e, NEW f, NEW g,
           \A x \in {e, f, g} : x.from \in Nat /\ x.to \in Nat /\ x.id \in Nat
    PROVE  /\ EdgeBefore(e, f) => ~ EdgeBefore(f, e)
           /\ EdgeBefore(e, f) => EdgeBefore(e, g) \/ EdgeBefore(g, f)
           /\ ~ EdgeBefore(f, e) => \/ EdgeBefore(e, f)
                                    \/ e.from = f.from /\ e.to = f.to /\ e.id = f.id
           /\ ~ EdgeBefore(f, e) => e.from <= f.from
<1> DEFINE a == e.from  b == e.to  c == e.id
           p == f.from  q == f.to  r == f.id
           u == g.from  v == g.to  w == g.id
<1>1. {a, b, c, p, q, r, u, v, w} \subseteq Nat
  OBVIOUS
<1> HIDE DEF a, b, c, p, q, r, u, v, w
<1>2. /\ EdgeBefore(e, f) <=> a < p \/ (a = p /\ (b < q \/ (b = q /\ c < r)))
      /\ EdgeBefore(f, e) <=> p < a \/ (p = a /\ (q < b \/ (q = b /\ r < c)))
      /\ EdgeBefore(e, g) <=> a < u \/ (a = u /\ (b < v \/ (b = v /\ c < w)))
      /\ EdgeBefore(g, f) <=> u < p \/ (u = p /\ (v < q \/ (v = q /\ w < r)))
  BY DEF EdgeBefore, a, b, c, p, q, r, u, v, w
<1>3. EdgeBefore(e, f) => ~ EdgeBefore(f, e)
  BY <1>1, <1>2
<1>4. EdgeBefore(e, f) => EdgeBefore(e, g) \/ EdgeBefore(g, f)
  BY <1>1, <1>2
<1>5. ~ EdgeBefore(f, e) => EdgeBefore(e, f) \/ (a = p /\ b = q /\ c = r)
  BY <1>1, <1>2
<1>6. ~ EdgeBefore(f, e) => a <= p
  BY <1>1, <1>2
<1> QED BY <1>3, <1>4, <1>5, <1>6 DEF a, b, c, p, q, r

\* Sorting edges puts them in order, and leaves them if they are.
LEMMA SortedEdges ==
    ASSUME NEW X, NEW s \in Seq(X), Directed(X)
    PROVE  LET t == Sorted(s, EdgeBefore)
           IN  /\ t \in Seq(X) /\ Rearranged(t, s)
               /\ \A i, j \in 1..Len(s) : i < j => ~ EdgeBefore(t[j], t[i])
               /\ (\A i, j \in 1..Len(s) : i < j => EdgeBefore(s[i], s[j])) => t = s
<1> DEFINE n == Len(s)
<1>91. PICK before : before = {pair \in (DOMAIN s) \X (DOMAIN s) : EdgeBefore(s[pair[1]], s[pair[2]])}
  OBVIOUS
<1>92. PICK t : t = Sorted(s, EdgeBefore)
  OBVIOUS
<1>1. n \in Nat /\ DOMAIN s = 1..n
  OBVIOUS
<1>2. \A i \in 1..n : s[i].from \in Nat /\ s[i].to \in Nat /\ s[i].id \in Nat
  BY <1>1 DEF Directed
<1>3. t = [i \in 1..n |-> s[Order(n, before)[i]]]
  <2>1. t = [i \in DOMAIN s |-> s[Order(n, before)[i]]]
    BY <1>91, <1>92 DEF Sorted
  <2> QED BY <1>1, <2>1, Zenon
<1>4. before \subseteq (1..n) \X (1..n)
  BY <1>91, <1>1
<1>5. \A i, j \in 1..n : <<i, j>> \in before <=> EdgeBefore(s[i], s[j])
  BY <1>91, <1>1
<1>6. WeakOrder(n, before)
  <2>1. \A i, j \in 1..n : <<i, j>> \in before => <<j, i>> \notin before
    <3> TAKE i, j \in 1..n
    <3>1. EdgeBefore(s[i], s[j]) => ~ EdgeBefore(s[j], s[i])
      BY <1>2, EdgeOrder
    <3> QED BY <1>5, <3>1
  <2>2. \A i, j, k \in 1..n : <<i, j>> \in before => <<i, k>> \in before \/ <<k, j>> \in before
    <3> TAKE i, j, k \in 1..n
    <3>1. EdgeBefore(s[i], s[j]) => EdgeBefore(s[i], s[k]) \/ EdgeBefore(s[k], s[j])
      BY <1>2, EdgeOrder
    <3> QED BY <1>5, <3>1
  <2> QED BY <1>4, <2>1, <2>2 DEF WeakOrder
<1>7. /\ t \in Seq(X) /\ Rearranged(t, s)
      /\ \A i, j \in 1..n : i < j =>
            \E a, b \in 1..n : t[i] = s[a] /\ t[j] = s[b] /\ <<b, a>> \notin before
      /\ (\A i, j \in 1..n : i < j => <<i, j>> \in before) => t = s
  <2>1. n = Len(s)
    OBVIOUS
  <2> HIDE DEF n
  <2>2. Order(n, before) \in Permutation(n)
    BY <1>1, <1>6, OrderIs
  <2> DEFINE p == Order(n, before)
  <2>3. t = [i \in 1..n |-> s[p[i]]]
    BY <1>3
  <2>4. t \in Seq(X) /\ Len(t) = n /\ \A i \in 1..n : t[i] = s[p[i]]
    <3> HIDE DEF p
    <3>1. p \in Permutation(n)
      BY <2>2 DEF p
    <3> QED BY <2>1, <2>3, <3>1, Reordered
  <2>5. p \in Permutation(n) /\ Sorts(p, n, before)
    BY <1>1, <1>6, OrderIs
  <2>6. (\A i, j \in 1..n : i < j => <<i, j>> \in before) => \A i \in 1..n : p[i] = i
    BY <1>1, <1>6, OrderIsIdentity
  <2> HIDE DEF p
  <2>7. p \in [1..n -> 1..n]
    BY <2>5 DEF Permutation
  <2>8. Rearranged(t, s)
    BY <2>1, <2>4, <2>5 DEF Rearranged
  <2>9. \A i, j \in 1..n : i < j =>
           \E a, b \in 1..n : t[i] = s[a] /\ t[j] = s[b] /\ <<b, a>> \notin before
    BY <2>4, <2>5, <2>7 DEF Sorts
  <2>10. ASSUME \A i, j \in 1..n : i < j => <<i, j>> \in before PROVE t = s
    <3>1. \A i \in 1..n : t[i] = s[i]
      BY <2>4, <2>6, <2>10
    <3> QED BY <2>1, <2>4, <3>1, SeqEqual
  <2> QED BY <2>4, <2>8, <2>9, <2>10
<1>8. \A i, j \in 1..n : i < j => ~ EdgeBefore(t[j], t[i])
  BY <1>5, <1>7
<1>9. (\A i, j \in 1..n : i < j => EdgeBefore(s[i], s[j])) => t = s
  BY <1>5, <1>7
<1> QED BY <1>92, <1>7, <1>8, <1>9, Zenon

Rises(t) == \A i, j \in 1..Len(t) : i < j => t[i] < t[j]

\* What rises from each element to the next rises between any two.
LEMMA IncreasingRises ==
    ASSUME NEW t \in Seq(Nat), StrictlyIncreasing(t)
    PROVE  Rises(t)
<1> DEFINE n == Len(t)
           K == {k \in Nat : \A i \in 1..n : i + (k + 1) \in 1..n => t[i] < t[i + (k + 1)]}
<1>1. n \in Nat /\ \A i \in 1..n : t[i] \in Nat
  OBVIOUS
<1>2. \A i \in 1..(n - 1) : t[i] < t[i + 1]
  BY DEF StrictlyIncreasing
<1> HIDE DEF n
<1>3. 0 \in K
  <2>1. \A i \in 1..n : i + 1 \in 1..n => i \in 1..(n - 1)
    BY <1>1
  <2> QED BY <1>2, <2>1
<1>4. ASSUME NEW k \in K PROVE k + 1 \in K
  <2>1. SUFFICES ASSUME NEW i \in 1..n, i + ((k + 1) + 1) \in 1..n
                 PROVE  t[i] < t[i + ((k + 1) + 1)]
    OBVIOUS
  <2> DEFINE j == i + (k + 1)
  <2>2. j \in 1..(n - 1) /\ j \in 1..n /\ j + 1 \in 1..n /\ j + 1 = i + ((k + 1) + 1)
    BY <1>1, <2>1
  <2>3. t[i] < t[j]
    BY <2>2
  <2> HIDE DEF j, K
  <2>4. t[j] < t[j + 1]
    BY <1>2, <2>2
  <2>5. t[i] \in Nat /\ t[j] \in Nat /\ t[j + 1] \in Nat
    BY <1>1, <2>2
  <2>6. t[i] < t[j + 1]
    BY <2>3, <2>4, <2>5
  <2> QED BY <2>2, <2>6
<1>5. K = Nat
  <2> HIDE DEF K
  <2>1. K \subseteq Nat
    BY DEF K
  <2> QED BY <1>3, <1>4, <2>1, NaturalSet
<1>6. ASSUME NEW i \in 1..n, NEW j \in 1..n, i < j PROVE t[i] < t[j]
  <2> DEFINE k == j - (i + 1)
  <2>1. k \in Nat /\ i + (k + 1) = j
    BY <1>1, <1>6
  <2> HIDE DEF k
  <2>2. k \in K
    BY <1>5, <2>1
  <2> QED BY <2>1, <2>2
<1> QED BY <1>6 DEF Rises, n

\* A list of selectors in order is left as it is.
LEMMA SortedNumbers ==
    ASSUME NEW s \in Seq(Nat), StrictlyIncreasing(s)
    PROVE  Sorted(s, LessThan) = s
<1> DEFINE n == Len(s)
<1>1. PICK before : before = {pair \in (DOMAIN s) \X (DOMAIN s) : LessThan(s[pair[1]], s[pair[2]])}
  OBVIOUS
<1>2. PICK t : t = Sorted(s, LessThan)
  OBVIOUS
<1>3. n \in Nat /\ DOMAIN s = 1..n /\ n = Len(s) /\ \A i \in 1..n : s[i] \in Nat
  OBVIOUS
<1>4. t = [i \in 1..n |-> s[Order(n, before)[i]]]
  <2>1. t = [i \in DOMAIN s |-> s[Order(n, before)[i]]]
    BY <1>1, <1>2 DEF Sorted
  <2> QED BY <1>3, <2>1, Zenon
<1>5. before \subseteq (1..n) \X (1..n)
  BY <1>1, <1>3
<1>6. \A i, j \in 1..n : <<i, j>> \in before <=> s[i] < s[j]
  BY <1>1, <1>3 DEF LessThan
<1>7. \A i, j \in 1..n : i < j => s[i] < s[j]
  BY IncreasingRises DEF Rises
<1> HIDE DEF n
<1>8. WeakOrder(n, before)
  <2>1. \A i, j \in 1..n : <<i, j>> \in before => <<j, i>> \notin before
    BY <1>3, <1>6
  <2>2. \A i, j, k \in 1..n : <<i, j>> \in before => <<i, k>> \in before \/ <<k, j>> \in before
    BY <1>3, <1>6
  <2> QED BY <1>5, <2>1, <2>2 DEF WeakOrder
<1>9. \A i, j \in 1..n : i < j => <<i, j>> \in before
  BY <1>6, <1>7
<1> DEFINE p == Order(n, before)
<1>10. p \in Permutation(n)
  BY <1>3, <1>8, OrderIs
<1>11. \A i \in 1..n : p[i] = i
  BY <1>3, <1>8, <1>9, OrderIsIdentity
<1>12. t = [i \in 1..n |-> s[p[i]]]
  BY <1>4
<1> HIDE DEF p
<1>13. t \in Seq(Nat) /\ Len(t) = n /\ \A i \in 1..n : t[i] = s[p[i]]
  <2>1. p \in [1..n -> 1..n]
    BY <1>10 DEF Permutation
  <2>2. \A i \in 1..n : s[p[i]] \in Nat
    BY <1>3, <2>1
  <2>3. t \in [1..n -> Nat] /\ \A i \in 1..n : t[i] = s[p[i]]
    BY <1>12, <2>2
  <2> QED BY <1>3, <2>3
<1>14. \A i \in 1..n : t[i] = s[i]
  BY <1>11, <1>13
<1>15. t = s
  BY <1>3, <1>13, <1>14, SeqEqual
<1> QED BY <1>2, <1>15

-----------------------------------------------------------------------------
(* Rearranged sequences                                                    *)

\* Each place of one is a place of the other.
Places(p, t, s) ==
    /\ p \in [1..Len(s) -> 1..Len(s)]
    /\ \A i \in 1..Len(s) : t[i] = s[p[i]]
    /\ \A i \in 1..Len(s) : \E j \in 1..Len(s) : p[j] = i
    /\ \A i, j \in 1..Len(s) : p[i] = p[j] => i = j

\* A rearrangement is given by a bijection of places.
LEMMA PlacesMap ==
    ASSUME NEW X, NEW s \in Seq(X), NEW t \in Seq(X), Rearranged(t, s)
    PROVE  \E p : Places(p, t, s)
<1>1. Len(s) \in Nat
  OBVIOUS
<1>2. PICK p \in Permutation(Len(s)) : \A i \in 1..Len(s) : t[i] = s[p[i]]
  BY DEF Rearranged
<1>3. /\ p \in [1..Len(s) -> 1..Len(s)]
      /\ \A i \in 1..Len(s) : \E j \in 1..Len(s) : p[j] = i
  BY DEF Permutation
<1>4. \A i, j \in 1..Len(s) : p[i] = p[j] => i = j
  BY <1>1, PermutationInjective
<1> QED BY <1>2, <1>3, <1>4 DEF Places

\* A rearrangement has the same elements.
LEMMA RearrangedRange ==
    ASSUME NEW X, NEW s \in Seq(X), NEW t \in Seq(X), Rearranged(t, s)
    PROVE  Range(t) = Range(s)
<1>1. DOMAIN s = 1..Len(s) /\ DOMAIN t = 1..Len(s)
  BY DEF Rearranged
<1>5. PICK p : Places(p, t, s)
  BY PlacesMap
<1>2. /\ p \in [1..Len(s) -> 1..Len(s)]
      /\ \A i \in 1..Len(s) : t[i] = s[p[i]]
      /\ \A i \in 1..Len(s) : \E j \in 1..Len(s) : p[j] = i
  BY <1>5 DEF Places
<1>3. \A i \in DOMAIN t : t[i] \in Range(s)
  BY <1>1, <1>2 DEF Range
<1>4. \A i \in DOMAIN s : s[i] \in Range(t)
  <2> TAKE i \in DOMAIN s
  <2>1. PICK j \in 1..Len(s) : p[j] = i
    BY <1>1, <1>2
  <2>2. t[j] = s[i]
    BY <1>2, <2>1
  <2> QED BY <1>1, <2>2 DEF Range
<1> QED BY <1>3, <1>4 DEF Range

\* A rearrangement gives an identity twice exactly if the list did.
LEMMA RearrangedDistinct ==
    ASSUME NEW X, NEW s \in Seq(X), NEW t \in Seq(X), Rearranged(t, s)
    PROVE  DistinctIds(t) <=> DistinctIds(s)
<1> DEFINE n == Len(s)
<1>1. DOMAIN s = 1..n /\ DOMAIN t = 1..n
  BY DEF Rearranged
<1>5. PICK p : Places(p, t, s)
  BY PlacesMap
<1>2. /\ p \in [1..n -> 1..n]
      /\ \A i \in 1..n : t[i] = s[p[i]]
      /\ \A i \in 1..n : \E j \in 1..n : p[j] = i
      /\ \A i, j \in 1..n : p[i] = p[j] => i = j
  BY <1>5 DEF Places
<1> HIDE DEF n
<1>3. ASSUME DistinctIds(s) PROVE DistinctIds(t)
  <2> SUFFICES ASSUME NEW i \in 1..n, NEW j \in 1..n, i # j PROVE t[i].id # t[j].id
    BY <1>1 DEF DistinctIds
  <2>1. p[i] \in 1..n /\ p[j] \in 1..n /\ p[i] # p[j]
    BY <1>2
  <2>2. s[p[i]].id # s[p[j]].id
    BY <1>1, <1>3, <2>1 DEF DistinctIds
  <2> QED BY <1>2, <2>2
<1>4. ASSUME DistinctIds(t) PROVE DistinctIds(s)
  <2> SUFFICES ASSUME NEW i \in 1..n, NEW j \in 1..n, i # j PROVE s[i].id # s[j].id
    BY <1>1 DEF DistinctIds
  <2>1. PICK a \in 1..n : p[a] = i
    BY <1>2
  <2>2. PICK b \in 1..n : p[b] = j
    BY <1>2
  <2>3. t[a].id # t[b].id
    BY <1>1, <1>4, <2>1, <2>2 DEF DistinctIds
  <2> QED BY <1>2, <2>1, <2>2, <2>3
<1> QED BY <1>3, <1>4

-----------------------------------------------------------------------------
(* Records in the order of their identities                                *)

NonFalling(t) == \A i, j \in 1..Len(t) : i < j => t[i].id <= t[j].id
IdsRise(t) == \A i, j \in 1..Len(t) : i < j => t[i].id < t[j].id

\* Neighbours that differ are enough: what lies between two records of one
\* identity would have that identity too.
LEMMA NeighboursRise ==
    ASSUME NEW X, NEW t \in Seq(X), Identified(X), NonFalling(t), NoNeighboursShareId(t)
    PROVE  IdsRise(t)
<1> DEFINE n == Len(t)
<1>1. n \in Nat /\ \A i \in 1..n : t[i].id \in Nat
  BY DEF Identified
<1>2. \A i, j \in 1..n : i < j => t[i].id <= t[j].id
  BY DEF NonFalling
<1>3. \A i \in 1..(n - 1) : t[i].id # t[i + 1].id
  BY DEF NoNeighboursShareId
<1> HIDE DEF n
<1>4. SUFFICES ASSUME NEW i \in 1..n, NEW j \in 1..n, i < j PROVE t[i].id < t[j].id
  BY DEF IdsRise, n
<1>5. i \in 1..(n - 1) /\ i + 1 \in 1..n /\ i < i + 1 /\ (i + 1 < j \/ i + 1 = j)
  BY <1>1, <1>4
<1>6. t[i].id <= t[i + 1].id /\ t[i].id # t[i + 1].id
  BY <1>2, <1>3, <1>5
<1>7. t[i + 1].id <= t[j].id
  BY <1>1, <1>2, <1>5
<1> QED BY <1>1, <1>5, <1>6, <1>7

\* Identities that rise are distinct.
LEMMA RisingIsDistinct ==
    ASSUME NEW X, NEW t \in Seq(X), Identified(X), IdsRise(t)
    PROVE  DistinctIds(t) /\ NoNeighboursShareId(t)
<1> DEFINE n == Len(t)
<1>1. n \in Nat /\ DOMAIN t = 1..n /\ \A i \in 1..n : t[i].id \in Nat
  BY DEF Identified
<1>2. \A i, j \in 1..n : i < j => t[i].id < t[j].id
  BY DEF IdsRise
<1>3. NoNeighboursShareId(t)
  <2> SUFFICES ASSUME NEW i \in 1..(n - 1) PROVE t[i].id # t[i + 1].id
    BY DEF NoNeighboursShareId
  <2> HIDE DEF n
  <2>1. i \in 1..n /\ i + 1 \in 1..n /\ i < i + 1
    BY <1>1
  <2> QED BY <1>1, <1>2, <2>1
<1>4. DistinctIds(t)
  <2> SUFFICES ASSUME NEW i \in 1..n, NEW j \in 1..n, i # j PROVE t[i].id # t[j].id
    BY <1>1 DEF DistinctIds
  <2> HIDE DEF n
  <2>1. i < j \/ j < i
    BY <1>1
  <2> QED BY <1>1, <1>2, <2>1
<1> QED BY <1>3, <1>4

\* Looking at neighbours finds every identity given twice.
LEMMA DuplicatesAreSeen ==
    ASSUME NEW X, NEW s \in Seq(X), Identified(X), NEW t, t = Sorted(s, IdBefore)
    PROVE  /\ t \in Seq(X) /\ Rearranged(t, s) /\ NonFalling(t)
           /\ NoNeighboursShareId(t) <=> DistinctIds(s)
           /\ NoNeighboursShareId(t) => IdsRise(t)
<1>1. /\ t \in Seq(X) /\ Rearranged(t, s)
      /\ \A i, j \in 1..Len(s) : i < j => t[i].id <= t[j].id
  BY SortedById
<1>2. NonFalling(t)
  BY <1>1 DEF NonFalling, Rearranged
<1>3. NoNeighboursShareId(t) => IdsRise(t)
  BY <1>1, <1>2, NeighboursRise
<1>4. DistinctIds(t) <=> DistinctIds(s)
  BY <1>1, RearrangedDistinct
<1>5. NoNeighboursShareId(t) => DistinctIds(t)
  BY <1>1, <1>3, RisingIsDistinct
<1>6. DistinctIds(t) => NoNeighboursShareId(t)
  <2> SUFFICES ASSUME DistinctIds(t), NEW i \in 1..(Len(t) - 1) PROVE t[i].id # t[i + 1].id
    BY DEF NoNeighboursShareId
  <2>1. i \in DOMAIN t /\ i + 1 \in DOMAIN t /\ i # i + 1
    BY <1>1
  <2> QED BY <2>1 DEF DistinctIds
<1> QED BY <1>1, <1>2, <1>3, <1>4, <1>5, <1>6

\* Records in order stay as they are.
LEMMA SortedStays ==
    ASSUME NEW X, NEW s \in Seq(X), Identified(X), IdsRise(s)
    PROVE  Sorted(s, IdBefore) = s
BY SortedById DEF IdsRise

\* The first place that is not before an identity.
LEMMA LowerBoundIs ==
    ASSUME NEW X, NEW t \in Seq(X), Identified(X), NonFalling(t), NEW id \in Nat
    PROVE  /\ LowerBound(t, id) \in 1..(Len(t) + 1)
           /\ \A i \in 1..Len(t) : i < LowerBound(t, id) <=> t[i].id < id
<1> DEFINE n == Len(t)
           K == {k \in 1..(n + 1) : k = n + 1 \/ ~ (t[k].id < id)}
           S == {i \in DOMAIN t : t[i].id < id}
<1>1. n \in Nat /\ DOMAIN t = 1..n /\ \A i \in 1..n : t[i].id \in Nat
  BY DEF Identified
<1>2. \A i, j \in 1..n : i < j => t[i].id <= t[j].id
  BY DEF NonFalling
<1>3. LowerBound(t, id) = Cardinality(S) + 1
  BY DEF LowerBound
<1>4. S = {i \in 1..n : t[i].id < id}
  BY <1>1
<1> HIDE DEF n, S
<1>5. K \subseteq Nat /\ n + 1 \in K
  BY <1>1
<1>6. PICK k \in K : \A j \in K : k <= j
  <2> HIDE DEF K
  <2> QED BY <1>5, LeastNatural
<1>7. k \in 1..(n + 1)
  OBVIOUS
<1>8. \A i \in 1..n : i < k <=> t[i].id < id
  <2> TAKE i \in 1..n
  <2>1. ASSUME i < k PROVE t[i].id < id
    <3>1. i \notin K
      BY <1>1, <1>6, <1>7, <2>1
    <3> QED BY <1>1, <3>1
  <2>2. ASSUME ~ i < k PROVE ~ t[i].id < id
    <3>1. k \in 1..n /\ (k = i \/ k < i)
      BY <1>1, <1>7, <2>2
    <3>2. ~ t[k].id < id
      BY <1>1, <1>6, <3>1
    <3>3. t[k].id <= t[i].id
      BY <1>1, <1>2, <3>1
    <3> QED BY <1>1, <3>1, <3>2, <3>3
  <2> QED BY <2>1, <2>2
<1> HIDE DEF K
<1>9. S = 1..(k - 1)
  BY <1>1, <1>4, <1>7, <1>8
<1>10. Cardinality(S) = k - 1
  BY <1>1, <1>7, <1>9, FS_Interval
<1>11. LowerBound(t, id) = k
  BY <1>1, <1>3, <1>7, <1>10
<1> QED BY <1>7, <1>8, <1>11 DEF n

\* The search finds the one record of an identity, or there is none.
LEMMA FindIs ==
    ASSUME NEW X, NEW t \in Seq(X), Identified(X), IdsRise(t), NEW id \in Nat
    PROVE  /\ \A i \in 1..Len(t) : t[i].id = id => Find(t, id) = i /\ LowerBound(t, id) = i
           /\ Find(t, id) # 0 => Find(t, id) \in 1..Len(t) /\ t[Find(t, id)].id = id
<1> DEFINE n == Len(t)
           k == LowerBound(t, id)
<1>1. n \in Nat /\ \A i \in 1..n : t[i].id \in Nat
  BY DEF Identified
<1>2. NonFalling(t)
  <2> SUFFICES ASSUME NEW i \in 1..n, NEW j \in 1..n, i < j PROVE t[i].id <= t[j].id
    BY DEF NonFalling
  <2>1. t[i].id < t[j].id
    BY DEF IdsRise
  <2> QED BY <1>1, <2>1
<1>3. k \in 1..(n + 1) /\ \A i \in 1..n : i < k <=> t[i].id < id
  BY <1>2, LowerBoundIs
<1>4. Find(t, id) = IF k <= n /\ t[k].id = id THEN k ELSE 0
  BY DEF Find
<1>5. \A i, j \in 1..n : i < j => t[i].id < t[j].id
  BY DEF IdsRise
<1> HIDE DEF n, k
<1>6. ASSUME NEW i \in 1..n, t[i].id = id PROVE k = i
  <2>1. ~ i < k
    BY <1>1, <1>3, <1>6
  <2>2. ~ k < i
    <3> SUFFICES ASSUME k < i PROVE FALSE
      OBVIOUS
    <3>1. k \in 1..n
      BY <1>1, <1>3
    <3>2. t[k].id < id
      BY <1>5, <1>6, <3>1
    <3>3. k < k
      BY <1>3, <3>1, <3>2
    <3> QED BY <1>3, <3>3
  <2> QED BY <1>1, <1>3, <2>1, <2>2
<1>7. ASSUME NEW i \in 1..n, t[i].id = id PROVE Find(t, id) = i
  BY <1>1, <1>4, <1>6, <1>7
<1>8. Find(t, id) # 0 => Find(t, id) \in 1..n /\ t[Find(t, id)].id = id
  BY <1>1, <1>3, <1>4
<1> QED BY <1>6, <1>7, <1>8 DEF n, k

-----------------------------------------------------------------------------
(* Edges in canonical order                                                *)

EdgesInOrder(t) == \A i, j \in 1..Len(t) : i < j => ~ EdgeBefore(t[j], t[i])
EdgesRise(t) == \A i, j \in 1..Len(t) : i < j => EdgeBefore(t[i], t[j])

\* Of two edges in order with different identities the first is before the second.
LEMMA EdgePair ==
    ASSUME NEW X, NEW t \in Seq(X), Directed(X), EdgesInOrder(t),
           NEW i \in 1..Len(t), NEW j \in 1..Len(t), i < j, t[i].id # t[j].id
    PROVE  EdgeBefore(t[i], t[j])
<1>1. t[i] \in X /\ t[j] \in X
  OBVIOUS
<1>2. ~ EdgeBefore(t[j], t[i])
  BY DEF EdgesInOrder
<1> DEFINE e == t[i]  f == t[j]
<1>3. \A x \in {e, f} : x.from \in Nat /\ x.to \in Nat /\ x.id \in Nat
  BY <1>1 DEF Directed
<1>4. e.id # f.id /\ ~ EdgeBefore(f, e)
  BY <1>2
<1> HIDE DEF e, f
<1>5. EdgeBefore(e, f)
  BY <1>3, <1>4, EdgeOrder
<1> QED BY <1>5 DEF e, f

\* Edges in order of which no neighbours share an identity rise strictly.
LEMMA EdgesInOrderRise ==
    ASSUME NEW X, NEW t \in Seq(X), Directed(X), EdgesInOrder(t), NoNeighboursShareId(t)
    PROVE  EdgesRise(t)
<1> SUFFICES ASSUME NEW i \in 1..Len(t), NEW j \in 1..Len(t), i < j
             PROVE  EdgeBefore(t[i], t[j])
  BY DEF EdgesRise
<1>1. i \in 1..(Len(t) - 1) /\ i + 1 \in 1..Len(t) /\ i < i + 1
  OBVIOUS
<1>2. t[i].id # t[i + 1].id
  BY <1>1 DEF NoNeighboursShareId
<1>3. EdgeBefore(t[i], t[i + 1])
  BY <1>1, <1>2, EdgePair
<1>4. CASE i + 1 = j
  BY <1>3, <1>4
<1>5. CASE i + 1 < j
  <2>1. ~ EdgeBefore(t[j], t[i + 1])
    BY <1>1, <1>5 DEF EdgesInOrder
  <2>2. t[i] \in X /\ t[j] \in X /\ t[i + 1] \in X
    BY <1>1
  <2> DEFINE e == t[i]  f == t[i + 1]  g == t[j]
  <2>3. \A x \in {e, f, g} : x.from \in Nat /\ x.to \in Nat /\ x.id \in Nat
    BY <2>2 DEF Directed
  <2>4. EdgeBefore(e, f) /\ ~ EdgeBefore(g, f)
    BY <1>3, <2>1
  <2> HIDE DEF e, f, g
  <2>5. EdgeBefore(e, g)
    BY <2>3, <2>4, EdgeOrder
  <2> QED BY <2>5 DEF e, g
<1> QED BY <1>1, <1>4, <1>5

\* Edges that rise are in order.
LEMMA RisingEdgesInOrder ==
    ASSUME NEW X, NEW t \in Seq(X), Directed(X), EdgesRise(t)
    PROVE  EdgesInOrder(t)
<1> SUFFICES ASSUME NEW i \in 1..Len(t), NEW j \in 1..Len(t), i < j
             PROVE  ~ EdgeBefore(t[j], t[i])
  BY DEF EdgesInOrder
<1>1. EdgeBefore(t[i], t[j]) /\ t[i] \in X /\ t[j] \in X
  BY DEF EdgesRise
<1> DEFINE e == t[i]  f == t[j]
<1>2. \A x \in {e, f} : x.from \in Nat /\ x.to \in Nat /\ x.id \in Nat
  BY <1>1 DEF Directed
<1>3. EdgeBefore(e, f)
  BY <1>1
<1> HIDE DEF e, f
<1>4. ~ EdgeBefore(f, e)
  BY <1>2, <1>3, EdgeOrder
<1> QED BY <1>4 DEF e, f

\* An edge that comes strictly before another has the smaller place.
LEMMA PlaceBefore ==
    ASSUME NEW X, NEW t \in Seq(X), Directed(X), EdgesInOrder(t),
           NEW i \in 1..Len(t), NEW j \in 1..Len(t), EdgeBefore(t[i], t[j])
    PROVE  i < j
<1>1. t[i] \in X
  OBVIOUS
<1>2. ~ EdgeBefore(t[i], t[i])
  <2> DEFINE e == t[i]
  <2>1. \A x \in {e} : x.from \in Nat /\ x.to \in Nat /\ x.id \in Nat
    BY <1>1 DEF Directed
  <2> HIDE DEF e
  <2>2. ~ EdgeBefore(e, e)
    BY <2>1, EdgeOrder
  <2> QED BY <2>2 DEF e
<1>3. i # j
  BY <1>2
<1>4. ~ j < i
  BY DEF EdgesInOrder
<1> QED BY <1>3, <1>4

\* Two edges of one identity are told apart only by an edge between them.
EdgesAreApart(s) ==
    \A i, j \in DOMAIN s : i # j /\ s[i].id = s[j].id =>
        \E k \in DOMAIN s : \/ EdgeBefore(s[i], s[k]) /\ EdgeBefore(s[k], s[j])
                            \/ EdgeBefore(s[j], s[k]) /\ EdgeBefore(s[k], s[i])

\* What build accepts.
Acceptable(b) ==
    /\ DistinctIds(b.resources) /\ DistinctIds(b.selectors) /\ EdgesAreApart(b.edges)
    /\ Declared(b)

\* In order, comparing neighbours finds exactly the edges of one identity
\* that have no edge between them.
LEMMA ApartInOrder ==
    ASSUME NEW X, NEW t \in Seq(X), Directed(X), EdgesInOrder(t)
    PROVE  NoNeighboursShareId(t) <=> EdgesAreApart(t)
<1>1. DOMAIN t = 1..Len(t) /\ Len(t) \in Nat
  OBVIOUS
<1>2. ASSUME NoNeighboursShareId(t), NEW i \in 1..Len(t), NEW j \in 1..Len(t),
             i < j, t[i].id = t[j].id
      PROVE  \E k \in DOMAIN t : EdgeBefore(t[i], t[k]) /\ EdgeBefore(t[k], t[j])
  <2>1. i \in 1..(Len(t) - 1) /\ i + 1 \in 1..Len(t) /\ i < i + 1
    BY <1>1, <1>2
  <2>2. t[i].id # t[i + 1].id
    BY <1>2, <2>1 DEF NoNeighboursShareId
  <2>3. EdgeBefore(t[i], t[i + 1])
    BY <2>1, <2>2, EdgePair
  <2>4. i + 1 # j /\ t[i + 1].id # t[j].id
    BY <1>2, <2>2
  <2>5. i + 1 < j
    BY <1>1, <1>2, <2>4
  <2>6. EdgeBefore(t[i + 1], t[j])
    BY <2>1, <2>4, <2>5, EdgePair
  <2> QED BY <1>1, <2>1, <2>3, <2>6
<1>3. ASSUME NoNeighboursShareId(t) PROVE EdgesAreApart(t)
  <2> SUFFICES ASSUME NEW i \in 1..Len(t), NEW j \in 1..Len(t), i # j, t[i].id = t[j].id
               PROVE  \E k \in DOMAIN t :
                         \/ EdgeBefore(t[i], t[k]) /\ EdgeBefore(t[k], t[j])
                         \/ EdgeBefore(t[j], t[k]) /\ EdgeBefore(t[k], t[i])
    BY <1>1 DEF EdgesAreApart
  <2>1. CASE i < j
    BY <1>2, <1>3, <2>1
  <2>2. CASE j < i
    <3>1. \E k \in DOMAIN t : EdgeBefore(t[j], t[k]) /\ EdgeBefore(t[k], t[i])
      BY <1>2, <1>3, <2>2
    <3> QED BY <3>1
  <2> QED BY <1>1, <2>1, <2>2
<1>4. ASSUME EdgesAreApart(t) PROVE NoNeighboursShareId(t)
  <2> SUFFICES ASSUME NEW i \in 1..(Len(t) - 1), t[i].id = t[i + 1].id PROVE FALSE
    BY DEF NoNeighboursShareId
  <2>1. i \in DOMAIN t /\ i + 1 \in DOMAIN t /\ i # i + 1
    BY <1>1
  <2>2. PICK k \in DOMAIN t : \/ EdgeBefore(t[i], t[k]) /\ EdgeBefore(t[k], t[i + 1])
                              \/ EdgeBefore(t[i + 1], t[k]) /\ EdgeBefore(t[k], t[i])
    BY <1>4, <2>1 DEF EdgesAreApart
  <2>3. i \in 1..Len(t) /\ i + 1 \in 1..Len(t) /\ k \in 1..Len(t)
    BY <1>1, <2>1
  <2>4. EdgeBefore(t[i], t[k]) => i < k
    BY <2>3, PlaceBefore
  <2>5. EdgeBefore(t[k], t[i + 1]) => k < i + 1
    BY <2>3, PlaceBefore
  <2>6. EdgeBefore(t[i + 1], t[k]) => i + 1 < k
    BY <2>3, PlaceBefore
  <2>7. EdgeBefore(t[k], t[i]) => k < i
    BY <2>3, PlaceBefore
  <2> QED BY <2>2, <2>3, <2>4, <2>5, <2>6, <2>7
<1> QED BY <1>3, <1>4

\* Whether edges are apart does not depend on how they are listed.
LEMMA RearrangedApart ==
    ASSUME NEW X, NEW s \in Seq(X), NEW t \in Seq(X), Rearranged(t, s)
    PROVE  EdgesAreApart(t) <=> EdgesAreApart(s)
<1> DEFINE n == Len(s)
           Between(u, i, j, k) ==
               \/ EdgeBefore(u[i], u[k]) /\ EdgeBefore(u[k], u[j])
               \/ EdgeBefore(u[j], u[k]) /\ EdgeBefore(u[k], u[i])
<1>1. DOMAIN s = 1..n /\ DOMAIN t = 1..n
  BY DEF Rearranged
<1>2. PICK p : Places(p, t, s)
  BY PlacesMap
<1>3. /\ p \in [1..n -> 1..n]
      /\ \A i \in 1..n : t[i] = s[p[i]]
      /\ \A i \in 1..n : \E j \in 1..n : p[j] = i
      /\ \A i, j \in 1..n : p[i] = p[j] => i = j
  BY <1>2 DEF Places
<1>4. \A i, j, k \in 1..n : Between(t, i, j, k) <=> Between(s, p[i], p[j], p[k])
  BY <1>3
<1>5. \A u : DOMAIN u = 1..n =>
         (EdgesAreApart(u) <=> \A i, j \in 1..n : i # j /\ u[i].id = u[j].id =>
                                   \E k \in 1..n : Between(u, i, j, k))
  BY DEF EdgesAreApart
<1> HIDE DEF n, Between
<1>6. ASSUME EdgesAreApart(s) PROVE EdgesAreApart(t)
  <2> SUFFICES ASSUME NEW i \in 1..n, NEW j \in 1..n, i # j, t[i].id = t[j].id
               PROVE  \E k \in 1..n : Between(t, i, j, k)
    BY <1>1, <1>5
  <2>1. p[i] \in 1..n /\ p[j] \in 1..n /\ p[i] # p[j] /\ s[p[i]].id = s[p[j]].id
    BY <1>3
  <2>2. PICK l \in 1..n : Between(s, p[i], p[j], l)
    BY <1>1, <1>5, <1>6, <2>1
  <2>3. PICK k \in 1..n : p[k] = l
    BY <1>3
  <2> QED BY <1>4, <2>2, <2>3
<1>7. ASSUME EdgesAreApart(t) PROVE EdgesAreApart(s)
  <2> SUFFICES ASSUME NEW i \in 1..n, NEW j \in 1..n, i # j, s[i].id = s[j].id
               PROVE  \E k \in 1..n : Between(s, i, j, k)
    BY <1>1, <1>5
  <2>1. PICK a \in 1..n : p[a] = i
    BY <1>3
  <2>2. PICK b \in 1..n : p[b] = j
    BY <1>3
  <2>3. a # b /\ t[a].id = t[b].id
    BY <1>3, <2>1, <2>2
  <2>4. PICK k \in 1..n : Between(t, a, b, k)
    BY <1>1, <1>5, <1>7, <2>3
  <2>5. p[k] \in 1..n /\ Between(s, i, j, p[k])
    BY <1>3, <1>4, <2>1, <2>2, <2>4
  <2> QED BY <2>5
<1> QED BY <1>6, <1>7

\* Comparing neighbours after the sort accepts exactly the edges that are apart.
LEMMA EdgesSorted ==
    ASSUME NEW X, NEW s \in Seq(X), Directed(X), NEW t, t = Sorted(s, EdgeBefore)
    PROVE  /\ t \in Seq(X) /\ Rearranged(t, s) /\ EdgesInOrder(t)
           /\ NoNeighboursShareId(t) <=> EdgesAreApart(s)
           /\ NoNeighboursShareId(t) => EdgesRise(t)
<1>1. /\ t \in Seq(X) /\ Rearranged(t, s)
      /\ \A i, j \in 1..Len(s) : i < j => ~ EdgeBefore(t[j], t[i])
  BY SortedEdges
<1>2. EdgesInOrder(t)
  BY <1>1 DEF EdgesInOrder, Rearranged
<1>3. NoNeighboursShareId(t) => EdgesRise(t)
  BY <1>1, <1>2, EdgesInOrderRise
<1>4. NoNeighboursShareId(t) <=> EdgesAreApart(t)
  BY <1>1, <1>2, ApartInOrder
<1>5. EdgesAreApart(t) <=> EdgesAreApart(s)
  BY <1>1, RearrangedApart
<1> QED BY <1>1, <1>2, <1>3, <1>4, <1>5

\* Edges in order stay as they are.
LEMMA EdgesStay ==
    ASSUME NEW X, NEW s \in Seq(X), Directed(X), EdgesRise(s)
    PROVE  Sorted(s, EdgeBefore) = s
BY SortedEdges DEF EdgesRise

-----------------------------------------------------------------------------
(* Counting                                                                *)

\* The elements of two disjoint sets add up.
LEMMA DisjointSum ==
    ASSUME NEW S, NEW T, NEW U, IsFiniteSet(U), U = S \cup T, S \cap T = {}
    PROVE  /\ Cardinality(U) = Cardinality(S) + Cardinality(T)
           /\ Cardinality(S) \in Nat /\ Cardinality(T) \in Nat
<1>1. S \in SUBSET U /\ T \in SUBSET U
  OBVIOUS
<1>2. IsFiniteSet(S) /\ IsFiniteSet(T)
  BY <1>1, FS_Subset
<1>3. Cardinality(S) \in Nat /\ Cardinality(T) \in Nat
  BY <1>2, FS_CardinalityType
<1>4. Cardinality(S \cup T) = Cardinality(S) + Cardinality(T) - Cardinality({})
  <2>1. Cardinality(S \cup T)
           = Cardinality(S) + Cardinality(T) - Cardinality(S \cap T)
    BY <1>2, FS_Union
  <2> QED BY <2>1, Zenon
<1>5. Cardinality({}) = 0
  BY FS_EmptySet
<1>6. Cardinality(U) = Cardinality(S \cup T)
  BY Zenon
<1> QED BY <1>3, <1>4, <1>5, <1>6

\* What has no gap from the first is known by how many there are.
LEMMA DownSet ==
    ASSUME NEW m \in Nat, NEW S, S \subseteq 1..m,
           \A i \in S : \A j \in 1..m : j < i => j \in S
    PROVE  S = 1..Cardinality(S) /\ Cardinality(S) \in 0..m
<1> DEFINE K == {k \in 1..(m + 1) : k \notin S}
<1>1. K \subseteq Nat /\ m + 1 \in K
  OBVIOUS
<1>2. PICK k \in K : \A j \in K : k <= j
  <2> HIDE DEF K
  <2> QED BY <1>1, LeastNatural
<1>3. k \in 1..(m + 1) /\ k \notin S
  OBVIOUS
<1>4. \A i \in 1..m : i < k => i \in S
  BY <1>2, <1>3
<1>5. \A i \in S : i < k
  BY <1>3
<1> HIDE DEF K
<1>6. S = 1..(k - 1)
  <2>1. \A i \in 1..(k - 1) : i \in 1..m /\ i < k
    BY <1>3
  <2>2. \A i \in S : i \in 1..m /\ i \in 1..(k - 1)
    BY <1>3, <1>5
  <2>3. 1..(k - 1) \subseteq S /\ S \subseteq 1..(k - 1)
    BY <1>4, <2>1, <2>2
  <2> QED BY <2>3, Zenon
<1>7. Cardinality(S) = k - 1
  BY <1>3, <1>6, FS_Interval
<1> QED BY <1>3, <1>6, <1>7

-----------------------------------------------------------------------------
(* Edges by their source                                                   *)

UpTo(A, m, i) == {e \in 1..m : A[e] <= i}
At(A, m, i) == {e \in 1..m : A[e] = i}

\* How many edges leave up to a resource, from one resource to the next.
LEMMA CountUpTo ==
    ASSUME NEW m \in Nat, NEW A \in [1..m -> Nat], NEW i \in Nat
    PROVE  /\ Cardinality(UpTo(A, m, i + 1))
                 = Cardinality(UpTo(A, m, i)) + Cardinality(At(A, m, i + 1))
           /\ Cardinality(UpTo(A, m, i)) \in Nat /\ Cardinality(At(A, m, i + 1)) \in Nat
<1> DEFINE S == UpTo(A, m, i)
           T == At(A, m, i + 1)
           U == UpTo(A, m, i + 1)
<1>1. \A e \in 1..m : A[e] \in Nat
  OBVIOUS
<1>2. U = S \cup T /\ S \cap T = {}
  BY <1>1 DEF UpTo, At
<1>3. IsFiniteSet(U)
  <2>1. U \in SUBSET (1..m) /\ IsFiniteSet(1..m)
    BY FS_Interval DEF UpTo
  <2> QED BY <2>1, FS_Subset
<1> HIDE DEF S, T, U
<1>4. /\ Cardinality(U) = Cardinality(S) + Cardinality(T)
      /\ Cardinality(S) \in Nat /\ Cardinality(T) \in Nat
  BY <1>2, <1>3, DisjointSum
<1> QED BY <1>4 DEF S, T, U

\* How many edges leave a resource, from one edge to the next.
LEMMA CountNext ==
    ASSUME NEW m \in Nat, NEW A, NEW i
    PROVE  /\ Cardinality(At(A, m + 1, i))
                 = Cardinality(At(A, m, i)) + (IF A[m + 1] = i THEN 1 ELSE 0)
           /\ Cardinality(At(A, m, i)) \in Nat
<1>1. At(A, m, i) \in SUBSET (1..m) /\ IsFiniteSet(1..m)
  <2>1. IsFiniteSet(1..m)
    BY FS_Interval
  <2>2. At(A, m, i) \in SUBSET (1..m)
    BY DEF At
  <2> QED BY <2>1, <2>2
<1>2. IsFiniteSet(At(A, m, i))
  BY <1>1, FS_Subset
<1>3. Cardinality(At(A, m, i)) \in Nat
  BY <1>2, FS_CardinalityType
<1>4. CASE A[m + 1] = i
  <2>1. At(A, m + 1, i) = At(A, m, i) \cup {m + 1} /\ m + 1 \notin At(A, m, i)
    BY <1>4 DEF At
  <2> QED BY <1>2, <1>3, <1>4, <2>1, FS_AddElement
<1>5. CASE A[m + 1] # i
  <2>1. At(A, m + 1, i) = At(A, m, i)
    BY <1>5 DEF At
  <2> QED BY <1>3, <1>5, <2>1
<1> QED BY <1>4, <1>5

Monotone(A, m) == \A e, f \in 1..m : e < f => A[e] <= A[f]

\* In order, the edges of a source come after those of all sources before it.
LEMMA UpToIsPrefix ==
    ASSUME NEW m \in Nat, NEW A \in [1..m -> Nat], Monotone(A, m), NEW i \in Nat
    PROVE  /\ UpTo(A, m, i) = 1..Cardinality(UpTo(A, m, i))
           /\ Cardinality(UpTo(A, m, i)) \in 0..m
<1> DEFINE S == UpTo(A, m, i)
<1>1. S \subseteq 1..m
  BY DEF UpTo
<1>2. \A e \in S : \A f \in 1..m : f < e => f \in S
  BY DEF UpTo, Monotone
<1> HIDE DEF S
<1>3. S = 1..Cardinality(S) /\ Cardinality(S) \in 0..m
  BY <1>1, <1>2, DownSet
<1> QED BY <1>3 DEF S

\* In order, the edges placed before one are all the edges before it.
LEMMA CountPlaced ==
    ASSUME NEW m \in Nat, NEW A \in [1..m -> Nat \ {0}], Monotone(A, m),
           NEW e \in Nat, e + 1 \in 1..m
    PROVE  Cardinality(UpTo(A, m, A[e + 1] - 1)) + Cardinality(At(A, e, A[e + 1])) = e
<1> DEFINE a == A[e + 1]
           S == UpTo(A, m, a - 1)
           T == At(A, e, a)
<1>1. a \in Nat \ {0} /\ \A f \in 1..m : A[f] \in Nat
  OBVIOUS
<1>2. \A f \in 1..e : f \in 1..m /\ A[f] <= a
  BY DEF Monotone
<1>3. \A f \in 1..m : ~ f \in 1..e => a <= A[f]
  BY DEF Monotone
<1>4. A[e + 1] = a
  OBVIOUS
<1> HIDE DEF a
<1>5. S \cup T = 1..e /\ S \cap T = {}
  BY <1>1, <1>2, <1>3 DEF UpTo, At
<1> HIDE DEF S, T
<1>6. IsFiniteSet(1..e) /\ Cardinality(1..e) = e
  BY FS_Interval
<1>7. Cardinality(1..e) = Cardinality(S) + Cardinality(T)
  BY <1>5, <1>6, DisjointSum
<1> QED BY <1>6, <1>7 DEF S, T, a

\* Records that rise, edges that rise, and each edge leaves a record.
Linked(R, E) ==
    /\ IdsRise(R) /\ EdgesRise(E)
    /\ \A e \in 1..Len(E) : \E i \in 1..Len(R) : R[i].id = E[e].from

\* What rises does not fall.
LEMMA RisingIsNonFalling ==
    ASSUME NEW X, NEW t \in Seq(X), Identified(X), IdsRise(t)
    PROVE  NonFalling(t)
<1> DEFINE n == Len(t)
<1>1. n \in Nat /\ \A i \in 1..n : t[i].id \in Nat
  BY DEF Identified
<1> SUFFICES ASSUME NEW i \in 1..n, NEW j \in 1..n, i < j PROVE t[i].id <= t[j].id
  BY DEF NonFalling
<1>2. t[i].id < t[j].id
  BY DEF IdsRise
<1> QED BY <1>1, <1>2

\* Where the source of each edge is.
Sources(R, E) == [e \in 1..Len(E) |-> LowerBound(R, E[e].from)]

\* Each edge has its source, and the sources do not fall.
LEMMA SourcesAre ==
    ASSUME NEW X, NEW R \in Seq(X), Identified(X), NEW Y, NEW E \in Seq(Y), Directed(Y),
           Linked(R, E)
    PROVE  /\ Sources(R, E) \in [1..Len(E) -> 1..Len(R)]
           /\ Monotone(Sources(R, E), Len(E))
           /\ \A e \in 1..Len(E) : R[Sources(R, E)[e]].id = E[e].from
<1> DEFINE n == Len(R)
           m == Len(E)
           A == Sources(R, E)
<1>1. /\ n \in Nat /\ \A i \in 1..n : R[i].id \in Nat
      /\ m \in Nat /\ \A e \in 1..m : E[e].from \in Nat /\ E[e] \in Y
  BY DEF Identified, Directed
<1>2. IdsRise(R) /\ EdgesRise(E) /\ \A e \in 1..m : \E i \in 1..n : R[i].id = E[e].from
  BY DEF Linked
<1>3. \A e \in 1..m : A[e] = LowerBound(R, E[e].from)
  BY DEF Sources
<1>4. \A e \in 1..m : A[e] \in 1..n /\ R[A[e]].id = E[e].from
  <2> TAKE e \in 1..m
  <2>1. PICK i \in 1..n : R[i].id = E[e].from
    BY <1>2
  <2>2. LowerBound(R, E[e].from) = i
    BY <1>1, <1>2, <2>1, FindIs
  <2> QED BY <1>3, <2>1, <2>2
<1>5. A \in [1..m -> 1..n]
  BY <1>4 DEF Sources
<1>6. ASSUME NEW e \in 1..m, NEW f \in 1..m, e < f PROVE A[e] <= A[f]
  <2>1. EdgesInOrder(E)
    BY <1>2, RisingEdgesInOrder
  <2>2. ~ EdgeBefore(E[f], E[e])
    BY <1>6, <2>1 DEF EdgesInOrder
  <2>3. E[e].from <= E[f].from
    <3> DEFINE a == E[e]  b == E[f]
    <3>1. a \in Y /\ b \in Y
      BY <1>1
    <3>2. \A x \in {a, b} : x.from \in Nat /\ x.to \in Nat /\ x.id \in Nat
      BY <3>1 DEF Directed
    <3>3. ~ EdgeBefore(b, a)
      BY <2>2
    <3> HIDE DEF a, b
    <3>4. a.from <= b.from
      BY <3>2, <3>3, EdgeOrder
    <3> QED BY <3>4 DEF a, b
  <2>4. A[e] \in 1..n /\ A[f] \in 1..n /\ R[A[e]].id <= R[A[f]].id
    BY <1>4, <2>3
  <2>5. ~ A[f] < A[e]
    <3>1. \A i, j \in 1..n : i < j => R[i].id < R[j].id
      BY <1>2 DEF IdsRise
    <3> HIDE DEF A, n
    <3>2. A[f] < A[e] => R[A[f]].id < R[A[e]].id
      BY <2>4, <3>1
    <3> QED BY <1>1, <2>4, <3>2
  <2> QED BY <1>1, <2>4, <2>5
<1> QED BY <1>4, <1>5, <1>6 DEF Monotone

\* How many edges leave the resources up to each.
LEMMA OffsetsAre ==
    ASSUME NEW X, NEW R \in Seq(X), Identified(X), NEW Y, NEW E \in Seq(Y), Directed(Y),
           Linked(R, E)
    PROVE  Offsets(R, E) =
              [i \in 0..Len(R) |-> Cardinality(UpTo(Sources(R, E), Len(E), i))]
<1> DEFINE n == Len(R)
           m == Len(E)
           A == Sources(R, E)
           degree(i) == Cardinality({e \in DOMAIN E : LowerBound(R, E[e].from) = i})
           Sums(f) == f = [i \in 0..n |-> IF i = 0 THEN 0 ELSE f[i - 1] + degree(i)]
           g == [i \in 0..n |-> Cardinality(UpTo(A, m, i))]
<1>1. Offsets(R, E) = CHOOSE f : Sums(f)
  BY DEF Offsets
<1>2. n \in Nat /\ m \in Nat /\ DOMAIN E = 1..m
  OBVIOUS
<1>3. A \in [1..m -> 1..n] /\ A \in [1..m -> Nat]
  <2>1. A \in [1..m -> 1..n]
    BY SourcesAre
  <2>2. 1..n \subseteq Nat
    OBVIOUS
  <2> QED BY <2>1, <2>2
<1>4. \A i : degree(i) = Cardinality(At(A, m, i))
  <2> TAKE i
  <2>1. \A e \in 1..m : A[e] = LowerBound(R, E[e].from)
    BY DEF Sources
  <2>2. {e \in DOMAIN E : LowerBound(R, E[e].from) = i} = At(A, m, i)
    BY <1>2, <2>1 DEF At
  <2> QED BY <2>2
<1>5. \A i \in Nat : /\ Cardinality(UpTo(A, m, i + 1)) = Cardinality(UpTo(A, m, i)) + degree(i + 1)
                     /\ Cardinality(UpTo(A, m, i)) \in Nat
  <2> TAKE i \in Nat
  <2>1. /\ Cardinality(UpTo(A, m, i + 1))
             = Cardinality(UpTo(A, m, i)) + Cardinality(At(A, m, i + 1))
        /\ Cardinality(UpTo(A, m, i)) \in Nat
    <3> HIDE DEF A, m, degree
    <3> QED BY <1>2, <1>3, CountUpTo
  <2>2. degree(i + 1) = Cardinality(At(A, m, i + 1))
    BY <1>4
  <2> HIDE DEF A, m, degree
  <2> QED BY <2>1, <2>2
<1>6. UpTo(A, m, 0) = {}
  BY <1>2, <1>3 DEF UpTo
<1> HIDE DEF n, m, A, degree
<1>7. Sums(g)
  <2>1. g[0] = 0
    <3>1. g[0] = Cardinality(UpTo(A, m, 0))
      BY <1>2
    <3>2. Cardinality(UpTo(A, m, 0)) = Cardinality({})
      BY <1>6, Zenon
    <3>3. Cardinality({}) = 0
      BY FS_EmptySet
    <3> QED BY <3>1, <3>2, <3>3
  <2>2. \A i \in 0..n : i # 0 => g[i] = g[i - 1] + degree(i)
    <3> TAKE i \in 0..n
    <3> HAVE i # 0
    <3>1. i - 1 \in Nat /\ (i - 1) + 1 = i /\ i - 1 \in 0..n
      BY <1>2
    <3>2. Cardinality(UpTo(A, m, (i - 1) + 1)) = Cardinality(UpTo(A, m, i - 1)) + degree((i - 1) + 1)
      BY <1>5, <3>1
    <3>3. g[i] = Cardinality(UpTo(A, m, i)) /\ g[i - 1] = Cardinality(UpTo(A, m, i - 1))
      BY <3>1
    <3> QED BY <3>1, <3>2, <3>3
  <2>3. \A i \in 0..n : g[i] = IF i = 0 THEN 0 ELSE g[i - 1] + degree(i)
    BY <2>1, <2>2
  <2>4. g = [i \in 0..n |-> g[i]]
    OBVIOUS
  <2> HIDE DEF g
  <2> QED BY <2>3, <2>4
<1>8. ASSUME NEW f, Sums(f) PROVE f = g
  <2> DEFINE K == {k \in Nat : k \in 0..n => f[k] = g[k]}
  <2>1. f = [i \in 0..n |-> IF i = 0 THEN 0 ELSE f[i - 1] + degree(i)]
    BY <1>8
  <2>2. g = [i \in 0..n |-> IF i = 0 THEN 0 ELSE g[i - 1] + degree(i)]
    BY <1>7
  <2> HIDE DEF g
  <2>3. 0 \in K
    <3>1. 0 \in 0..n
      BY <1>2
    <3> QED BY <2>1, <2>2, <3>1
  <2>4. ASSUME NEW k \in K PROVE k + 1 \in K
    <3> SUFFICES ASSUME k + 1 \in 0..n PROVE f[k + 1] = g[k + 1]
      OBVIOUS
    <3>1. k \in 0..n /\ k + 1 # 0 /\ (k + 1) - 1 = k
      BY <1>2
    <3>2. f[k] = g[k]
      BY <3>1
    <3> QED BY <2>1, <2>2, <3>1, <3>2
  <2>5. K = Nat
    <3> HIDE DEF K
    <3>1. K \subseteq Nat
      BY DEF K
    <3> QED BY <2>3, <2>4, <3>1, NaturalSet
  <2>6. \A k \in 0..n : f[k] = g[k]
    BY <1>2, <2>5
  <2>7. f = [i \in 0..n |-> f[i]] /\ g = [i \in 0..n |-> g[i]]
    BY <2>1, <2>2
  <2> QED BY <2>6, <2>7
<1> HIDE DEF Sums, g
<1>9. Offsets(R, E) = g
  BY <1>1, <1>7, <1>8
<1> QED BY <1>9 DEF g, n, m, A

\* Placed in canonical order, every edge lands where it is.
LEMMA OutListIs ==
    ASSUME NEW X, NEW R \in Seq(X), Identified(X), NEW Y, NEW E \in Seq(Y), Directed(Y),
           Linked(R, E)
    PROVE  OutList(R, E) = [k \in 1..Len(E) |-> k]
<1> DEFINE n == Len(R)
           m == Len(E)
           A == Sources(R, E)
           L(e) == LowerBound(R, E[e].from)
           Place(acc, e) ==
               [list |-> [acc.list EXCEPT ![acc.cursor[L(e) - 1] + 1] = e],
                cursor |-> [acc.cursor EXCEPT ![L(e) - 1] = @ + 1]]
           Base == [list |-> [k \in DOMAIN E |-> 0], cursor |-> Offsets(R, E)]
           Places2(f) == f = [e \in 0..m |-> IF e = 0 THEN Base ELSE Place(f[e - 1], e)]
           C(i) == Cardinality(UpTo(A, m, i))
           D(e, i) == Cardinality(At(A, e, i))
           l(e) == [k \in 1..m |-> IF k <= e THEN k ELSE 0]
           c(e) == [i \in 0..n |-> C(i) + D(e, i + 1)]
           g == [e \in 0..m |-> [list |-> l(e), cursor |-> c(e)]]
<1>1. OutList(R, E) = (CHOOSE f : Places2(f))[m].list
  BY DEF OutList
<1>2. n \in Nat /\ m \in Nat /\ DOMAIN E = 1..m
  OBVIOUS
<1>3. /\ A \in [1..m -> 1..n] /\ A \in [1..m -> Nat] /\ A \in [1..m -> Nat \ {0}]
      /\ Monotone(A, m)
  <2>1. A \in [1..m -> 1..n] /\ Monotone(A, m)
    BY SourcesAre
  <2>2. 1..n \subseteq Nat /\ 1..n \subseteq Nat \ {0}
    OBVIOUS
  <2> HIDE DEF A, m, n
  <2> QED BY <2>1, <2>2
<1>4. \A e \in 1..m : L(e) = A[e]
  BY DEF Sources
<1>5. Offsets(R, E) = [i \in 0..n |-> C(i)]
  BY OffsetsAre
<1> HIDE DEF n, m, A, L
<1>6. \A i \in Nat : C(i) \in Nat
  BY <1>2, <1>3, CountUpTo
<1>7. \A e \in Nat : \A i \in Nat : /\ D(e + 1, i) = D(e, i) + (IF A[e + 1] = i THEN 1 ELSE 0)
                                  /\ D(e, i) \in Nat
  BY CountNext
<1>8. \A i \in Nat : D(0, i) = 0
  <2> TAKE i \in Nat
  <2>1. At(A, 0, i) = {}
    BY DEF At
  <2>2. D(0, i) = Cardinality({})
    BY <2>1, Zenon
  <2>3. Cardinality({}) = 0
    BY FS_EmptySet
  <2> QED BY <2>2, <2>3
<1>9. \A e \in Nat : e + 1 \in 1..m => C(A[e + 1] - 1) + D(e, A[e + 1]) = e
  BY <1>2, <1>3, CountPlaced
<1> HIDE DEF C, D
<1>10. g[0] = Base
  <2>1. 0 \in 0..m /\ \A i \in 0..n : i + 1 \in Nat /\ i \in Nat
    BY <1>2
  <2>2. l(0) = [k \in DOMAIN E |-> 0]
    BY <1>2
  <2>3. c(0) = Offsets(R, E)
    BY <1>5, <1>6, <1>8, <2>1
  <2> HIDE DEF l, c
  <2> QED BY <2>1, <2>2, <2>3
<1>11. ASSUME NEW e \in Nat, e + 1 \in 1..m
       PROVE  Place(g[e], e + 1) = g[e + 1]
  <2>1. e \in 0..m /\ e + 1 \in 0..m
    BY <1>2, <1>11
  <2>2. A[e + 1] \in 1..n /\ A[e + 1] - 1 \in 0..n /\ (A[e + 1] - 1) + 1 = A[e + 1]
    BY <1>2, <1>3, <1>11
  <2> DEFINE a == A[e + 1]
  <2>3. g[e].list = l(e) /\ g[e].cursor = c(e) /\ g[e + 1] = [list |-> l(e + 1), cursor |-> c(e + 1)]
    <3> HIDE DEF l, c
    <3> QED BY <2>1
  <2>4. c(e)[a - 1] = e
    <3>1. c(e)[a - 1] = C(a - 1) + D(e, (a - 1) + 1)
      BY <2>2
    <3> QED BY <1>9, <1>11, <2>2, <3>1
  <2>5. [l(e) EXCEPT ![e + 1] = e + 1] = l(e + 1)
    <3> DEFINE k1 == e + 1
    <3>1. k1 \in 1..m /\ \A k \in 1..m : k # k1 => (k <= e <=> k <= k1)
      BY <1>2, <1>11
    <3>2. ~ k1 <= e /\ k1 <= k1 /\ k1 = e + 1
      BY <1>11
    <3> HIDE DEF k1
    <3>3. \A k \in 1..m : [l(e) EXCEPT ![k1] = k1][k] = l(k1)[k]
      BY <3>1, <3>2
    <3>4. DOMAIN l(k1) = 1..m /\ DOMAIN [l(e) EXCEPT ![k1] = k1] = 1..m
      OBVIOUS
    <3>5. [l(e) EXCEPT ![k1] = k1] = l(k1)
      BY <3>3, <3>4
    <3> QED BY <3>2, <3>5
  <2> HIDE DEF a
  <2>6. [c(e) EXCEPT ![a - 1] = @ + 1] = c(e + 1)
    <3>1. \A i \in 0..n : D(e + 1, i + 1) = D(e, i + 1) + (IF a = i + 1 THEN 1 ELSE 0)
      <4> TAKE i \in 0..n
      <4>1. i + 1 \in Nat
        BY <1>2
      <4> DEFINE j == i + 1
      <4>2. D(e + 1, j) = D(e, j) + (IF A[e + 1] = j THEN 1 ELSE 0)
        <5> HIDE DEF j
        <5>1. j \in Nat
          BY <4>1 DEF j
        <5> QED BY <1>7, <5>1
      <4> QED BY <4>2 DEF a
    <3>2. \A i \in 0..n : C(i) \in Nat /\ D(e, i + 1) \in Nat
      <4> TAKE i \in 0..n
      <4>1. i \in Nat /\ i + 1 \in Nat
        BY <1>2
      <4> DEFINE j == i + 1
      <4>2. D(e, j) \in Nat
        <5> HIDE DEF j
        <5>1. j \in Nat
          BY <4>1 DEF j
        <5> QED BY <1>7, <5>1
      <4> QED BY <1>6, <4>1, <4>2
    <3>3. \A i \in 0..n : (a = i + 1) <=> (i = a - 1)
      BY <1>2, <2>2 DEF a
    <3>4. \A i \in 0..n : [c(e) EXCEPT ![a - 1] = @ + 1][i] = c(e + 1)[i]
      BY <3>1, <3>2, <3>3
    <3>5. DOMAIN c(e) = 0..n /\ DOMAIN c(e + 1) = 0..n
      OBVIOUS
    <3> QED BY <3>4, <3>5
  <2>7. L(e + 1) = a
    BY <1>4, <1>11 DEF a
  <2> HIDE DEF l, c, g
  <2>8. Place(g[e], e + 1)
           = [list |-> [l(e) EXCEPT ![c(e)[a - 1] + 1] = e + 1],
              cursor |-> [c(e) EXCEPT ![a - 1] = @ + 1]]
    BY <2>3, <2>7
  <2> QED BY <2>3, <2>4, <2>5, <2>6, <2>8
<1> HIDE DEF Place, Base, l, c
<1>12. Places2(g)
  <2>1. \A e \in 0..m : g[e] = IF e = 0 THEN Base ELSE Place(g[e - 1], e)
    <3> TAKE e \in 0..m
    <3>1. CASE e = 0
      BY <1>10, <3>1
    <3>2. CASE e # 0
      <4>1. e - 1 \in Nat /\ (e - 1) + 1 = e /\ (e - 1) + 1 \in 1..m
        BY <1>2, <3>2
      <4>2. Place(g[e - 1], (e - 1) + 1) = g[(e - 1) + 1]
        BY <1>11, <4>1
      <4> HIDE DEF g
      <4> QED BY <3>2, <4>1, <4>2
    <3> QED BY <3>1, <3>2
  <2>2. g = [e \in 0..m |-> g[e]]
    OBVIOUS
  <2> HIDE DEF g
  <2> QED BY <2>1, <2>2
<1>13. ASSUME NEW f, Places2(f) PROVE f = g
  <2> DEFINE K == {k \in Nat : k \in 0..m => f[k] = g[k]}
  <2>1. f = [e \in 0..m |-> IF e = 0 THEN Base ELSE Place(f[e - 1], e)]
    BY <1>13
  <2>2. g = [e \in 0..m |-> IF e = 0 THEN Base ELSE Place(g[e - 1], e)]
    BY <1>12
  <2> HIDE DEF g
  <2>3. 0 \in K
    <3>1. 0 \in 0..m
      BY <1>2
    <3> QED BY <2>1, <2>2, <3>1
  <2>4. ASSUME NEW k \in K PROVE k + 1 \in K
    <3> SUFFICES ASSUME k + 1 \in 0..m PROVE f[k + 1] = g[k + 1]
      OBVIOUS
    <3>1. k \in 0..m /\ k + 1 # 0 /\ (k + 1) - 1 = k
      BY <1>2
    <3>2. f[k] = g[k]
      BY <3>1
    <3>3. f[k + 1] = Place(f[(k + 1) - 1], k + 1) /\ g[k + 1] = Place(g[(k + 1) - 1], k + 1)
      BY <2>1, <2>2, <3>1
    <3> QED BY <3>1, <3>2, <3>3
  <2>5. K = Nat
    <3> HIDE DEF K
    <3>1. K \subseteq Nat
      BY DEF K
    <3> QED BY <2>3, <2>4, <3>1, NaturalSet
  <2>6. \A k \in 0..m : f[k] = g[k]
    BY <1>2, <2>5
  <2>7. f = [e \in 0..m |-> f[e]] /\ g = [e \in 0..m |-> g[e]]
    BY <2>1, <2>2
  <2> QED BY <2>6, <2>7
<1>14. g[m].list = l(m)
  BY <1>2
<1> HIDE DEF Places2, g
<1>15. (CHOOSE f : Places2(f)) = g
  BY <1>12, <1>13
<1>16. l(m) = [k \in 1..m |-> k]
  BY <1>2 DEF l
<1> QED BY <1>1, <1>14, <1>15, <1>16 DEF m

-----------------------------------------------------------------------------
(* Canonical definitions                                                   *)

\* Records have identities, and edges have ends.
LEMMA Records ==
    /\ Identified(ResourceRecord) /\ Identified(TrafficSelector) /\ Identified(ForwardingEdge)
    /\ Directed(ForwardingEdge)
<1>1. Identified(ResourceRecord)
  BY DEF Identified, ResourceRecord
<1>2. Identified(TrafficSelector)
  BY DEF Identified, TrafficSelector
<1>3. Identified(ForwardingEdge)
  BY DEF Identified, ForwardingEdge
<1>4. Directed(ForwardingEdge)
  BY DEF Directed, ForwardingEdge
<1> QED BY <1>1, <1>2, <1>3, <1>4

\* The index lists every edge once, by identity.
LEMMA EdgesByIdIs ==
    ASSUME NEW Y, NEW E \in Seq(Y), Identified(Y)
    PROVE  /\ EdgesById(E) \in Permutation(Len(E))
           /\ EdgesById(E) \in Seq(Nat) /\ Len(EdgesById(E)) = Len(E)
           /\ \A i, j \in 1..Len(E) : i < j => E[EdgesById(E)[i]].id <= E[EdgesById(E)[j]].id
<1> DEFINE n == Len(E)
<1>1. PICK before : before = {pair \in (DOMAIN E) \X (DOMAIN E) : IdBefore(E[pair[1]], E[pair[2]])}
  OBVIOUS
<1>2. PICK p : p = EdgesById(E)
  OBVIOUS
<1>3. n \in Nat /\ DOMAIN E = 1..n /\ \A i \in 1..n : E[i].id \in Nat
  BY DEF Identified
<1>4. p = Order(n, before)
  BY <1>1, <1>2, Zenon DEF EdgesById
<1>5. before \subseteq (1..n) \X (1..n)
  BY <1>1, <1>3
<1>6. \A i, j \in 1..n : <<i, j>> \in before <=> E[i].id < E[j].id
  BY <1>1, <1>3 DEF IdBefore
<1> HIDE DEF n
<1>7. WeakOrder(n, before)
  <2>1. \A i, j \in 1..n : <<i, j>> \in before => <<j, i>> \notin before
    BY <1>3, <1>6
  <2>2. \A i, j, k \in 1..n : <<i, j>> \in before => <<i, k>> \in before \/ <<k, j>> \in before
    BY <1>3, <1>6
  <2> QED BY <1>5, <2>1, <2>2 DEF WeakOrder
<1>8. p \in Permutation(n) /\ Sorts(p, n, before)
  BY <1>3, <1>4, <1>7, OrderIs
<1>9. p \in [1..n -> 1..n]
  BY <1>8 DEF Permutation
<1>10. p \in Seq(Nat) /\ Len(p) = n
  <2>1. p \in [1..n -> Nat]
    BY <1>3, <1>9
  <2> QED BY <1>3, <2>1
<1>11. \A i, j \in 1..n : i < j => E[p[i]].id <= E[p[j]].id
  <2> TAKE i, j \in 1..n
  <2> HAVE i < j
  <2>1. <<p[j], p[i]>> \notin before /\ p[i] \in 1..n /\ p[j] \in 1..n
    BY <1>8, <1>9 DEF Sorts
  <2> QED BY <1>3, <1>6, <2>1
<1> QED BY <1>2, <1>8, <1>10, <1>11 DEF n

\* What the indices hold.
LEMMA IndexedIs ==
    ASSUME NEW R \in Seq(ResourceRecord), Len(R) <= MaxResources,
           NEW S \in Seq(TrafficSelector), NEW E \in Seq(ForwardingEdge), Linked(R, E)
    PROVE  /\ Indexed(R, S, E) \in TopologyDefinition
           /\ Indexed(R, S, E).out = [k \in 1..Len(E) |-> k]
           /\ Indexed(R, S, E).offset =
                 [i \in 0..Len(R) |-> Cardinality(UpTo(Sources(R, E), Len(E), i))]
<1> DEFINE n == Len(R)
           m == Len(E)
           A == Sources(R, E)
<1>1. n \in Nat /\ n \in 0..MaxResources /\ m \in Nat
  BY LimitAssumption
<1>2. A \in [1..m -> 1..n] /\ A \in [1..m -> Nat]
  <2>1. A \in [1..m -> 1..n]
    BY SourcesAre, Records
  <2>2. 1..n \subseteq Nat
    OBVIOUS
  <2> HIDE DEF A, m, n
  <2> QED BY <2>1, <2>2
<1>3. Offsets(R, E) = [i \in 0..n |-> Cardinality(UpTo(A, m, i))]
  BY OffsetsAre, Records
<1>4. OutList(R, E) = [k \in 1..m |-> k]
  BY OutListIs, Records
<1>5. EdgesById(E) \in Seq(Nat)
  BY EdgesByIdIs, Records
<1> HIDE DEF n, m, A
<1>6. Offsets(R, E) \in [0..n -> Nat]
  <2>1. \A i \in 0..n : i \in Nat
    BY <1>1
  <2>2. \A i \in 0..n : Cardinality(UpTo(A, m, i)) \in Nat
    BY <1>1, <1>2, <2>1, CountUpTo
  <2> QED BY <1>3, <2>2
<1>7. OutList(R, E) \in Seq(Nat)
  <2>1. OutList(R, E) \in [1..m -> Nat]
    BY <1>1, <1>4
  <2> QED BY <1>1, <2>1
<1>8. Offsets(R, E) \in UNION {[0..k -> Nat] : k \in 0..MaxResources}
  BY <1>1, <1>6
<1>9. Indexed(R, S, E) \in TopologyDefinition
  BY <1>5, <1>7, <1>8 DEF Indexed, TopologyDefinition
<1> QED BY <1>3, <1>4, <1>9 DEF Indexed, n, m, A

Recorded(d) ==
    /\ d.resources \in Seq(ResourceRecord) /\ d.selectors \in Seq(TrafficSelector)
    /\ d.edges \in Seq(ForwardingEdge)

AllFit(d) ==
    /\ \A i \in DOMAIN d.resources : ResourceFits(d.resources[i])
    /\ \A i \in DOMAIN d.selectors : SelectorFits(d.selectors[i])
    /\ \A i \in DOMAIN d.edges : EdgeFits(d.edges[i])

Limited(d) ==
    /\ Len(d.resources) <= MaxResources /\ Len(d.selectors) <= MaxSelectors
    /\ Len(d.edges) <= MaxEdges

Fitting(d) == Recorded(d) /\ Limited(d) /\ AllFit(d)

Ordered(d) ==
    /\ IdsRise(d.resources) /\ IdsRise(d.selectors)
    /\ EdgesRise(d.edges) /\ NoNeighboursShareId(d.edges)

EndsDeclared(d) ==
    \A i \in DOMAIN d.edges : EdgeIsDeclared(d.edges[i], d.resources, d.selectors)

Canonical(d) ==
    /\ d \in TopologyDefinition /\ Fitting(d) /\ Ordered(d) /\ EndsDeclared(d)
    /\ d = Indexed(d.resources, d.selectors, d.edges)

\* The searches for the ends and the selectors of an edge say whether they exist.
LEMMA DeclaredIs ==
    ASSUME NEW R \in Seq(ResourceRecord), IdsRise(R),
           NEW S \in Seq(TrafficSelector), IdsRise(S), NEW e \in ForwardingEdge
    PROVE  EdgeIsDeclared(e, R, S) <=>
              /\ \A end \in {e.from, e.to} :
                    \E r \in Range(R) : r.id = end /\ r.domain = e.domain
              /\ Range(e.selectors) \subseteq {s.id : s \in Range(S)}
<1>1. e.from \in Nat /\ e.to \in Nat /\ e.selectors \in Seq(Nat)
  BY DEF ForwardingEdge
<1>2. DOMAIN R = 1..Len(R) /\ DOMAIN S = 1..Len(S) /\ Len(R) \in Nat /\ Len(S) \in Nat
  OBVIOUS
<1>3. \A end \in Nat :
         (Find(R, end) # 0 /\ R[Find(R, end)].domain = e.domain)
            <=> \E r \in Range(R) : r.id = end /\ r.domain = e.domain
  <2> TAKE end \in Nat
  <2> DEFINE f == Find(R, end)
  <2>1. /\ \A i \in 1..Len(R) : R[i].id = end => f = i
        /\ f # 0 => f \in 1..Len(R) /\ R[f].id = end
    BY Records, FindIs
  <2> HIDE DEF f
  <2>2. ASSUME f # 0, R[f].domain = e.domain
        PROVE  \E r \in Range(R) : r.id = end /\ r.domain = e.domain
    BY <1>2, <2>1, <2>2 DEF Range
  <2>3. ASSUME NEW r \in Range(R), r.id = end, r.domain = e.domain
        PROVE  f # 0 /\ R[f].domain = e.domain
    <3>1. PICK i \in 1..Len(R) : R[i] = r
      BY <1>2 DEF Range
    <3>2. f = i
      BY <2>1, <2>3, <3>1
    <3> QED BY <1>2, <2>3, <3>1, <3>2
  <2> QED BY <2>2, <2>3 DEF f
<1>4. \A x \in Nat : Find(S, x) # 0 <=> x \in {s.id : s \in Range(S)}
  <2> TAKE x \in Nat
  <2> DEFINE f == Find(S, x)
  <2>1. /\ \A i \in 1..Len(S) : S[i].id = x => f = i
        /\ f # 0 => f \in 1..Len(S) /\ S[f].id = x
    BY Records, FindIs
  <2> HIDE DEF f
  <2>2. ASSUME f # 0 PROVE x \in {s.id : s \in Range(S)}
    BY <1>2, <2>1, <2>2 DEF Range
  <2>3. ASSUME NEW s \in Range(S), s.id = x PROVE f # 0
    <3>1. PICK i \in 1..Len(S) : S[i] = s
      BY <1>2 DEF Range
    <3>2. f = i
      BY <2>1, <2>3, <3>1
    <3> QED BY <1>2, <3>2
  <2> QED BY <2>2, <2>3 DEF f
<1>5. \A x \in Range(e.selectors) : x \in Nat
  BY <1>1 DEF Range
<1>6. EdgeIsDeclared(e, R, S) <=>
         /\ \A end \in {e.from, e.to} : Find(R, end) # 0 /\ R[Find(R, end)].domain = e.domain
         /\ \A s \in Range(e.selectors) : Find(S, s) # 0
  BY DEF EdgeIsDeclared
<1>7. (\A end \in {e.from, e.to} : Find(R, end) # 0 /\ R[Find(R, end)].domain = e.domain)
         <=> \A end \in {e.from, e.to} : \E r \in Range(R) : r.id = end /\ r.domain = e.domain
  <2>1. \A end \in {e.from, e.to} : end \in Nat
    BY <1>1
  <2> QED BY <1>3, <2>1
<1>8. (\A s \in Range(e.selectors) : Find(S, s) # 0)
         <=> Range(e.selectors) \subseteq {s.id : s \in Range(S)}
  BY <1>4, <1>5
<1> QED BY <1>6, <1>7, <1>8

\* Edges that are declared leave a resource.
LEMMA DeclaredAreLinked ==
    ASSUME NEW R \in Seq(ResourceRecord), IdsRise(R),
           NEW S \in Seq(TrafficSelector), NEW E \in Seq(ForwardingEdge), EdgesRise(E),
           \A i \in DOMAIN E : EdgeIsDeclared(E[i], R, S)
    PROVE  Linked(R, E)
<1> SUFFICES ASSUME NEW e \in 1..Len(E) PROVE \E i \in 1..Len(R) : R[i].id = E[e].from
  BY DEF Linked
<1>1. e \in DOMAIN E /\ E[e] \in ForwardingEdge /\ E[e].from \in Nat
  <2>1. e \in DOMAIN E /\ E[e] \in ForwardingEdge
    OBVIOUS
  <2>2. \A x \in ForwardingEdge : x.from \in Nat
    BY DEF ForwardingEdge
  <2> QED BY <2>1, <2>2
<1>2. Find(R, E[e].from) # 0
  <2>1. EdgeIsDeclared(E[e], R, S)
    BY <1>1
  <2> QED BY <2>1 DEF EdgeIsDeclared
<1>3. Find(R, E[e].from) \in 1..Len(R) /\ R[Find(R, E[e].from)].id = E[e].from
  BY <1>1, <1>2, Records, FindIs
<1> QED BY <1>3

\* A rearrangement has as many records, and they fit if those did.
LEMMA RearrangedFit ==
    ASSUME NEW X, NEW s \in Seq(X), NEW t \in Seq(X), Rearranged(t, s)
    PROVE  /\ Len(t) = Len(s)
           /\ (\A i \in DOMAIN s : ResourceFits(s[i])) => \A i \in DOMAIN t : ResourceFits(t[i])
           /\ (\A i \in DOMAIN s : SelectorFits(s[i])) => \A i \in DOMAIN t : SelectorFits(t[i])
           /\ (\A i \in DOMAIN s : EdgeFits(s[i])) => \A i \in DOMAIN t : EdgeFits(t[i])
<1>1. \A i \in DOMAIN t : \E j \in DOMAIN s : t[i] = s[j]
  <2>1. DOMAIN s = 1..Len(s) /\ DOMAIN t = 1..Len(s)
    BY DEF Rearranged
  <2>2. PICK p : Places(p, t, s)
    BY PlacesMap
  <2>3. p \in [1..Len(s) -> 1..Len(s)] /\ \A i \in 1..Len(s) : t[i] = s[p[i]]
    BY <2>2 DEF Places
  <2> TAKE i \in DOMAIN t
  <2>4. p[i] \in DOMAIN s /\ t[i] = s[p[i]]
    BY <2>1, <2>3
  <2> QED BY <2>4
<1>2. (\A i \in DOMAIN s : ResourceFits(s[i])) => \A i \in DOMAIN t : ResourceFits(t[i])
  BY <1>1, Zenon
<1>3. (\A i \in DOMAIN s : SelectorFits(s[i])) => \A i \in DOMAIN t : SelectorFits(t[i])
  BY <1>1, Zenon
<1>4. (\A i \in DOMAIN s : EdgeFits(s[i])) => \A i \in DOMAIN t : EdgeFits(t[i])
  BY <1>1, Zenon
<1> QED BY <1>2, <1>3, <1>4 DEF Rearranged

\* A builder's records are put into canonical form exactly when they are acceptable.
LEMMA CanonicalizedIs ==
    ASSUME NEW d, Fitting(d), NEW c, c = Canonicalized(d)
    PROVE  \/ c = Refused /\ ~ Acceptable(d)
           \/ /\ Canonical(c) /\ Acceptable(d)
              /\ Range(c.resources) = Range(d.resources)
              /\ Range(c.selectors) = Range(d.selectors)
              /\ Range(c.edges) = Range(d.edges)
<1>1. PICK R : R = Sorted(d.resources, IdBefore)
  OBVIOUS
<1>2. PICK S : S = Sorted(d.selectors, IdBefore)
  OBVIOUS
<1>3. PICK E : E = Sorted(d.edges, EdgeBefore)
  OBVIOUS
<1>4. c = IF /\ Len(R) <= MaxResources /\ Len(S) <= MaxSelectors /\ Len(E) <= MaxEdges
             /\ \A i \in DOMAIN R : ResourceFits(R[i])
             /\ \A i \in DOMAIN S : SelectorFits(S[i])
             /\ \A i \in DOMAIN E : EdgeFits(E[i])
             /\ NoNeighboursShareId(R) /\ NoNeighboursShareId(S) /\ NoNeighboursShareId(E)
             /\ \A i \in DOMAIN E : EdgeIsDeclared(E[i], R, S)
          THEN Indexed(R, S, E) ELSE Refused
  BY <1>1, <1>2, <1>3, Zenon DEF Canonicalized
<1>5. Recorded(d) /\ Limited(d) /\ AllFit(d)
  BY DEF Fitting
<1>6. /\ R \in Seq(ResourceRecord) /\ Rearranged(R, d.resources)
      /\ NoNeighboursShareId(R) <=> DistinctIds(d.resources)
      /\ NoNeighboursShareId(R) => IdsRise(R)
  BY <1>1, <1>5, Records, DuplicatesAreSeen DEF Recorded
<1>7. /\ S \in Seq(TrafficSelector) /\ Rearranged(S, d.selectors)
      /\ NoNeighboursShareId(S) <=> DistinctIds(d.selectors)
      /\ NoNeighboursShareId(S) => IdsRise(S)
  BY <1>2, <1>5, Records, DuplicatesAreSeen DEF Recorded
<1>8. /\ E \in Seq(ForwardingEdge) /\ Rearranged(E, d.edges)
      /\ NoNeighboursShareId(E) <=> EdgesAreApart(d.edges)
      /\ NoNeighboursShareId(E) => EdgesRise(E)
  BY <1>3, <1>5, Records, EdgesSorted DEF Recorded
<1>9. /\ Range(R) = Range(d.resources) /\ Range(S) = Range(d.selectors)
      /\ Range(E) = Range(d.edges)
  <2>1. Range(R) = Range(d.resources)
    BY <1>5, <1>6, RearrangedRange DEF Recorded
  <2>2. Range(S) = Range(d.selectors)
    BY <1>5, <1>7, RearrangedRange DEF Recorded
  <2>3. Range(E) = Range(d.edges)
    BY <1>5, <1>8, RearrangedRange DEF Recorded
  <2> QED BY <2>1, <2>2, <2>3, Zenon
<1>10. /\ Len(R) <= MaxResources /\ Len(S) <= MaxSelectors /\ Len(E) <= MaxEdges
       /\ \A i \in DOMAIN R : ResourceFits(R[i])
       /\ \A i \in DOMAIN S : SelectorFits(S[i])
       /\ \A i \in DOMAIN E : EdgeFits(E[i])
  <2>1. Len(R) <= MaxResources /\ \A i \in DOMAIN R : ResourceFits(R[i])
    <3>1. Len(R) = Len(d.resources) /\ \A i \in DOMAIN R : ResourceFits(R[i])
      BY <1>5, <1>6, RearrangedFit, Zenon DEF Recorded, AllFit
    <3> QED BY <1>5, <3>1 DEF Limited
  <2>2. Len(S) <= MaxSelectors /\ \A i \in DOMAIN S : SelectorFits(S[i])
    <3>1. Len(S) = Len(d.selectors) /\ \A i \in DOMAIN S : SelectorFits(S[i])
      BY <1>5, <1>7, RearrangedFit, Zenon DEF Recorded, AllFit
    <3> QED BY <1>5, <3>1 DEF Limited
  <2>3. Len(E) <= MaxEdges /\ \A i \in DOMAIN E : EdgeFits(E[i])
    <3>1. Len(E) = Len(d.edges) /\ \A i \in DOMAIN E : EdgeFits(E[i])
      BY <1>5, <1>8, RearrangedFit, Zenon DEF Recorded, AllFit
    <3> QED BY <1>5, <3>1 DEF Limited
  <2> QED BY <2>1, <2>2, <2>3
<1> DEFINE EndsKnown(e) ==
              /\ \A end \in {e.from, e.to} :
                    \E r \in Range(R) : r.id = end /\ r.domain = e.domain
              /\ Range(e.selectors) \subseteq {s.id : s \in Range(S)}
<1>11. Acceptable(d) <=> /\ DistinctIds(d.resources) /\ DistinctIds(d.selectors)
                    /\ EdgesAreApart(d.edges)
                    /\ \A e \in Range(E) : EndsKnown(e)
  <2>1. Acceptable(d) <=> /\ DistinctIds(d.resources) /\ DistinctIds(d.selectors)
                     /\ EdgesAreApart(d.edges)
                     /\ \A e \in Range(d.edges) :
                           /\ \A end \in {e.from, e.to} :
                                 \E r \in Range(d.resources) : r.id = end /\ r.domain = e.domain
                           /\ Range(e.selectors) \subseteq {s.id : s \in Range(d.selectors)}
    BY DEF Acceptable, Declared
  <2> QED BY <1>9, <2>1, Zenon
<1>12. ASSUME IdsRise(R), IdsRise(S)
       PROVE  (\A e \in Range(E) : EndsKnown(e)) <=> \A i \in DOMAIN E : EdgeIsDeclared(E[i], R, S)
  <2>1. \A i \in DOMAIN E : EdgeIsDeclared(E[i], R, S) <=> EndsKnown(E[i])
    <3> TAKE i \in DOMAIN E
    <3>1. E[i] \in ForwardingEdge
      BY <1>8
    <3> QED BY <1>6, <1>7, <1>12, <3>1, DeclaredIs
  <2>2. Range(E) = {E[i] : i \in DOMAIN E}
    BY DEF Range
  <2> HIDE DEF EndsKnown
  <2>3. (\A e \in Range(E) : EndsKnown(e)) <=> \A i \in DOMAIN E : EndsKnown(E[i])
    BY <2>2
  <2> QED BY <2>1, <2>3
<1> HIDE DEF EndsKnown
<1>13. CASE ~ (NoNeighboursShareId(R) /\ NoNeighboursShareId(S) /\ NoNeighboursShareId(E))
  <2>1. c = Refused
    BY <1>4, <1>13
  <2>2. ~ Acceptable(d)
    BY <1>6, <1>7, <1>8, <1>11, <1>13
  <2> QED BY <2>1, <2>2
<1>14. CASE NoNeighboursShareId(R) /\ NoNeighboursShareId(S) /\ NoNeighboursShareId(E)
  <2>1. IdsRise(R) /\ IdsRise(S) /\ EdgesRise(E)
    BY <1>6, <1>7, <1>8, <1>14
  <2>2. Acceptable(d) <=> \A i \in DOMAIN E : EdgeIsDeclared(E[i], R, S)
    BY <1>6, <1>7, <1>8, <1>11, <1>12, <1>14, <2>1
  <2>3. c = IF \A i \in DOMAIN E : EdgeIsDeclared(E[i], R, S) THEN Indexed(R, S, E) ELSE Refused
    BY <1>4, <1>10, <1>14
  <2>4. CASE ~ \A i \in DOMAIN E : EdgeIsDeclared(E[i], R, S)
    BY <2>2, <2>3, <2>4
  <2>5. CASE \A i \in DOMAIN E : EdgeIsDeclared(E[i], R, S)
    <3>1. Linked(R, E)
      BY <1>6, <1>7, <1>8, <2>1, <2>5, DeclaredAreLinked
    <3>2. Indexed(R, S, E) \in TopologyDefinition
      BY <1>6, <1>7, <1>8, <1>10, <3>1, IndexedIs
    <3>3. c = Indexed(R, S, E)
      BY <2>3, <2>5
    <3>4. c.resources = R /\ c.selectors = S /\ c.edges = E
      BY <3>3 DEF Indexed
    <3>5. Recorded(c)
      BY <1>6, <1>7, <1>8, <3>4 DEF Recorded
    <3>6. Limited(c)
      BY <1>10, <3>4 DEF Limited
    <3>7. AllFit(c)
      BY <1>10, <3>4, Zenon DEF AllFit
    <3>8. Ordered(c)
      BY <1>14, <2>1, <3>4, Zenon DEF Ordered
    <3>9. EndsDeclared(c)
      BY <2>5, <3>4, Zenon DEF EndsDeclared
    <3>10. Canonical(c)
      BY <3>2, <3>3, <3>4, <3>5, <3>6, <3>7, <3>8, <3>9, Zenon DEF Canonical, Fitting
    <3>11. Acceptable(d)
      BY <2>2, <2>5
    <3> QED BY <1>9, <3>4, <3>10, <3>11, Zenon
  <2> QED BY <2>4, <2>5
<1> QED BY <1>13, <1>14

\* What is in canonical form stays as it is, whatever indices come with it.
LEMMA CanonicalStays ==
    ASSUME NEW c, Canonical(c), NEW d,
           d.resources = c.resources, d.selectors = c.selectors, d.edges = c.edges
    PROVE  Canonicalized(d) = c
<1>1. PICK R : R = Sorted(d.resources, IdBefore)
  OBVIOUS
<1>2. PICK S : S = Sorted(d.selectors, IdBefore)
  OBVIOUS
<1>3. PICK E : E = Sorted(d.edges, EdgeBefore)
  OBVIOUS
<1>4. Canonicalized(d) =
          IF /\ Len(R) <= MaxResources /\ Len(S) <= MaxSelectors /\ Len(E) <= MaxEdges
             /\ \A i \in DOMAIN R : ResourceFits(R[i])
             /\ \A i \in DOMAIN S : SelectorFits(S[i])
             /\ \A i \in DOMAIN E : EdgeFits(E[i])
             /\ NoNeighboursShareId(R) /\ NoNeighboursShareId(S) /\ NoNeighboursShareId(E)
             /\ \A i \in DOMAIN E : EdgeIsDeclared(E[i], R, S)
          THEN Indexed(R, S, E) ELSE Refused
  BY <1>1, <1>2, <1>3, Zenon DEF Canonicalized
<1>5. /\ Recorded(c) /\ Limited(c) /\ AllFit(c) /\ Ordered(c) /\ EndsDeclared(c)
      /\ c = Indexed(c.resources, c.selectors, c.edges)
  BY DEF Canonical, Fitting
<1>6. R = c.resources
  <2>1. c.resources \in Seq(ResourceRecord) /\ IdsRise(c.resources)
    BY <1>5 DEF Recorded, Ordered
  <2>2. Sorted(c.resources, IdBefore) = c.resources
    BY <2>1, Records, SortedStays
  <2> QED BY <1>1, <2>2
<1>7. S = c.selectors
  <2>1. c.selectors \in Seq(TrafficSelector) /\ IdsRise(c.selectors)
    BY <1>5 DEF Recorded, Ordered
  <2>2. Sorted(c.selectors, IdBefore) = c.selectors
    BY <2>1, Records, SortedStays
  <2> QED BY <1>2, <2>2
<1>8. E = c.edges
  <2>1. c.edges \in Seq(ForwardingEdge) /\ EdgesRise(c.edges)
    BY <1>5 DEF Recorded, Ordered
  <2>2. Sorted(c.edges, EdgeBefore) = c.edges
    BY <2>1, Records, EdgesStay
  <2> QED BY <1>3, <2>2
<1>9. NoNeighboursShareId(c.resources) /\ NoNeighboursShareId(c.selectors)
  <2>1. c.resources \in Seq(ResourceRecord) /\ IdsRise(c.resources)
    BY <1>5 DEF Recorded, Ordered
  <2>2. c.selectors \in Seq(TrafficSelector) /\ IdsRise(c.selectors)
    BY <1>5 DEF Recorded, Ordered
  <2>3. NoNeighboursShareId(c.resources)
    BY <2>1, Records, RisingIsDistinct
  <2>4. NoNeighboursShareId(c.selectors)
    BY <2>2, Records, RisingIsDistinct
  <2> QED BY <2>3, <2>4
<1>10. /\ Len(R) <= MaxResources /\ Len(S) <= MaxSelectors /\ Len(E) <= MaxEdges
       /\ \A i \in DOMAIN R : ResourceFits(R[i])
       /\ \A i \in DOMAIN S : SelectorFits(S[i])
       /\ \A i \in DOMAIN E : EdgeFits(E[i])
       /\ NoNeighboursShareId(R) /\ NoNeighboursShareId(S) /\ NoNeighboursShareId(E)
       /\ \A i \in DOMAIN E : EdgeIsDeclared(E[i], R, S)
  BY <1>5, <1>6, <1>7, <1>8, <1>9, Zenon DEF Limited, AllFit, Ordered, EndsDeclared
<1>11. Canonicalized(d) = Indexed(R, S, E)
  BY <1>4, <1>10, Zenon
<1> QED BY <1>5, <1>6, <1>7, <1>8, <1>11, Zenon

-----------------------------------------------------------------------------
(* Lookups                                                                 *)

\* The indices of a canonical definition.
LEMMA CanonicalIndices ==
    ASSUME NEW d, Canonical(d)
    PROVE  LET R == d.resources
               E == d.edges
               A == Sources(R, E)
           IN  /\ R \in Seq(ResourceRecord) /\ IdsRise(R) /\ E \in Seq(ForwardingEdge)
               /\ Linked(R, E)
               /\ A \in [1..Len(E) -> 1..Len(R)] /\ Monotone(A, Len(E))
               /\ \A e \in 1..Len(E) : R[A[e]].id = E[e].from
               /\ d.byId = EdgesById(E)
               /\ d.out = [k \in 1..Len(E) |-> k]
               /\ d.offset = [i \in 0..Len(R) |-> Cardinality(UpTo(A, Len(E), i))]
<1> DEFINE R == d.resources
           S == d.selectors
           E == d.edges
           A == Sources(R, E)
<1>1. /\ Recorded(d) /\ Limited(d) /\ Ordered(d) /\ EndsDeclared(d)
      /\ d = Indexed(R, S, E)
  BY DEF Canonical, Fitting
<1>2. /\ R \in Seq(ResourceRecord) /\ S \in Seq(TrafficSelector) /\ E \in Seq(ForwardingEdge)
      /\ Len(R) <= MaxResources /\ IdsRise(R) /\ EdgesRise(E)
      /\ \A i \in DOMAIN E : EdgeIsDeclared(E[i], R, S)
  BY <1>1 DEF Recorded, Limited, Ordered, EndsDeclared
<1> HIDE DEF R, S, E
<1>3. Linked(R, E)
  BY <1>2, DeclaredAreLinked
<1>4. /\ A \in [1..Len(E) -> 1..Len(R)] /\ Monotone(A, Len(E))
      /\ \A e \in 1..Len(E) : R[A[e]].id = E[e].from
  BY <1>2, <1>3, Records, SourcesAre
<1>5. /\ Indexed(R, S, E).out = [k \in 1..Len(E) |-> k]
      /\ Indexed(R, S, E).offset = [i \in 0..Len(R) |-> Cardinality(UpTo(A, Len(E), i))]
  BY <1>2, <1>3, IndexedIs
<1>6. Indexed(R, S, E).byId = EdgesById(E)
  BY DEF Indexed
<1> HIDE DEF A
<1>7. /\ d.out = [k \in 1..Len(E) |-> k]
      /\ d.offset = [i \in 0..Len(R) |-> Cardinality(UpTo(A, Len(E), i))]
      /\ d.byId = EdgesById(E)
  BY <1>1, <1>5, <1>6, Zenon
<1> QED BY <1>2, <1>3, <1>4, <1>7 DEF R, E, A

\* A stretch of the list of all edges.
LEMMA Stretch ==
    ASSUME NEW m \in Nat, NEW a \in 0..m, NEW b \in 0..m, NEW out, out = [k \in 1..m |-> k]
    PROVE  /\ StrictlyIncreasing(SubSeq(out, a + 1, b))
           /\ Range(SubSeq(out, a + 1, b)) = (a + 1)..b
<1> DEFINE l == IF a + 1 <= b THEN b - a ELSE 0
           t == SubSeq(out, a + 1, b)
<1>1. out \in Seq(Nat) /\ Len(out) = m
  <2>1. out \in [1..m -> Nat]
    OBVIOUS
  <2> QED BY <2>1
<1>2. l \in Nat /\ \A i \in 1..l : a + i \in 1..m /\ a + i = (a + 1) + i - 1
  OBVIOUS
<1>3. t = [i \in 1..l |-> out[a + i]]
  <2>1. t = [i \in 1..l |-> out[(a + 1) + i - 1]]
    BY <1>1 DEF SubSeq
  <2> HIDE DEF l, t
  <2> QED BY <1>2, <2>1
<1>4. DOMAIN t = 1..l /\ Len(t) = l /\ \A i \in 1..l : t[i] = a + i
  <2> HIDE DEF t, l
  <2>1. DOMAIN t = 1..l /\ \A i \in 1..l : t[i] = out[a + i]
    BY <1>3
  <2>2. \A i \in 1..l : out[a + i] = a + i
    BY <1>2
  <2>3. Len(t) = l
    BY <1>2, <1>3
  <2> QED BY <2>1, <2>2, <2>3
<1>5. StrictlyIncreasing(t)
  <2> HIDE DEF t, l
  <2>1. \A i \in 1..(l - 1) : i \in 1..l /\ i + 1 \in 1..l /\ a + i < a + (i + 1)
    BY <1>2
  <2> QED BY <1>4, <2>1 DEF StrictlyIncreasing
<1>6. Range(t) = (a + 1)..b
  <2>1. \A x : x \in (a + 1)..b <=> \E i \in 1..l : x = a + i
    <3>1. \A i \in 1..l : a + i \in (a + 1)..b
      OBVIOUS
    <3>2. \A x \in (a + 1)..b : x - a \in 1..l /\ x = a + (x - a)
      OBVIOUS
    <3> HIDE DEF l
    <3> QED BY <3>1, <3>2
  <2> HIDE DEF t, l
  <2>2. \A x : x \in Range(t) <=> \E i \in 1..l : x = t[i]
    BY <1>4 DEF Range
  <2>3. \A x : x \in Range(t) <=> \E i \in 1..l : x = a + i
    BY <1>4, <2>2
  <2>4. \A x : x \in Range(t) <=> x \in (a + 1)..b
    BY <2>1, <2>3
  <2> QED BY <2>4
<1> QED BY <1>5, <1>6

\* The edges listed for a resource are those that leave it, in order.
LEMMA OutEdgesAre ==
    ASSUME NEW d, Canonical(d), NEW id \in Nat
    PROVE  /\ StrictlyIncreasing(OutEdges(d, id))
           /\ Range(OutEdges(d, id)) = {e \in DOMAIN d.edges : d.edges[e].from = id}
<1> DEFINE R == d.resources
           E == d.edges
           A == Sources(R, E)
           n == Len(R)
           m == Len(E)
           C(i) == Cardinality(UpTo(A, m, i))
           f == Find(R, id)
<1>1. /\ R \in Seq(ResourceRecord) /\ IdsRise(R) /\ E \in Seq(ForwardingEdge) /\ Linked(R, E)
      /\ A \in [1..m -> 1..n] /\ Monotone(A, m) /\ \A e \in 1..m : R[A[e]].id = E[e].from
      /\ d.out = [k \in 1..m |-> k] /\ d.offset = [i \in 0..n |-> C(i)]
  BY CanonicalIndices
<1>2. OutEdges(d, id) = IF f = 0 THEN << >> ELSE SubSeq(d.out, d.offset[f - 1] + 1, d.offset[f])
  BY DEF OutEdges
<1>3. /\ \A i \in 1..n : R[i].id = id => f = i
      /\ f # 0 => f \in 1..n /\ R[f].id = id
  BY <1>1, Records, FindIs
<1>4. n \in Nat /\ m \in Nat /\ DOMAIN E = 1..m
  BY <1>1
<1>5. A \in [1..m -> Nat]
  <2>1. 1..n \subseteq Nat
    OBVIOUS
  <2> HIDE DEF A, m, n
  <2> QED BY <1>1, <2>1
<1> HIDE DEF R, E, A, n, m, f
<1>6. \A e \in 1..m : A[e] \in 1..n
  BY <1>1
<1>7. CASE f = 0
  <2>1. {e \in DOMAIN E : E[e].from = id} = {}
    <3> SUFFICES ASSUME NEW e \in 1..m, E[e].from = id PROVE FALSE
      BY <1>4
    <3>1. A[e] \in 1..n /\ R[A[e]].id = id
      BY <1>1, <1>6
    <3>2. f = A[e]
      BY <1>3, <3>1
    <3> QED BY <1>4, <1>7, <3>1, <3>2
  <2>2. OutEdges(d, id) = << >>
    BY <1>2, <1>7
  <2>3. StrictlyIncreasing(<< >>) /\ Range(<< >>) = {}
    BY DEF StrictlyIncreasing, Range
  <2> QED BY <2>1, <2>2, <2>3, Zenon DEF E
<1>8. CASE f # 0
  <2>1. f \in 1..n /\ R[f].id = id /\ f - 1 \in 0..n /\ f \in 0..n /\ f - 1 \in Nat /\ f \in Nat
    BY <1>3, <1>4, <1>8
  <2>2. d.offset[f - 1] = C(f - 1) /\ d.offset[f] = C(f)
    <3> HIDE DEF C
    <3> QED BY <1>1, <2>1
  <2>3. UpTo(A, m, f) = 1..C(f) /\ C(f) \in 0..m
    BY <1>1, <1>4, <1>5, <2>1, UpToIsPrefix
  <2>4. UpTo(A, m, f - 1) = 1..C(f - 1) /\ C(f - 1) \in 0..m
    BY <1>1, <1>4, <1>5, <2>1, UpToIsPrefix
  <2> DEFINE a == C(f - 1)
             b == C(f)
  <2>5. \A e \in 1..m : /\ A[e] <= f <=> e \in 1..b
                        /\ A[e] <= f - 1 <=> e \in 1..a
    BY <2>3, <2>4 DEF UpTo
  <2>6. a \in 0..m /\ b \in 0..m
    BY <2>3, <2>4
  <2>7. OutEdges(d, id) = SubSeq(d.out, a + 1, b)
    BY <1>2, <1>8, <2>2
  <2> HIDE DEF a, b, C
  <2>8. /\ StrictlyIncreasing(OutEdges(d, id))
        /\ Range(OutEdges(d, id)) = (a + 1)..b
    BY <1>1, <1>4, <2>6, <2>7, Stretch
  <2>9. \A e \in 1..m : E[e].from = id <=> A[e] = f
    <3> TAKE e \in 1..m
    <3>1. R[A[e]].id = E[e].from /\ A[e] \in 1..n
      BY <1>1, <1>6
    <3>2. R[A[e]].id = id => f = A[e]
      BY <1>3, <3>1
    <3> QED BY <2>1, <3>1, <3>2
  <2>10. \A e \in 1..m : A[e] = f <=> e \in (a + 1)..b
    <3> TAKE e \in 1..m
    <3>1. A[e] = f <=> A[e] <= f /\ ~ A[e] <= f - 1
      BY <1>4, <1>6, <2>1
    <3>2. (e \in 1..b /\ ~ e \in 1..a) <=> e \in (a + 1)..b
      BY <1>4, <2>6
    <3> QED BY <2>5, <3>1, <3>2
  <2>11. (a + 1)..b \subseteq 1..m
    BY <1>4, <2>6
  <2>12. (a + 1)..b = {e \in DOMAIN E : E[e].from = id}
    BY <1>4, <2>9, <2>10, <2>11
  <2> QED BY <2>8, <2>12 DEF E
<1> QED BY <1>7, <1>8

\* The search by identity names an edge of that identity, or there is none.
LEMMA EdgeIndexIs ==
    ASSUME NEW d, Canonical(d), NEW id \in Nat
    PROVE  LET named == {i \in DOMAIN d.edges : d.edges[i].id = id}
           IN  IF named = {} THEN EdgeIndex(d, id) = 0 ELSE EdgeIndex(d, id) \in named
<1> DEFINE E == d.edges
           m == Len(E)
           p == EdgesById(E)
           t == [k \in 1..m |-> E[p[k]]]
           low == LowerBound(t, id)
           named == {i \in DOMAIN E : E[i].id = id}
<1>1. E \in Seq(ForwardingEdge) /\ d.byId = p
  BY CanonicalIndices
<1>2. /\ p \in Permutation(m) /\ p \in Seq(Nat) /\ Len(p) = m
      /\ \A i, j \in 1..m : i < j => E[p[i]].id <= E[p[j]].id
  BY <1>1, Records, EdgesByIdIs
<1>3. m \in Nat /\ DOMAIN E = 1..m /\ \A i \in 1..m : E[i] \in ForwardingEdge /\ E[i].id \in Nat
  <2>1. \A x \in ForwardingEdge : x.id \in Nat
    BY DEF ForwardingEdge
  <2> QED BY <1>1, <2>1
<1>4. p \in [1..m -> 1..m] /\ \A i \in 1..m : \E j \in 1..m : p[j] = i
  BY <1>2 DEF Permutation
<1> HIDE DEF E, m, p
<1>5. \A k \in 1..m : p[k] \in 1..m /\ t[k] = E[p[k]]
  BY <1>4
<1>6. t \in Seq(ForwardingEdge) /\ Len(t) = m
  <2>1. t \in [1..m -> ForwardingEdge]
    BY <1>3, <1>5
  <2> QED BY <1>3, <2>1
<1>7. NonFalling(t)
  BY <1>2, <1>5, <1>6 DEF NonFalling
<1>8. {k \in DOMAIN d.byId : E[d.byId[k]].id < id} = {k \in DOMAIN t : t[k].id < id}
  <2>1. DOMAIN d.byId = 1..m /\ DOMAIN t = 1..m
    BY <1>1, <1>4
  <2> HIDE DEF t
  <2> QED BY <1>1, <1>5, <2>1
<1>9. Cardinality({k \in DOMAIN d.byId : d.edges[d.byId[k]].id < id}) + 1 = low
  BY <1>8 DEF LowerBound, E
<1> HIDE DEF t
<1>10. low \in 1..(m + 1) /\ \A i \in 1..m : i < low <=> t[i].id < id
  BY <1>6, <1>7, Records, LowerBoundIs
<1> HIDE DEF low
<1>11. EdgeIndex(d, id) = IF low <= m /\ E[p[low]].id = id THEN p[low] ELSE 0
  BY <1>1, <1>2, <1>9 DEF EdgeIndex, E
<1>12. CASE named = {}
  <2>1. ~ (low <= m /\ E[p[low]].id = id)
    BY <1>3, <1>5, <1>10, <1>12
  <2> QED BY <1>11, <1>12, <2>1 DEF E
<1>13. CASE named # {}
  <2>1. PICK i \in 1..m : E[i].id = id
    BY <1>3, <1>13
  <2>2. PICK k \in 1..m : p[k] = i
    BY <1>4
  <2>3. t[k].id = id /\ ~ k < low
    BY <1>5, <1>10, <2>1, <2>2
  <2>4. low \in 1..m /\ (low < k \/ low = k)
    BY <1>3, <1>10, <2>3
  <2>5. ~ t[low].id < id
    BY <1>3, <1>10, <2>4
  <2>6. t[low].id <= id
    BY <1>3, <1>6, <1>7, <2>3, <2>4 DEF NonFalling
  <2>7. p[low] \in 1..m /\ t[low] = E[p[low]]
    BY <1>5, <2>4
  <2>8. E[p[low]].id = id
    BY <1>3, <2>5, <2>6, <2>7
  <2>9. p[low] \in named
    BY <1>3, <2>7, <2>8
  <2>10. EdgeIndex(d, id) = p[low]
    BY <1>3, <1>11, <2>4, <2>8
  <2> QED BY <1>13, <2>9, <2>10 DEF E
<1> QED BY <1>12, <1>13

-----------------------------------------------------------------------------
(* Labels, payloads and text                                               *)

\* A label within the bound is not cut.
LEMMA BoundedIs ==
    ASSUME NEW label \in Label
    PROVE  /\ label.split <= MaxLabel => Bounded(label) \in Label
           /\ label.length <= MaxLabel => Bounded(label) = label
<1>1. /\ MaxLabel \in Nat /\ label.split \in Nat /\ label.length \in Nat /\ label.quote \in Nat
      /\ label.break \in Nat /\ label.form \in BOOLEAN
  BY LabelAssumption DEF Label
<1>2. label.length <= MaxLabel => Bounded(label) = label
  BY DEF Bounded
<1>3. ASSUME label.split <= MaxLabel, ~ label.length <= MaxLabel
      PROVE  Bounded(label) \in Label
  <2>1. MaxLabel - label.split \in Nat
    BY <1>1, <1>3
  <2> DEFINE cut == MaxLabel - label.split
             quote == IF label.quote > cut THEN 0 ELSE label.quote
             break == IF label.break > cut THEN 0 ELSE label.break
  <2>2. Bounded(label) = [length |-> cut + 3, split |-> 0, quote |-> quote,
                          break |-> break, form |-> label.form]
    BY <1>3 DEF Bounded
  <2>3. cut + 3 \in Nat /\ quote \in Nat /\ break \in Nat
    BY <1>1, <2>1
  <2> HIDE DEF cut, quote, break
  <2> QED BY <1>1, <2>2, <2>3 DEF Label
<1> QED BY <1>2, <1>3

\* A resource with its label cut to the bound still fits.
LEMMA LabelledResource ==
    ASSUME NEW r \in ResourceRecord
    PROVE  /\ r.label.split <= MaxLabel => Labelled(r) \in ResourceRecord
           /\ ResourceFits(r) => ResourceFits(Labelled(r))
           /\ r.label.length <= MaxLabel => Labelled(r) = r
<1>1. r.label \in Label
  BY DEF ResourceRecord
<1>2. PICK b : b = Bounded(r.label)
  OBVIOUS
<1>3. Labelled(r) = [r EXCEPT !.label = b]
  BY <1>2 DEF Labelled
<1>4. ResourceFits(r) => ResourceFits(Labelled(r))
  BY <1>3 DEF ResourceFits, ResourceRecord
<1>5. r.label.split <= MaxLabel => Labelled(r) \in ResourceRecord
  <2>1. b \in Label => [r EXCEPT !.label = b] \in ResourceRecord
    BY DEF ResourceRecord
  <2> QED BY <1>1, <1>2, <1>3, <2>1, BoundedIs
<1>6. r.label.length <= MaxLabel => Labelled(r) = r
  <2>1. b = r.label => [r EXCEPT !.label = b] = r
    BY DEF ResourceRecord
  <2> QED BY <1>1, <1>2, <1>3, <2>1, BoundedIs
<1> QED BY <1>4, <1>5, <1>6

\* A selector with its label cut to the bound still fits.
LEMMA LabelledSelector ==
    ASSUME NEW s \in TrafficSelector
    PROVE  /\ s.label.split <= MaxLabel => Labelled(s) \in TrafficSelector
           /\ SelectorFits(s) => SelectorFits(Labelled(s))
           /\ s.label.length <= MaxLabel => Labelled(s) = s
<1>1. s.label \in Label
  BY DEF TrafficSelector
<1>2. PICK b : b = Bounded(s.label)
  OBVIOUS
<1>3. Labelled(s) = [s EXCEPT !.label = b]
  BY <1>2 DEF Labelled
<1>4. SelectorFits(s) => SelectorFits(Labelled(s))
  BY <1>3 DEF SelectorFits, TrafficSelector
<1>5. s.label.split <= MaxLabel => Labelled(s) \in TrafficSelector
  <2>1. b \in Label => [s EXCEPT !.label = b] \in TrafficSelector
    BY DEF TrafficSelector
  <2> QED BY <1>1, <1>2, <1>3, <2>1, BoundedIs
<1>6. s.label.length <= MaxLabel => Labelled(s) = s
  <2>1. b = s.label => [s EXCEPT !.label = b] = s
    BY DEF TrafficSelector
  <2> QED BY <1>1, <1>2, <1>3, <2>1, BoundedIs
<1> QED BY <1>4, <1>5, <1>6

\* The labels depend on the set of records only.
LEMMA LabelsAre ==
    ASSUME NEW d
    PROVE  LabelsOf(d) = {r.label : r \in Range(d.resources) \cup Range(d.selectors)}
<1>1. /\ Range(d.resources) = {d.resources[i] : i \in DOMAIN d.resources}
      /\ Range(d.selectors) = {d.selectors[i] : i \in DOMAIN d.selectors}
  BY DEF Range
<1>2. LabelsOf(d) = {d.resources[i].label : i \in DOMAIN d.resources}
                       \cup {d.selectors[i].label : i \in DOMAIN d.selectors}
  BY DEF LabelsOf
<1> QED BY <1>1, <1>2

ShortLabels(d) == \A label \in LabelsOf(d) : label.length <= MaxLabel

\* What is sent has the records, and so the labels.
LEMMA ContentIs ==
    ASSUME NEW d
    PROVE  /\ Content(d).resources = d.resources /\ Content(d).selectors = d.selectors
           /\ Content(d).edges = d.edges
           /\ LabelsOf(Content(d)) = LabelsOf(d)
<1>1. /\ Content(d).resources = d.resources /\ Content(d).selectors = d.selectors
      /\ Content(d).edges = d.edges
  BY DEF Content
<1>2. LabelsOf(Content(d)) = LabelsOf(d)
  BY <1>1, Zenon DEF LabelsOf
<1> QED BY <1>1, <1>2

\* A reader that adds what a canonical definition holds builds that definition.
LEMMA RebuiltIs ==
    ASSUME NEW d, Canonical(d), ShortLabels(d)
    PROVE  Rebuilt(Content(d)) = d
<1> DEFINE R == d.resources
           S == d.selectors
           r == [i \in DOMAIN R |-> Labelled(R[i])]
           s == [i \in DOMAIN S |-> Labelled(S[i])]
<1>1. PICK c : c = Content(d)
  OBVIOUS
<1>2. /\ c = [resources |-> R, selectors |-> S, edges |-> d.edges]
      /\ c.resources = R /\ c.selectors = S /\ c.edges = d.edges
  BY <1>1 DEF Content
<1>3. Recorded(d) /\ Limited(d) /\ AllFit(d)
  BY DEF Canonical, Fitting
<1>4. Rebuilt(c) = Canonicalized([c EXCEPT !.resources = [i \in DOMAIN @ |-> Labelled(@[i])],
                                           !.selectors = [i \in DOMAIN @ |-> Labelled(@[i])]])
  <2>1. /\ Len(c.resources) <= MaxResources /\ Len(c.selectors) <= MaxSelectors
        /\ Len(c.edges) <= MaxEdges
        /\ \A i \in DOMAIN c.resources : ResourceFits(c.resources[i])
        /\ \A i \in DOMAIN c.selectors : SelectorFits(c.selectors[i])
        /\ \A i \in DOMAIN c.edges : EdgeFits(c.edges[i])
    BY <1>2, <1>3, Zenon DEF Limited, AllFit
  <2> QED BY <2>1, Zenon DEF Rebuilt
<1>5. r = R
  <2>1. R \in Seq(ResourceRecord)
    BY <1>3 DEF Recorded
  <2>2. \A i \in DOMAIN R : Labelled(R[i]) = R[i]
    <3> TAKE i \in DOMAIN R
    <3>1. R[i] \in ResourceRecord
      BY <2>1
    <3>2. R[i].label.length <= MaxLabel
      BY DEF ShortLabels, LabelsOf
    <3> QED BY <3>1, <3>2, LabelledResource
  <2> HIDE DEF R
  <2>3. R = [i \in DOMAIN R |-> R[i]]
    BY <2>1
  <2> QED BY <2>2, <2>3
<1>6. s = S
  <2>1. S \in Seq(TrafficSelector)
    BY <1>3 DEF Recorded
  <2>2. \A i \in DOMAIN S : Labelled(S[i]) = S[i]
    <3> TAKE i \in DOMAIN S
    <3>1. S[i] \in TrafficSelector
      BY <2>1
    <3>2. S[i].label.length <= MaxLabel
      BY DEF ShortLabels, LabelsOf
    <3> QED BY <3>1, <3>2, LabelledSelector
  <2> HIDE DEF S
  <2>3. S = [i \in DOMAIN S |-> S[i]]
    BY <2>1
  <2> QED BY <2>2, <2>3
<1> HIDE DEF r, s, R, S
<1>7. PICK x : x = [c EXCEPT !.resources = r, !.selectors = s]
  OBVIOUS
<1>8. x.resources = R /\ x.selectors = S /\ x.edges = d.edges
  BY <1>2, <1>5, <1>6, <1>7
<1>9. Rebuilt(c) = Canonicalized(x)
  BY <1>2, <1>4, <1>7, Zenon DEF r, s
<1>10. Canonicalized(x) = d
  BY <1>8, CanonicalStays DEF R, S
<1> QED BY <1>1, <1>9, <1>10

\* A payload reads back, and there is one if no label is over the bound.
LEMMA DecodedIs ==
    ASSUME NEW d, Canonical(d)
    PROVE  /\ Content(d) \in Payload
           /\ Encode(d) = IF ShortLabels(d) THEN Content(d) ELSE NoPayload
           /\ ShortLabels(d) => Decode(Content(d)) = d
<1>1. Content(d) \in Payload
  <2>1. Recorded(d)
    BY DEF Canonical, Fitting
  <2> QED BY <2>1 DEF Recorded, Content, Payload
<1>2. ASSUME NEW label \in LabelsOf(d) PROVE label.length \in Nat
  <2>1. \A x : (x \in ResourceRecord \/ x \in TrafficSelector) => x.label.length \in Nat
    BY DEF ResourceRecord, TrafficSelector, Label
  <2>2. d.resources \in Seq(ResourceRecord) /\ d.selectors \in Seq(TrafficSelector)
    BY DEF Canonical, Fitting, Recorded
  <2>3. \/ \E i \in DOMAIN d.resources : label = d.resources[i].label
        \/ \E i \in DOMAIN d.selectors : label = d.selectors[i].label
    BY DEF LabelsOf
  <2>4. /\ \A i \in DOMAIN d.resources : d.resources[i] \in ResourceRecord
        /\ \A i \in DOMAIN d.selectors : d.selectors[i] \in TrafficSelector
    BY <2>2
  <2> QED BY <2>1, <2>3, <2>4
<1>3. ShortLabels(d) <=> ~ \E label \in LabelsOf(d) : label.length > MaxLabel
  BY <1>2, LabelAssumption DEF ShortLabels
<1>4. Encode(d) = IF ShortLabels(d) THEN Content(d) ELSE NoPayload
  BY <1>3 DEF Encode
<1>5. ShortLabels(d) => Decode(Content(d)) = d
  <2> SUFFICES ASSUME ShortLabels(d) PROVE Decode(Content(d)) = d
    OBVIOUS
  <2>1. LabelsOf(Content(d)) = LabelsOf(d)
    BY ContentIs
  <2>2. ~ \E label \in LabelsOf(Content(d)) : label.length > MaxLabel
    BY <1>3, <2>1
  <2>3. Decode(Content(d)) = Rebuilt(Content(d))
    BY <2>2, Zenon DEF Decode
  <2> QED BY <2>3, RebuiltIs
<1> QED BY <1>1, <1>4, <1>5

\* What is read back of a label has no line break, and no quote but the one
\* that was before a break.
LEMMA LabelReadBack ==
    ASSUME NEW label \in Label
    PROVE  /\ ReadBack(label) \in Label
           /\ label.quote = 0 /\ label.break = 0 => ReadBack(label) = label
           /\ label.length <= MaxLabel =>
                /\ Bounded(ReadBack(label)) \in Label
                /\ Bounded(ReadBack(label)).break = 0
                /\ label.break = 0 => Bounded(ReadBack(label)).quote = 0
<1>1. /\ label.length \in Nat /\ label.split \in Nat /\ label.quote \in Nat
      /\ label.break \in Nat /\ MaxLabel \in Nat
  BY LabelAssumption DEF Label
<1>2. CASE label.quote = 0 /\ label.break = 0
  <2>1. ReadBack(label) = label
    BY <1>2 DEF ReadBack
  <2> QED BY <1>2, <2>1, BoundedIs
<1>3. CASE ~ (label.quote = 0 /\ label.break = 0)
  <2>1. PICK r : r = ReadBack(label)
    OBVIOUS
  <2>2. \/ /\ label.break = 0 \/ label.quote \in 1..label.break
           /\ r = [length |-> label.quote - 1, split |-> 0, quote |-> 0,
                   break |-> 0, form |-> FALSE]
        \/ /\ label.break # 0
           /\ r = [length |-> label.break, split |-> 0, quote |-> 1,
                   break |-> 0, form |-> FALSE]
    BY <1>3, <2>1 DEF ReadBack
  <2>3. label.break = 0 \/ label.quote \in 1..label.break => label.quote - 1 \in Nat
    BY <1>1, <1>3
  <2>4. r \in Label
    <3>1. CASE label.break = 0 \/ label.quote \in 1..label.break
      <4>1. PICK n \in Nat : n = label.quote - 1
        BY <2>3, <3>1
      <4>2. r = [length |-> n, split |-> 0, quote |-> 0, break |-> 0, form |-> FALSE]
        BY <2>1, <1>3, <3>1, <4>1 DEF ReadBack
      <4> QED BY <4>2 DEF Label
    <3>2. CASE ~ (label.break = 0 \/ label.quote \in 1..label.break)
      <4>1. r = [length |-> label.break, split |-> 0, quote |-> 1, break |-> 0, form |-> FALSE]
        BY <2>1, <1>3, <3>2 DEF ReadBack
      <4> QED BY <1>1, <4>1 DEF Label
    <3> QED BY <3>1, <3>2
  <2>5. r.split = 0 /\ r.break = 0 /\ (label.break = 0 => r.quote = 0)
    BY <2>2
  <2>6. Bounded(r) \in Label
    BY <1>1, <2>4, <2>5, BoundedIs
  <2>7. Bounded(r).break = 0 /\ (r.quote = 0 => Bounded(r).quote = 0)
    BY <2>5 DEF Bounded
  <2> QED BY <1>3, <2>1, <2>4, <2>5, <2>6, <2>7
<1> QED BY <1>2, <1>3

\* The selectors of an edge, in order, are read back as they are.
LEMMA EdgesReadBack ==
    ASSUME NEW E \in Seq(ForwardingEdge), \A i \in DOMAIN E : EdgeFits(E[i])
    PROVE  [i \in DOMAIN E |-> [E[i] EXCEPT !.selectors = Sorted(@, LessThan)]] = E
<1>1. \A i \in DOMAIN E : [E[i] EXCEPT !.selectors = Sorted(@, LessThan)] = E[i]
  <2> TAKE i \in DOMAIN E
  <2> DEFINE x == E[i]
  <2>1. x \in ForwardingEdge /\ EdgeFits(x)
    OBVIOUS
  <2> HIDE DEF x
  <2>2. x.selectors \in Seq(Nat) /\ StrictlyIncreasing(x.selectors)
    BY <2>1 DEF ForwardingEdge, EdgeFits
  <2>3. Sorted(x.selectors, LessThan) = x.selectors
    BY <2>2, SortedNumbers
  <2>4. [x EXCEPT !.selectors = x.selectors] = x
    BY <2>1 DEF ForwardingEdge
  <2>5. [x EXCEPT !.selectors = Sorted(@, LessThan)] = x
    BY <2>3, <2>4, Zenon
  <2> QED BY <2>5 DEF x
<1>2. E = [i \in DOMAIN E |-> E[i]]
  OBVIOUS
<1> QED BY <1>1, <1>2

\* The records a text of d gives, before their labels are cut.
ResourcesRead(d) == [i \in DOMAIN d.resources |-> [d.resources[i] EXCEPT !.label = ReadBack(@)]]
SelectorsRead(d) == [i \in DOMAIN d.selectors |-> [d.selectors[i] EXCEPT !.label = ReadBack(@)]]

WhatIsRead(d) == [resources |-> ResourcesRead(d), selectors |-> SelectorsRead(d), edges |-> d.edges]

\* A text is refused for a line that is not known, or gives those records.
LEMMA TextGives ==
    ASSUME NEW d, Canonical(d)
    PROVE  FromText(ToText(d)) = IF \E label \in LabelsOf(d) : label.break # 0 /\ ~ label.form
                                 THEN Refused ELSE Rebuilt(WhatIsRead(d))
<1>1. PICK c : c = ToText(d)
  OBVIOUS
<1>2. c.resources = d.resources /\ c.selectors = d.selectors /\ c.edges = d.edges
  BY <1>1 DEF ToText, Content
<1>3. LabelsOf(c) = LabelsOf(d)
  BY <1>2, Zenon DEF LabelsOf
<1>4. [i \in DOMAIN d.edges |-> [d.edges[i] EXCEPT !.selectors = Sorted(@, LessThan)]] = d.edges
  BY EdgesReadBack DEF Canonical, Fitting, Recorded, AllFit
<1>5. FromText(c) = IF \E label \in LabelsOf(d) : label.break # 0 /\ ~ label.form THEN Refused
                    ELSE Rebuilt([resources |-> ResourcesRead(d), selectors |-> SelectorsRead(d),
                                  edges |-> d.edges])
  BY <1>2, <1>3, <1>4, Zenon DEF FromText, ResourcesRead, SelectorsRead
<1> QED BY <1>1, <1>5, Zenon DEF WhatIsRead

\* The text reads back if no label is over the bound or has a quote or a line
\* break.
LEMMA TextIs ==
    ASSUME NEW d, Canonical(d), ShortLabels(d),
           \A label \in LabelsOf(d) : label.quote = 0 /\ label.break = 0
    PROVE  FromText(ToText(d)) = d
<1> DEFINE R == d.resources
           S == d.selectors
<1>1. Recorded(d)
  BY DEF Canonical, Fitting
<1>2. ResourcesRead(d) = R
  <2>1. R \in Seq(ResourceRecord)
    BY <1>1 DEF Recorded
  <2>2. \A i \in DOMAIN R : [R[i] EXCEPT !.label = ReadBack(@)] = R[i]
    <3> TAKE i \in DOMAIN R
    <3> DEFINE x == R[i]
    <3>1. x \in ResourceRecord
      BY <2>1
    <3>2. x.label.quote = 0 /\ x.label.break = 0
      BY DEF LabelsOf
    <3> HIDE DEF x
    <3>3. ReadBack(x.label) = x.label
      BY <3>2 DEF ReadBack
    <3>4. [x EXCEPT !.label = x.label] = x
      BY <3>1 DEF ResourceRecord
    <3>5. [x EXCEPT !.label = ReadBack(@)] = x
      BY <3>3, <3>4, Zenon
    <3> QED BY <3>5 DEF x
  <2>3. ResourcesRead(d) = [i \in DOMAIN R |-> [R[i] EXCEPT !.label = ReadBack(@)]]
    BY Zenon DEF ResourcesRead
  <2> HIDE DEF R
  <2>4. R = [i \in DOMAIN R |-> R[i]]
    BY <2>1
  <2> QED BY <2>2, <2>3, <2>4
<1>3. SelectorsRead(d) = S
  <2>1. S \in Seq(TrafficSelector)
    BY <1>1 DEF Recorded
  <2>2. \A i \in DOMAIN S : [S[i] EXCEPT !.label = ReadBack(@)] = S[i]
    <3> TAKE i \in DOMAIN S
    <3> DEFINE x == S[i]
    <3>1. x \in TrafficSelector
      BY <2>1
    <3>2. x.label.quote = 0 /\ x.label.break = 0
      BY DEF LabelsOf
    <3> HIDE DEF x
    <3>3. ReadBack(x.label) = x.label
      BY <3>2 DEF ReadBack
    <3>4. [x EXCEPT !.label = x.label] = x
      BY <3>1 DEF TrafficSelector
    <3>5. [x EXCEPT !.label = ReadBack(@)] = x
      BY <3>3, <3>4, Zenon
    <3> QED BY <3>5 DEF x
  <2>3. SelectorsRead(d) = [i \in DOMAIN S |-> [S[i] EXCEPT !.label = ReadBack(@)]]
    BY Zenon DEF SelectorsRead
  <2> HIDE DEF S
  <2>4. S = [i \in DOMAIN S |-> S[i]]
    BY <2>1
  <2> QED BY <2>2, <2>3, <2>4
<1>4. WhatIsRead(d) = Content(d)
  BY <1>2, <1>3, Zenon DEF WhatIsRead, Content
<1>5. ~ \E label \in LabelsOf(d) : label.break # 0 /\ ~ label.form
  OBVIOUS
<1>6. FromText(ToText(d)) = Rebuilt(Content(d))
  BY <1>4, <1>5, TextGives
<1> QED BY <1>6, RebuiltIs

\* Nothing that is read has a label with a line break, and without one in the
\* text none has a quote: a text with either does not read back.
LEMMA TextChanges ==
    ASSUME NEW d, Canonical(d), ShortLabels(d), FromText(ToText(d)) = d
    PROVE  \A label \in LabelsOf(d) : label.quote = 0 /\ label.break = 0
<1> DEFINE R == ResourcesRead(d)
           S == SelectorsRead(d)
           r == [i \in DOMAIN R |-> Labelled(R[i])]
           s == [i \in DOMAIN S |-> Labelled(S[i])]
           Becomes(label) == Bounded(ReadBack(label))
<1>1. Recorded(d) /\ Limited(d) /\ AllFit(d) /\ d # Refused
  BY AbsenceAssumption DEF Canonical, Fitting
<1>2. Rebuilt(WhatIsRead(d)) = d
  BY <1>1, TextGives
<1>3. PICK c : c = WhatIsRead(d)
  OBVIOUS
<1>4. c = [resources |-> R, selectors |-> S, edges |-> d.edges]
  BY <1>3, Zenon DEF WhatIsRead
<1>5. c.resources = R /\ c.selectors = S /\ c.edges = d.edges
  BY <1>4
<1>6. PICK x : x = [c EXCEPT !.resources = r, !.selectors = s]
  OBVIOUS
<1>7. /\ Canonicalized(x) = d
      /\ \A i \in DOMAIN R : ResourceFits(R[i])
      /\ \A i \in DOMAIN S : SelectorFits(S[i])
  <2>1. Rebuilt(c) = d
    BY <1>2, <1>3
  <2>2. Rebuilt(c) = IF /\ Len(R) <= MaxResources /\ Len(S) <= MaxSelectors
                        /\ Len(d.edges) <= MaxEdges
                        /\ \A i \in DOMAIN R : ResourceFits(R[i])
                        /\ \A i \in DOMAIN S : SelectorFits(S[i])
                        /\ \A i \in DOMAIN d.edges : EdgeFits(d.edges[i])
                     THEN Canonicalized([c EXCEPT
                             !.resources = [i \in DOMAIN @ |-> Labelled(@[i])],
                             !.selectors = [i \in DOMAIN @ |-> Labelled(@[i])]])
                     ELSE Refused
    BY <1>5, Zenon DEF Rebuilt
  <2>3. [c EXCEPT !.resources = [i \in DOMAIN @ |-> Labelled(@[i])],
                  !.selectors = [i \in DOMAIN @ |-> Labelled(@[i])]] = x
    <3> HIDE DEF R, S
    <3> QED BY <1>4, <1>5, <1>6
  <2> HIDE DEF R, S
  <2> QED BY <1>1, <2>1, <2>2, <2>3
<1>8. /\ r \in Seq(ResourceRecord) /\ Len(r) = Len(d.resources)
      /\ \A i \in DOMAIN d.resources : /\ r[i].label = Becomes(d.resources[i].label)
                                       /\ ResourceFits(r[i])
      /\ DOMAIN r = DOMAIN d.resources
  <2>1. d.resources \in Seq(ResourceRecord)
    BY <1>1 DEF Recorded
  <2>2. DOMAIN R = DOMAIN d.resources /\ DOMAIN r = DOMAIN d.resources
    BY DEF ResourcesRead
  <2>3. ASSUME NEW i \in DOMAIN d.resources
        PROVE  /\ r[i] \in ResourceRecord /\ r[i].label = Becomes(d.resources[i].label)
               /\ ResourceFits(r[i])
    <3> DEFINE y == d.resources[i]
               b == ReadBack(y.label)
    <3>1. y \in ResourceRecord /\ y.label.length <= MaxLabel
      BY <2>1 DEF ShortLabels, LabelsOf
    <3>2. R[i] = [y EXCEPT !.label = b]
      BY Zenon DEF ResourcesRead
    <3>3. ResourceFits(R[i])
      BY <1>7, <2>2
    <3> HIDE DEF y, R
    <3>4. y.label \in Label
      BY <3>1 DEF ResourceRecord
    <3>5. b \in Label /\ Bounded(b) \in Label
      BY <3>1, <3>4, LabelReadBack
    <3> HIDE DEF b
    <3>6. R[i] \in ResourceRecord /\ R[i].label = b
      BY <3>1, <3>2, <3>5 DEF ResourceRecord
    <3>7. r[i] = Labelled(R[i])
      BY <2>2
    <3>8. Labelled(R[i]) = [R[i] EXCEPT !.label = Bounded(b)]
      BY <3>6, Zenon DEF Labelled
    <3>9. r[i] \in ResourceRecord /\ r[i].label = Bounded(b)
      BY <3>5, <3>6, <3>7, <3>8 DEF ResourceRecord
    <3>10. ResourceFits(r[i])
      BY <3>3, <3>6, <3>7, LabelledResource
    <3> QED BY <3>9, <3>10 DEF b, y
  <2> HIDE DEF r, R
  <2>4. Len(d.resources) \in Nat /\ DOMAIN d.resources = 1..Len(d.resources)
    BY <2>1
  <2>5. r \in [1..Len(d.resources) -> ResourceRecord]
    <3>1. r = [i \in DOMAIN R |-> r[i]]
      BY DEF r
    <3> QED BY <2>2, <2>3, <2>4, <3>1
  <2>6. r \in Seq(ResourceRecord) /\ Len(r) = Len(d.resources)
    BY <2>4, <2>5
  <2> QED BY <2>2, <2>3, <2>6
<1>9. /\ s \in Seq(TrafficSelector) /\ Len(s) = Len(d.selectors)
      /\ \A i \in DOMAIN d.selectors : /\ s[i].label = Becomes(d.selectors[i].label)
                                       /\ SelectorFits(s[i])
      /\ DOMAIN s = DOMAIN d.selectors
  <2>1. d.selectors \in Seq(TrafficSelector)
    BY <1>1 DEF Recorded
  <2>2. DOMAIN S = DOMAIN d.selectors /\ DOMAIN s = DOMAIN d.selectors
    BY DEF SelectorsRead
  <2>3. ASSUME NEW i \in DOMAIN d.selectors
        PROVE  /\ s[i] \in TrafficSelector /\ s[i].label = Becomes(d.selectors[i].label)
               /\ SelectorFits(s[i])
    <3> DEFINE y == d.selectors[i]
               b == ReadBack(y.label)
    <3>1. y \in TrafficSelector /\ y.label.length <= MaxLabel
      BY <2>1 DEF ShortLabels, LabelsOf
    <3>2. S[i] = [y EXCEPT !.label = b]
      BY Zenon DEF SelectorsRead
    <3>3. SelectorFits(S[i])
      BY <1>7, <2>2
    <3> HIDE DEF y, S
    <3>4. y.label \in Label
      BY <3>1 DEF TrafficSelector
    <3>5. b \in Label /\ Bounded(b) \in Label
      BY <3>1, <3>4, LabelReadBack
    <3> HIDE DEF b
    <3>6. S[i] \in TrafficSelector /\ S[i].label = b
      BY <3>1, <3>2, <3>5 DEF TrafficSelector
    <3>7. s[i] = Labelled(S[i])
      BY <2>2
    <3>8. Labelled(S[i]) = [S[i] EXCEPT !.label = Bounded(b)]
      BY <3>6, Zenon DEF Labelled
    <3>9. s[i] \in TrafficSelector /\ s[i].label = Bounded(b)
      BY <3>5, <3>6, <3>7, <3>8 DEF TrafficSelector
    <3>10. SelectorFits(s[i])
      BY <3>3, <3>6, <3>7, LabelledSelector
    <3> QED BY <3>9, <3>10 DEF b, y
  <2> HIDE DEF s, S
  <2>4. Len(d.selectors) \in Nat /\ DOMAIN d.selectors = 1..Len(d.selectors)
    BY <2>1
  <2>5. s \in [1..Len(d.selectors) -> TrafficSelector]
    <3>1. s = [i \in DOMAIN S |-> s[i]]
      BY DEF s
    <3> QED BY <2>2, <2>3, <2>4, <3>1
  <2>6. s \in Seq(TrafficSelector) /\ Len(s) = Len(d.selectors)
    BY <2>4, <2>5
  <2> QED BY <2>2, <2>3, <2>6
<1> HIDE DEF r, s, R, S, Becomes
<1>10. x.resources = r /\ x.selectors = s /\ x.edges = d.edges
  BY <1>4, <1>6
<1>11. Fitting(x)
  <2>1. Recorded(x)
    BY <1>1, <1>8, <1>9, <1>10 DEF Recorded
  <2>2. Limited(x)
    BY <1>1, <1>8, <1>9, <1>10 DEF Limited
  <2>3. AllFit(x)
    BY <1>1, <1>8, <1>9, <1>10 DEF AllFit
  <2> QED BY <2>1, <2>2, <2>3 DEF Fitting
<1>12. LabelsOf(d) = LabelsOf(x)
  <2>1. Range(d.resources) = Range(x.resources) /\ Range(d.selectors) = Range(x.selectors)
    BY <1>1, <1>7, <1>11, CanonicalizedIs
  <2>2. LabelsOf(d) = {q.label : q \in Range(d.resources) \cup Range(d.selectors)}
    BY LabelsAre
  <2>3. LabelsOf(x) = {q.label : q \in Range(x.resources) \cup Range(x.selectors)}
    BY LabelsAre
  <2> QED BY <2>1, <2>2, <2>3, Zenon
<1>13. \A label \in LabelsOf(x) : \E old \in LabelsOf(d) : label = Becomes(old)
  <2> TAKE label \in LabelsOf(x)
  <2>1. \/ \E i \in DOMAIN r : label = r[i].label
        \/ \E i \in DOMAIN s : label = s[i].label
    BY <1>10 DEF LabelsOf
  <2>2. CASE \E i \in DOMAIN r : label = r[i].label
    BY <1>8, <2>2 DEF LabelsOf
  <2>3. CASE \E i \in DOMAIN s : label = s[i].label
    BY <1>9, <2>3 DEF LabelsOf
  <2> QED BY <2>1, <2>2, <2>3
<1>14. \A label \in LabelsOf(d) : label \in Label /\ label.length <= MaxLabel
  <2>1. \A y : (y \in ResourceRecord \/ y \in TrafficSelector) => y.label \in Label
    BY DEF ResourceRecord, TrafficSelector
  <2>2. d.resources \in Seq(ResourceRecord) /\ d.selectors \in Seq(TrafficSelector)
    BY <1>1 DEF Recorded
  <2>3. /\ \A i \in DOMAIN d.resources : d.resources[i] \in ResourceRecord
        /\ \A i \in DOMAIN d.selectors : d.selectors[i] \in TrafficSelector
    BY <2>2
  <2> QED BY <2>1, <2>3 DEF LabelsOf, ShortLabels
<1>15. \A label \in LabelsOf(d) : label.break = 0
  <2> TAKE label \in LabelsOf(d)
  <2>1. PICK old \in LabelsOf(d) : label = Becomes(old)
    BY <1>12, <1>13
  <2> QED BY <1>14, <2>1, LabelReadBack DEF Becomes
<1>16. \A label \in LabelsOf(d) : label.quote = 0
  <2> TAKE label \in LabelsOf(d)
  <2>1. PICK old \in LabelsOf(d) : label = Becomes(old)
    BY <1>12, <1>13
  <2> QED BY <1>14, <1>15, <2>1, LabelReadBack DEF Becomes
<1> QED BY <1>15, <1>16

-----------------------------------------------------------------------------
(* Replay                                                                  *)

Start == [topology |-> NoDefinition, policy |-> NoPolicy]

Read(acc, record) ==
    IF record.type = "topology" THEN [acc EXCEPT !.topology = DecodeRecord(record)]
    ELSE [acc EXCEPT !.policy = DecodeRecord(record)]

Replays(f, s, n) == f = [k \in 0..n |-> IF k = 0 THEN Start ELSE Read(f[k - 1], s[k])]

\* Reading one record more.
LEMMA ReplayNext ==
    ASSUME NEW f, NEW s, NEW t, NEW n \in Nat, Replays(f, s, n),
           \A k \in 1..n : t[k] = s[k]
    PROVE  \E g : Replays(g, t, n + 1) /\ g[n + 1] = Read(f[n], t[n + 1])
<1> DEFINE last == n + 1
           g == [k \in 0..last |-> IF k = last THEN Read(f[n], t[last]) ELSE f[k]]
<1>1. f = [k \in 0..n |-> IF k = 0 THEN Start ELSE Read(f[k - 1], s[k])]
  BY DEF Replays
<1>2. /\ last # 0 /\ last - 1 = n /\ 0 \in 0..last /\ 0 \in 0..n /\ last \in 0..last
      /\ n \in 0..last /\ n # last
      /\ \A k \in 0..last : k # last => k \in 0..n
      /\ \A k \in 0..n : k # 0 => k \in 1..n /\ k - 1 \in 0..last /\ k - 1 # last
  OBVIOUS
<1>3. last = n + 1
  OBVIOUS
<1> HIDE DEF last
<1>4. g[last] = Read(f[n], t[last]) /\ g[n] = f[n] /\ \A k \in 0..last : k # last => g[k] = f[k]
  BY <1>2
<1>5. \A k \in 0..last : g[k] = IF k = 0 THEN Start ELSE Read(g[k - 1], t[k])
  <2> TAKE k \in 0..last
  <2> HIDE DEF g
  <2>1. CASE k = last
    BY <1>2, <1>4, <2>1
  <2>2. CASE k # last /\ k = 0
    BY <1>1, <1>2, <1>4, <2>2
  <2>3. CASE k # last /\ k # 0
    <3>1. k \in 0..n /\ k \in 1..n /\ k - 1 \in 0..last /\ k - 1 # last
      BY <1>2, <2>3
    <3>2. g[k] = f[k] /\ g[k - 1] = f[k - 1] /\ t[k] = s[k]
      BY <1>4, <2>3, <3>1
    <3>3. f[k] = Read(f[k - 1], s[k])
      BY <1>1, <2>3, <3>1
    <3> QED BY <2>3, <3>2, <3>3
  <2> QED BY <2>1, <2>2, <2>3
<1>6. g = [k \in 0..last |-> g[k]]
  OBVIOUS
<1> HIDE DEF g
<1>7. g = [k \in 0..last |-> IF k = 0 THEN Start ELSE Read(g[k - 1], t[k])]
  BY <1>5, <1>6
<1>8. Replays(g, t, last)
  BY <1>7 DEF Replays
<1> QED BY <1>3, <1>4, <1>8, Zenon

\* Every list of records can be replayed.
LEMMA ReplayExists ==
    ASSUME NEW s, NEW n \in Nat
    PROVE  \E f : Replays(f, s, n)
<1> DEFINE K == {k \in Nat : \E f : Replays(f, s, k)}
<1>1. 0 \in K
  <2> DEFINE f == [k \in 0..0 |-> Start]
  <2>1. \A k \in 0..0 : k = 0
    OBVIOUS
  <2>2. f = [k \in 0..0 |-> IF k = 0 THEN Start ELSE Read(f[k - 1], s[k])]
    BY <2>1
  <2> HIDE DEF f
  <2>3. Replays(f, s, 0)
    BY <2>2 DEF Replays
  <2> QED BY <2>3
<1>2. ASSUME NEW k \in K PROVE k + 1 \in K
  <2>1. PICK f : Replays(f, s, k)
    OBVIOUS
  <2>2. \E g : Replays(g, s, k + 1)
    BY <2>1, ReplayNext
  <2> QED BY <2>2
<1>3. K = Nat
  <2> HIDE DEF K
  <2>1. K \subseteq Nat
    BY DEF K
  <2> QED BY <1>1, <1>2, <2>1, NaturalSet
<1> QED BY <1>3

\* In one way.
LEMMA ReplayUnique ==
    ASSUME NEW s, NEW n \in Nat, NEW f, NEW g, Replays(f, s, n), Replays(g, s, n)
    PROVE  f = g
<1> DEFINE K == {k \in Nat : k \in 0..n => f[k] = g[k]}
<1>1. /\ f = [k \in 0..n |-> IF k = 0 THEN Start ELSE Read(f[k - 1], s[k])]
      /\ g = [k \in 0..n |-> IF k = 0 THEN Start ELSE Read(g[k - 1], s[k])]
  BY DEF Replays
<1>2. 0 \in K
  <2>1. 0 \in 0..n
    OBVIOUS
  <2> QED BY <1>1, <2>1
<1>3. ASSUME NEW k \in K PROVE k + 1 \in K
  <2> SUFFICES ASSUME k + 1 \in 0..n PROVE f[k + 1] = g[k + 1]
    OBVIOUS
  <2>1. k \in 0..n /\ k + 1 # 0 /\ (k + 1) - 1 = k
    OBVIOUS
  <2>2. f[k] = g[k]
    BY <2>1
  <2>3. f[k + 1] = Read(f[(k + 1) - 1], s[k + 1]) /\ g[k + 1] = Read(g[(k + 1) - 1], s[k + 1])
    BY <1>1, <2>1
  <2> QED BY <2>1, <2>2, <2>3
<1>4. K = Nat
  <2> HIDE DEF K
  <2>1. K \subseteq Nat
    BY DEF K
  <2> QED BY <1>2, <1>3, <2>1, NaturalSet
<1>5. \A k \in 0..n : f[k] = g[k]
  BY <1>4
<1>6. f = [k \in 0..n |-> f[k]] /\ g = [k \in 0..n |-> g[k]]
  BY <1>1
<1> QED BY <1>5, <1>6

\* What a replay leaves is what it has after its last record.
LEMMA ReplayedIs ==
    ASSUME NEW X, NEW s \in Seq(X), NEW f, Replays(f, s, Len(s))
    PROVE  Replayed(s) = f[Len(s)]
<1> DEFINE n == Len(s)
           Is(g) == g = [k \in 0..n |-> IF k = 0 THEN Start ELSE Read(g[k - 1], s[k])]
<1>1. Replayed(s) = (CHOOSE g : Is(g))[n]
  BY DEF Replayed, Read, Start
<1>2. n \in Nat
  OBVIOUS
<1> HIDE DEF n
<1>3. \A g : Is(g) <=> Replays(g, s, n)
  BY DEF Replays
<1>4. Is(f)
  BY <1>3 DEF n
<1>5. \A g : Is(g) => g = f
  <2> SUFFICES ASSUME NEW g, Is(g) PROVE g = f
    OBVIOUS
  <2>1. Replays(g, s, n) /\ Replays(f, s, n)
    BY <1>3, <1>4
  <2> QED BY <1>2, <2>1, ReplayUnique
<1> HIDE DEF Is
<1>6. (CHOOSE g : Is(g)) = f
  BY <1>4, <1>5
<1> QED BY <1>1, <1>6 DEF n

\* Nothing is in force without a record.
LEMMA ReplayedEmpty == Replayed(<< >>) = Start
<1>1. << >> \in Seq({}) /\ Len(<< >>) = 0
  OBVIOUS
<1>2. PICK f : Replays(f, << >>, 0)
  BY ReplayExists
<1>3. Replayed(<< >>) = f[0]
  BY <1>1, <1>2, ReplayedIs
<1>4. f[0] = Start
  BY <1>2 DEF Replays
<1> QED BY <1>3, <1>4

\* A record more is read over what the earlier ones left.
LEMMA ReplayedAppend ==
    ASSUME NEW X, NEW s \in Seq(X), NEW r \in X
    PROVE  Replayed(Append(s, r)) = Read(Replayed(s), r)
<1> DEFINE n == Len(s)
           t == Append(s, r)
<1>1. n \in Nat /\ n = Len(s) /\ t \in Seq(X) /\ Len(t) = n + 1 /\ t[n + 1] = r
      /\ \A k \in 1..n : t[k] = s[k]
  OBVIOUS
<1> HIDE DEF n, t
<1>2. PICK f : Replays(f, s, n)
  BY <1>1, ReplayExists
<1>3. Replayed(s) = f[n]
  BY <1>1, <1>2, ReplayedIs
<1>4. PICK g : Replays(g, t, n + 1) /\ g[n + 1] = Read(f[n], t[n + 1])
  <2>1. /\ n \in Nat /\ Replays(f, s, n) /\ \A k \in 1..n : t[k] = s[k]
    BY <1>1, <1>2
  <2> QED BY <2>1, ReplayNext, Zenon
<1>5. Replayed(t) = g[n + 1]
  BY <1>1, <1>4, ReplayedIs
<1> QED BY <1>1, <1>3, <1>4, <1>5 DEF t

-----------------------------------------------------------------------------
(* The inductive invariant                                                 *)

Held == {PolicyRecord(p) : p \in ContainmentPolicy} \cup {TopologyRecord(q) : q \in Payload}

\* build returned what the builder's records canonicalize to.
DefinitionIsBuilt == definition # NoDefinition => definition = Canonicalized(builder)

\* What is installed is what was built, and it has a payload.
InstalledIsDefinition ==
    installed # NoDefinition =>
        /\ Built(definition) /\ installed = definition /\ Encode(definition) # NoPayload

\* A topology in the store is the one that is installed.
JournalIsOfDefinition ==
    /\ journal \in Seq(Held)
    /\ \A i \in DOMAIN journal : journal[i].type = "topology" =>
          installed # NoDefinition /\ journal[i].payload = Encode(definition)

\* What the store would read back is in force.
ReadsWhatIsInForce ==
    /\ DOMAIN Replayed(journal) = {"topology", "policy"}
    /\ open =>
          /\ Replayed(journal).topology = installed
          /\ Opens(journal) => Replayed(journal).policy = policy

IInv ==
    /\ builder \in Payload /\ Fitting(builder)
    /\ DefinitionIsBuilt /\ InstalledIsDefinition
    /\ JournalIsOfDefinition /\ ReadsWhatIsInForce

\* What is built is the acceptable set of records in canonical form.
LEMMA BuiltIsCanonical ==
    ASSUME NEW b, Fitting(b), NEW d, d = Canonicalized(b)
    PROVE  /\ d # NoDefinition
           /\ Built(d) <=> Acceptable(b)
           /\ Built(d) => /\ Canonical(d)
                          /\ Range(d.resources) = Range(b.resources)
                          /\ Range(d.selectors) = Range(b.selectors)
                          /\ Range(d.edges) = Range(b.edges)
                          /\ LabelsOf(d) = LabelsOf(b)
<1>1. \/ d = Refused /\ ~ Acceptable(b)
      \/ /\ Canonical(d) /\ Acceptable(b)
         /\ Range(d.resources) = Range(b.resources)
         /\ Range(d.selectors) = Range(b.selectors)
         /\ Range(d.edges) = Range(b.edges)
  BY CanonicalizedIs
<1>2. CASE d = Refused /\ ~ Acceptable(b)
  BY <1>2, AbsenceAssumption DEF Built
<1>3. CASE /\ Canonical(d) /\ Acceptable(b)
           /\ Range(d.resources) = Range(b.resources)
           /\ Range(d.selectors) = Range(b.selectors)
           /\ Range(d.edges) = Range(b.edges)
  <2>1. d \in TopologyDefinition
    BY <1>3 DEF Canonical
  <2>2. d # NoDefinition /\ d # Refused
    BY <2>1, AbsenceAssumption
  <2>3. Built(d)
    BY <2>2 DEF Built
  <2>4. LabelsOf(d) = {r.label : r \in Range(d.resources) \cup Range(d.selectors)}
    BY LabelsAre
  <2>5. LabelsOf(b) = {r.label : r \in Range(b.resources) \cup Range(b.selectors)}
    BY LabelsAre
  <2>6. LabelsOf(d) = LabelsOf(b)
    BY <1>3, <2>4, <2>5, Zenon
  <2> QED BY <1>3, <2>2, <2>3, <2>6
<1> QED BY <1>1, <1>2, <1>3

\* A payload of a canonical definition reads back as it.
LEMMA PayloadIs ==
    ASSUME NEW d, Canonical(d), Encode(d) # NoPayload
    PROVE  ShortLabels(d) /\ Encode(d) \in Payload /\ Decode(Encode(d)) = d
<1>1. /\ Content(d) \in Payload
      /\ Encode(d) = IF ShortLabels(d) THEN Content(d) ELSE NoPayload
      /\ ShortLabels(d) => Decode(Content(d)) = d
  BY DecodedIs
<1> QED BY <1>1

\* The records in the store and how each is read.
LEMMA HeldRecords ==
    /\ \A p \in ContainmentPolicy : /\ PolicyRecord(p) \in Held /\ PolicyRecord(p).type = "policy"
                         /\ PolicyRecord(p).payload = p
                         /\ DecodeRecord(PolicyRecord(p)) = DecodePolicy(p)
    /\ \A q \in Payload : /\ TopologyRecord(q) \in Held /\ TopologyRecord(q).type = "topology"
                          /\ TopologyRecord(q).payload = q
                          /\ DecodeRecord(TopologyRecord(q)) = Decode(q)
    /\ \A r \in Held : r.type \in {"topology", "policy"}
    /\ \A r \in Held : r.type = "policy" => r.payload \in ContainmentPolicy
<1>1. \A p \in ContainmentPolicy : /\ PolicyRecord(p) \in Held /\ PolicyRecord(p).type = "policy"
                        /\ PolicyRecord(p).payload = p
  BY DEF PolicyRecord, Held
<1>2. \A q \in Payload : /\ TopologyRecord(q) \in Held /\ TopologyRecord(q).type = "topology"
                         /\ TopologyRecord(q).payload = q
  BY DEF TopologyRecord, Held
<1>3. \A p \in ContainmentPolicy : DecodeRecord(PolicyRecord(p)) = DecodePolicy(p)
  BY DEF DecodeRecord, PolicyRecord
<1>4. \A q \in Payload : DecodeRecord(TopologyRecord(q)) = Decode(q)
  BY DEF DecodeRecord, TopologyRecord
<1>5. \A r \in Held : (\E p \in ContainmentPolicy : r = PolicyRecord(p)) \/ \E q \in Payload : r = TopologyRecord(q)
  BY DEF Held
<1>6. \A r \in Held : r.type \in {"topology", "policy"}
  BY <1>1, <1>2, <1>5
<1>7. \A r \in Held : r.type = "policy" => r.payload \in ContainmentPolicy
  BY <1>1, <1>2, <1>5
<1> QED BY <1>1, <1>2, <1>3, <1>4, <1>6, <1>7, Zenon

\* A document that opens would have opened without its last record.
LEMMA OpensShorter ==
    ASSUME NEW X, NEW s \in Seq(X), NEW r \in X, Opens(Append(s, r))
    PROVE  Opens(s) /\ DecodeRecord(r) # Refused
<1> DEFINE n == Len(s)
           t == Append(s, r)
<1>1. /\ n \in Nat /\ DOMAIN s = 1..n /\ DOMAIN t = 1..(n + 1) /\ t[n + 1] = r
      /\ \A k \in 1..n : t[k] = s[k] /\ k \in DOMAIN t
      /\ n + 1 \in DOMAIN t
  OBVIOUS
<1>2. \A k \in DOMAIN t : DecodeRecord(t[k]) # Refused
  BY DEF Opens
<1> HIDE DEF n, t
<1>3. \A k \in DOMAIN s : DecodeRecord(s[k]) # Refused
  <2> TAKE k \in DOMAIN s
  <2>1. k \in DOMAIN t /\ t[k] = s[k]
    BY <1>1
  <2> QED BY <1>2, <2>1
<1>4. DecodeRecord(r) # Refused
  BY <1>1, <1>2
<1> QED BY <1>3, <1>4 DEF Opens

\* The invariant holds at the start.
LEMMA InitFits == Init => IInv
<1> SUFFICES ASSUME Init PROVE IInv
  OBVIOUS
<1>1. Fitting(builder)
  <2>1. /\ builder.resources = << >> /\ builder.selectors = << >> /\ builder.edges = << >>
    BY DEF Init
  <2>2. << >> \in Seq(ResourceRecord) /\ << >> \in Seq(TrafficSelector) /\ << >> \in Seq(ForwardingEdge)
    OBVIOUS
  <2>3. Len(<< >>) = 0 /\ DOMAIN << >> = {}
    OBVIOUS
  <2>4. Recorded(builder)
    BY <2>1, <2>2 DEF Recorded
  <2>5. Limited(builder)
    BY <2>1, <2>3, LimitAssumption DEF Limited
  <2>6. AllFit(builder)
    BY <2>1, <2>3 DEF AllFit
  <2> QED BY <2>4, <2>5, <2>6 DEF Fitting
<1>2. journal = << >> /\ installed = NoDefinition /\ definition = NoDefinition /\ policy = NoPolicy
  BY DEF Init
<1>3. DefinitionIsBuilt /\ InstalledIsDefinition
  BY <1>2 DEF DefinitionIsBuilt, InstalledIsDefinition
<1>4. JournalIsOfDefinition
  <2>1. << >> \in Seq(Held) /\ DOMAIN << >> = {}
    OBVIOUS
  <2> QED BY <1>2, <2>1 DEF JournalIsOfDefinition
<1>5. ReadsWhatIsInForce
  <2>1. Replayed(journal) = Start
    BY <1>2, ReplayedEmpty
  <2> QED BY <1>2, <2>1 DEF ReadsWhatIsInForce, Start
<1>6. builder \in Payload
  BY DEF Init, Payload
<1> QED BY <1>1, <1>3, <1>4, <1>5, <1>6 DEF IInv

\* An element more is the new one or one from before.
LEMMA AppendFits ==
    ASSUME NEW X, NEW s \in Seq(X), NEW r \in X
    PROVE  /\ Append(s, r) \in Seq(X) /\ Len(Append(s, r)) = Len(s) + 1
           /\ \A i \in DOMAIN Append(s, r) : Append(s, r)[i] = r \/
                 \E j \in DOMAIN s : Append(s, r)[i] = s[j]
<1> DEFINE n == Len(s)
           t == Append(s, r)
<1>1. n \in Nat /\ DOMAIN s = 1..n /\ DOMAIN t = 1..(n + 1) /\ t[n + 1] = r
  OBVIOUS
<1>2. \A k \in 1..n : t[k] = s[k]
  OBVIOUS
<1> HIDE DEF t
<1>3. \A i \in DOMAIN t : t[i] = r \/ \E j \in DOMAIN s : t[i] = s[j]
  <2> TAKE i \in DOMAIN t
  <2>1. i = n + 1 \/ i \in DOMAIN s
    BY <1>1
  <2> QED BY <1>1, <1>2, <2>1
<1> QED BY <1>3 DEF t

\* Adding a record to the builder leaves everything else alone.
LEMMA BuilderGrows ==
    ASSUME IInv, definition = NoDefinition, builder' \in Payload, Fitting(builder'),
           UNCHANGED <<definition, installed, policy, journal, open>>
    PROVE  IInv'
<1>1. /\ definition' = definition /\ installed' = installed /\ policy' = policy
      /\ journal' = journal /\ open' = open
  OBVIOUS
<1>2. DefinitionIsBuilt'
  BY <1>1 DEF DefinitionIsBuilt
<1>3. InstalledIsDefinition'
  BY <1>1 DEF IInv, InstalledIsDefinition
<1>4. JournalIsOfDefinition'
  BY <1>1 DEF IInv, JournalIsOfDefinition
<1>5. ReadsWhatIsInForce'
  BY <1>1 DEF IInv, ReadsWhatIsInForce
<1> QED BY <1>2, <1>3, <1>4, <1>5 DEF IInv

\* A resource that fits may be added while there is room.
LEMMA ResourceAdded ==
    ASSUME NEW b \in Payload, Fitting(b), NEW x \in ResourceRecord, ResourceFits(x),
           Len(b.resources) < MaxResources,
           NEW c, c = [b EXCEPT !.resources = Append(@, x)]
    PROVE  c \in Payload /\ Fitting(c)
<1> DEFINE s == b.resources
           t == Append(s, x)
<1>1. s \in Seq(ResourceRecord) /\ c.resources = t /\ c.selectors = b.selectors /\ c.edges = b.edges
      /\ c = [resources |-> t, selectors |-> b.selectors, edges |-> b.edges]
  BY DEF Payload
<1>2. Recorded(b) /\ Limited(b) /\ AllFit(b)
  BY DEF Fitting
<1>3. Len(s) < MaxResources /\ Len(s) \in Nat /\ MaxResources \in Nat
  BY <1>1, LimitAssumption
<1> HIDE DEF s, t
<1>4. t \in Seq(ResourceRecord) /\ Len(t) = Len(s) + 1
      /\ \A i \in DOMAIN t : t[i] = x \/ \E j \in DOMAIN s : t[i] = s[j]
  BY <1>1, AppendFits DEF t
<1>5. Recorded(c)
  BY <1>1, <1>2, <1>4 DEF Recorded
<1>6. Limited(c)
  BY <1>1, <1>2, <1>3, <1>4 DEF Limited
<1>7. AllFit(c)
  <2>1. \A i \in DOMAIN s : ResourceFits(s[i])
    BY <1>2 DEF AllFit, s
  <2>2. \A i \in DOMAIN t : ResourceFits(t[i])
    BY <1>4, <2>1
  <2> QED BY <1>1, <1>2, <2>2, Zenon DEF AllFit
<1>8. c \in Payload
  BY <1>1, <1>4 DEF Payload
<1> QED BY <1>5, <1>6, <1>7, <1>8 DEF Fitting

\* A selector that fits may be added while there is room.
LEMMA SelectorAdded ==
    ASSUME NEW b \in Payload, Fitting(b), NEW x \in TrafficSelector, SelectorFits(x),
           Len(b.selectors) < MaxSelectors,
           NEW c, c = [b EXCEPT !.selectors = Append(@, x)]
    PROVE  c \in Payload /\ Fitting(c)
<1> DEFINE s == b.selectors
           t == Append(s, x)
<1>1. s \in Seq(TrafficSelector) /\ c.resources = b.resources /\ c.selectors = t /\ c.edges = b.edges
      /\ c = [resources |-> b.resources, selectors |-> t, edges |-> b.edges]
  BY DEF Payload
<1>2. Recorded(b) /\ Limited(b) /\ AllFit(b)
  BY DEF Fitting
<1>3. Len(s) < MaxSelectors /\ Len(s) \in Nat /\ MaxSelectors \in Nat
  BY <1>1, LimitAssumption
<1> HIDE DEF s, t
<1>4. t \in Seq(TrafficSelector) /\ Len(t) = Len(s) + 1
      /\ \A i \in DOMAIN t : t[i] = x \/ \E j \in DOMAIN s : t[i] = s[j]
  BY <1>1, AppendFits DEF t
<1>5. Recorded(c)
  BY <1>1, <1>2, <1>4 DEF Recorded
<1>6. Limited(c)
  BY <1>1, <1>2, <1>3, <1>4 DEF Limited
<1>7. AllFit(c)
  <2>1. \A i \in DOMAIN s : SelectorFits(s[i])
    BY <1>2 DEF AllFit, s
  <2>2. \A i \in DOMAIN t : SelectorFits(t[i])
    BY <1>4, <2>1
  <2> QED BY <1>1, <1>2, <2>2, Zenon DEF AllFit
<1>8. c \in Payload
  BY <1>1, <1>4 DEF Payload
<1> QED BY <1>5, <1>6, <1>7, <1>8 DEF Fitting

\* An edge that fits may be added while there is room.
LEMMA EdgeAdded ==
    ASSUME NEW b \in Payload, Fitting(b), NEW x \in ForwardingEdge, EdgeFits(x),
           Len(b.edges) < MaxEdges,
           NEW c, c = [b EXCEPT !.edges = Append(@, x)]
    PROVE  c \in Payload /\ Fitting(c)
<1> DEFINE s == b.edges
           t == Append(s, x)
<1>1. s \in Seq(ForwardingEdge) /\ c.resources = b.resources /\ c.selectors = b.selectors /\ c.edges = t
      /\ c = [resources |-> b.resources, selectors |-> b.selectors, edges |-> t]
  BY DEF Payload
<1>2. Recorded(b) /\ Limited(b) /\ AllFit(b)
  BY DEF Fitting
<1>3. Len(s) < MaxEdges /\ Len(s) \in Nat /\ MaxEdges \in Nat
  BY <1>1, LimitAssumption
<1> HIDE DEF s, t
<1>4. t \in Seq(ForwardingEdge) /\ Len(t) = Len(s) + 1
      /\ \A i \in DOMAIN t : t[i] = x \/ \E j \in DOMAIN s : t[i] = s[j]
  BY <1>1, AppendFits DEF t
<1>5. Recorded(c)
  BY <1>1, <1>2, <1>4 DEF Recorded
<1>6. Limited(c)
  BY <1>1, <1>2, <1>3, <1>4 DEF Limited
<1>7. AllFit(c)
  <2>1. \A i \in DOMAIN s : EdgeFits(s[i])
    BY <1>2 DEF AllFit, s
  <2>2. \A i \in DOMAIN t : EdgeFits(t[i])
    BY <1>4, <2>1
  <2> QED BY <1>1, <1>2, <2>2, Zenon DEF AllFit
<1>8. c \in Payload
  BY <1>1, <1>4 DEF Payload
<1> QED BY <1>5, <1>6, <1>7, <1>8 DEF Fitting

\* The invariant survives add_resource.
LEMMA AddResourceFits ==
    ASSUME IInv, NEW r \in Resources, AddResource(r)
    PROVE  IInv'
<1>1. /\ definition = NoDefinition /\ ResourceFits(r)
      /\ Len(builder.resources) < MaxResources
      /\ builder' = [builder EXCEPT !.resources = Append(@, Labelled(r))]
      /\ UNCHANGED <<definition, installed, policy, journal, open>>
  BY DEF AddResource
<1>2. Labelled(r) \in ResourceRecord /\ ResourceFits(Labelled(r))
  <2>1. r \in ResourceRecord /\ r.label.split <= MaxLabel
    BY RecordAssumption, LabelAssumption
  <2> QED BY <1>1, <2>1, LabelledResource
<1>3. builder \in Payload /\ Fitting(builder)
  BY DEF IInv
<1>4. builder' \in Payload /\ Fitting(builder')
  BY <1>1, <1>2, <1>3, ResourceAdded
<1> QED BY <1>1, <1>4, BuilderGrows

\* The invariant survives add_selector.
LEMMA AddSelectorFits ==
    ASSUME IInv, NEW s \in Selectors, AddSelector(s)
    PROVE  IInv'
<1>1. /\ definition = NoDefinition /\ SelectorFits(s)
      /\ Len(builder.selectors) < MaxSelectors
      /\ builder' = [builder EXCEPT !.selectors = Append(@, Labelled(s))]
      /\ UNCHANGED <<definition, installed, policy, journal, open>>
  BY DEF AddSelector
<1>2. Labelled(s) \in TrafficSelector /\ SelectorFits(Labelled(s))
  <2>1. s \in TrafficSelector /\ s.label.split <= MaxLabel
    BY RecordAssumption, LabelAssumption
  <2> QED BY <1>1, <2>1, LabelledSelector
<1>3. builder \in Payload /\ Fitting(builder)
  BY DEF IInv
<1>4. builder' \in Payload /\ Fitting(builder')
  BY <1>1, <1>2, <1>3, SelectorAdded
<1> QED BY <1>1, <1>4, BuilderGrows

\* The invariant survives add_edge.
LEMMA AddEdgeFits ==
    ASSUME IInv, NEW e \in Edges, AddEdge(e)
    PROVE  IInv'
<1>1. /\ definition = NoDefinition /\ EdgeFits(e)
      /\ Len(builder.edges) < MaxEdges
      /\ builder' = [builder EXCEPT !.edges = Append(@, e)]
      /\ UNCHANGED <<definition, installed, policy, journal, open>>
  BY DEF AddEdge
<1>2. e \in ForwardingEdge /\ builder \in Payload /\ Fitting(builder)
  BY RecordAssumption DEF IInv
<1>3. builder' \in Payload /\ Fitting(builder')
  BY <1>1, <1>2, EdgeAdded
<1> QED BY <1>1, <1>3, BuilderGrows

\* The invariant survives build: nothing was installed before.
LEMMA BuildFits ==
    ASSUME IInv, Build
    PROVE  IInv'
<1>1. /\ definition = NoDefinition /\ definition' = Canonicalized(builder)
      /\ builder' = builder /\ installed' = installed /\ policy' = policy
      /\ journal' = journal /\ open' = open
  BY DEF Build
<1>2. installed = NoDefinition
  BY <1>1 DEF IInv, InstalledIsDefinition, Built
<1>3. DefinitionIsBuilt'
  BY <1>1 DEF DefinitionIsBuilt
<1>4. InstalledIsDefinition'
  BY <1>1, <1>2 DEF InstalledIsDefinition
<1>5. JournalIsOfDefinition'
  BY <1>1, <1>2 DEF IInv, JournalIsOfDefinition
<1>6. ReadsWhatIsInForce'
  BY <1>1 DEF IInv, ReadsWhatIsInForce
<1> QED BY <1>1, <1>3, <1>4, <1>5, <1>6 DEF IInv

\* What was built is canonical, and building it again changes nothing.
LEMMA DefinitionIsCanonical ==
    ASSUME IInv, Built(definition)
    PROVE  Canonical(definition) /\ Canonicalized(definition) = definition
<1>1. Fitting(builder) /\ definition = Canonicalized(builder)
  BY DEF IInv, DefinitionIsBuilt, Built
<1>2. Canonical(definition)
  BY <1>1, BuiltIsCanonical
<1> QED BY <1>2, CanonicalStays

\* The invariant survives set_topology: what is written reads back.
LEMMA SetTopologyFits ==
    ASSUME IInv, SetTopology
    PROVE  IInv'
<1>1. /\ open /\ Built(definition) /\ installed = NoDefinition
      /\ Encode(Canonicalized(definition)) # NoPayload
      /\ journal' = Append(journal, TopologyRecord(Encode(Canonicalized(definition))))
      /\ installed' = Canonicalized(definition)
      /\ builder' = builder /\ definition' = definition /\ policy' = policy /\ open' = open
  BY DEF SetTopology
<1>2. Canonical(definition) /\ Canonicalized(definition) = definition
  BY <1>1, DefinitionIsCanonical
<1>3. PICK q : q = Encode(definition)
  OBVIOUS
<1>4. q # NoPayload /\ journal' = Append(journal, TopologyRecord(q)) /\ installed' = definition
  BY <1>1, <1>2, <1>3, Zenon
<1>5. q \in Payload /\ Decode(q) = definition
  BY <1>2, <1>3, <1>4, PayloadIs
<1>6. PICK r : r = TopologyRecord(q)
  OBVIOUS
<1>7. r \in Held /\ r.type = "topology" /\ r.payload = q /\ DecodeRecord(r) = definition
  BY <1>5, <1>6, HeldRecords
<1>8. journal \in Seq(Held)
  BY DEF IInv, JournalIsOfDefinition
<1>9. journal' = Append(journal, r)
  BY <1>4, <1>6
<1>10. definition # NoDefinition
  BY <1>1 DEF Built
<1>11. DefinitionIsBuilt'
  BY <1>1 DEF IInv, DefinitionIsBuilt
<1>12. InstalledIsDefinition'
  BY <1>1, <1>3, <1>4 DEF InstalledIsDefinition
<1>13. JournalIsOfDefinition'
  <2>1. /\ Append(journal, r) \in Seq(Held)
        /\ \A i \in DOMAIN Append(journal, r) :
              Append(journal, r)[i] = r \/ \E j \in DOMAIN journal : Append(journal, r)[i] = journal[j]
    BY <1>7, <1>8, AppendFits
  <2>2. \A j \in DOMAIN journal : journal[j].type # "topology"
    BY <1>1 DEF IInv, JournalIsOfDefinition
  <2> SUFFICES ASSUME NEW i \in DOMAIN journal', journal'[i].type = "topology"
               PROVE  installed' # NoDefinition /\ journal'[i].payload = Encode(definition)
    BY <1>1, <1>9, <2>1 DEF JournalIsOfDefinition
  <2>3. journal'[i] = r
    BY <1>9, <2>1, <2>2
  <2> QED BY <1>3, <1>4, <1>7, <1>10, <2>3
<1>14. ReadsWhatIsInForce'
  <2>1. Replayed(journal') = Read(Replayed(journal), r)
    BY <1>7, <1>8, <1>9, ReplayedAppend
  <2>2. PICK acc : acc = Replayed(journal)
    OBVIOUS
  <2>3. Replayed(journal') = [acc EXCEPT !.topology = definition]
    BY <1>7, <2>1, <2>2, Zenon DEF Read
  <2>4. DOMAIN acc = {"topology", "policy"} /\ (Opens(journal) => acc.policy = policy)
    BY <1>1, <2>2 DEF IInv, ReadsWhatIsInForce
  <2>5. /\ DOMAIN Replayed(journal') = {"topology", "policy"}
        /\ Replayed(journal').topology = definition
        /\ Replayed(journal').policy = acc.policy
    BY <2>3, <2>4
  <2>6. Opens(journal') => Opens(journal)
    BY <1>7, <1>8, <1>9, OpensShorter
  <2> QED BY <1>1, <1>4, <2>4, <2>5, <2>6 DEF ReadsWhatIsInForce
<1> QED BY <1>1, <1>11, <1>12, <1>13, <1>14 DEF IInv

\* The invariant survives set_policy, in order or not.
LEMMA SetPolicyFits ==
    ASSUME IInv, NEW p \in Policies, SetPolicy(p)
    PROVE  IInv'
<1>1. /\ open /\ journal' = Append(journal, PolicyRecord(p)) /\ policy' = p
      /\ builder' = builder /\ definition' = definition /\ installed' = installed
      /\ open' = open
  BY DEF SetPolicy
<1>2. PICK r : r = PolicyRecord(p)
  OBVIOUS
<1>3. p \in ContainmentPolicy
  BY RecordAssumption
<1>4. r \in Held /\ r.type = "policy" /\ DecodeRecord(r) = DecodePolicy(p)
  BY <1>2, <1>3, HeldRecords
<1>5. journal \in Seq(Held) /\ journal' = Append(journal, r)
  BY <1>1, <1>2 DEF IInv, JournalIsOfDefinition
<1>6. DefinitionIsBuilt'
  BY <1>1 DEF IInv, DefinitionIsBuilt
<1>7. InstalledIsDefinition'
  BY <1>1 DEF IInv, InstalledIsDefinition
<1>8. JournalIsOfDefinition'
  <2>1. /\ Append(journal, r) \in Seq(Held)
        /\ \A i \in DOMAIN Append(journal, r) :
              Append(journal, r)[i] = r \/ \E j \in DOMAIN journal : Append(journal, r)[i] = journal[j]
    BY <1>4, <1>5, AppendFits
  <2>2. \A j \in DOMAIN journal : journal[j].type = "topology" =>
           installed # NoDefinition /\ journal[j].payload = Encode(definition)
    BY DEF IInv, JournalIsOfDefinition
  <2> SUFFICES ASSUME NEW i \in DOMAIN journal', journal'[i].type = "topology"
               PROVE  installed # NoDefinition /\ journal'[i].payload = Encode(definition)
    BY <1>1, <1>5, <2>1 DEF JournalIsOfDefinition
  <2>3. PICK j \in DOMAIN journal : journal'[i] = journal[j]
    BY <1>4, <1>5, <2>1
  <2> QED BY <2>2, <2>3
<1>9. ReadsWhatIsInForce'
  <2>1. Replayed(journal') = Read(Replayed(journal), r)
    BY <1>4, <1>5, ReplayedAppend
  <2>2. PICK acc : acc = Replayed(journal)
    OBVIOUS
  <2>3. PICK x : x = DecodePolicy(p)
    OBVIOUS
  <2>4. Replayed(journal') = [acc EXCEPT !.policy = x]
    BY <1>4, <2>1, <2>2, <2>3 DEF Read
  <2>5. DOMAIN acc = {"topology", "policy"} /\ acc.topology = installed
    BY <1>1, <2>2 DEF IInv, ReadsWhatIsInForce
  <2>6. /\ DOMAIN Replayed(journal') = {"topology", "policy"}
        /\ Replayed(journal').topology = installed
        /\ Replayed(journal').policy = x
    BY <2>4, <2>5
  <2>7. Opens(journal') => x # Refused
    BY <1>4, <1>5, <2>3, OpensShorter
  <2>8. x # Refused => x = p
    BY <2>3 DEF DecodePolicy
  <2> QED BY <1>1, <2>6, <2>7, <2>8 DEF ReadsWhatIsInForce
<1> QED BY <1>1, <1>6, <1>7, <1>8, <1>9 DEF IInv

\* The invariant survives a restart, which changes nothing or ends all.
LEMMA RestartFits ==
    ASSUME IInv, Restart
    PROVE  IInv'
<1>1. builder' = builder /\ definition' = definition /\ journal' = journal
  BY DEF Restart
<1>2. installed' = installed
  BY DEF Restart, IInv, ReadsWhatIsInForce
<1>3. Opens(journal) => policy' = policy
  BY DEF Restart, IInv, ReadsWhatIsInForce
<1>4. open' => open
  BY DEF Restart
<1>5. DefinitionIsBuilt'
  BY <1>1 DEF IInv, DefinitionIsBuilt
<1>6. InstalledIsDefinition'
  BY <1>1, <1>2 DEF IInv, InstalledIsDefinition
<1>7. JournalIsOfDefinition'
  BY <1>1, <1>2 DEF IInv, JournalIsOfDefinition
<1>8. ReadsWhatIsInForce'
  BY <1>1, <1>2, <1>3, <1>4 DEF IInv, ReadsWhatIsInForce
<1> QED BY <1>1, <1>5, <1>6, <1>7, <1>8 DEF IInv

\* The invariant is inductive.
LEMMA NextFits == IInv /\ [Next]_vars => IInv'
<1> SUFFICES ASSUME IInv, [Next]_vars PROVE IInv'
  OBVIOUS
<1>1. CASE \E r \in Resources : AddResource(r)
  BY <1>1, AddResourceFits
<1>2. CASE \E s \in Selectors : AddSelector(s)
  BY <1>2, AddSelectorFits
<1>3. CASE \E e \in Edges : AddEdge(e)
  BY <1>3, AddEdgeFits
<1>4. CASE Build
  BY <1>4, BuildFits
<1>5. CASE SetTopology
  BY <1>5, SetTopologyFits
<1>6. CASE \E p \in Policies : SetPolicy(p)
  BY <1>6, SetPolicyFits
<1>7. CASE Restart
  BY <1>7, RestartFits
<1>8. CASE UNCHANGED vars
  BY <1>8 DEF vars, IInv, DefinitionIsBuilt, InstalledIsDefinition, JournalIsOfDefinition,
              ReadsWhatIsInForce
<1> QED BY <1>1, <1>2, <1>3, <1>4, <1>5, <1>6, <1>7, <1>8 DEF Next

-----------------------------------------------------------------------------
(* The theorems                                                            *)

\* Whatever records are added, and in whatever order, what is built, installed
\* and stored stays one definition.
THEOREM DefinitionInvariant == Spec => []IInv
BY InitFits, NextFits, PTL DEF Spec

\* The invariant says what is canonical.
LEMMA CanonicalHolds ==
    ASSUME IInv
    PROVE  CanonicalIsOfTheSet
<1> SUFFICES ASSUME definition # NoDefinition
             PROVE  CanonicalIsOfTheSet
  BY DEF CanonicalIsOfTheSet
<1>1. Fitting(builder) /\ definition = Canonicalized(builder)
  BY DEF IInv, DefinitionIsBuilt
<1>2. /\ Built(definition) <=> Acceptable(builder)
      /\ Built(definition) => /\ Canonical(definition)
                              /\ Range(definition.resources) = Range(builder.resources)
                              /\ Range(definition.selectors) = Range(builder.selectors)
                              /\ Range(definition.edges) = Range(builder.edges)
  BY <1>1, BuiltIsCanonical
<1>3. DistinctIds(builder.edges) => EdgesAreApart(builder.edges)
  BY DEF DistinctIds, EdgesAreApart
<1> SUFFICES ASSUME Built(definition)
             PROVE  /\ StrictlyIncreasing([i \in DOMAIN definition.resources |->
                                              definition.resources[i].id])
                    /\ StrictlyIncreasing([i \in DOMAIN definition.selectors |->
                                              definition.selectors[i].id])
                    /\ \A i \in 1..(Len(definition.edges) - 1) :
                          EdgeBefore(definition.edges[i], definition.edges[i + 1])
  BY <1>2, <1>3, Zenon DEF CanonicalIsOfTheSet, Acceptable
<1>4. Recorded(definition) /\ Ordered(definition)
  BY <1>2 DEF Canonical, Fitting
<1>5. \A X : \A t \in Seq(X) : IdsRise(t) => StrictlyIncreasing([i \in DOMAIN t |-> t[i].id])
  <2> SUFFICES ASSUME NEW X, NEW t \in Seq(X), IdsRise(t)
               PROVE  StrictlyIncreasing([i \in DOMAIN t |-> t[i].id])
    OBVIOUS
  <2> DEFINE n == Len(t)
             u == [i \in DOMAIN t |-> t[i].id]
  <2>1. n \in Nat /\ DOMAIN t = 1..n
    OBVIOUS
  <2>2. Len(u) = n /\ \A i \in 1..n : u[i] = t[i].id
    BY <2>1
  <2>3. \A i, j \in 1..n : i < j => t[i].id < t[j].id
    BY DEF IdsRise
  <2> HIDE DEF u, n
  <2>4. \A i \in 1..(n - 1) : i \in 1..n /\ i + 1 \in 1..n /\ i < i + 1
    BY <2>1
  <2>5. \A i \in 1..(n - 1) : u[i] < u[i + 1]
    BY <2>2, <2>3, <2>4
  <2>6. StrictlyIncreasing(u)
    BY <2>2, <2>5 DEF StrictlyIncreasing
  <2> QED BY <2>6 DEF u
<1>6. \A i \in 1..(Len(definition.edges) - 1) :
         EdgeBefore(definition.edges[i], definition.edges[i + 1])
  <2> TAKE i \in 1..(Len(definition.edges) - 1)
  <2> DEFINE n == Len(definition.edges)
  <2>1. n \in Nat
    BY <1>4 DEF Recorded
  <2> HIDE DEF n
  <2>2. i \in 1..n /\ i + 1 \in 1..n /\ i < i + 1
    BY <2>1 DEF n
  <2> QED BY <1>4, <2>2 DEF Ordered, EdgesRise, n
<1>7. StrictlyIncreasing([i \in DOMAIN definition.resources |-> definition.resources[i].id])
  <2>1. definition.resources \in Seq(ResourceRecord) /\ IdsRise(definition.resources)
    BY <1>4 DEF Recorded, Ordered
  <2> QED BY <1>5, <2>1
<1>8. StrictlyIncreasing([i \in DOMAIN definition.selectors |-> definition.selectors[i].id])
  <2>1. definition.selectors \in Seq(TrafficSelector) /\ IdsRise(definition.selectors)
    BY <1>4 DEF Recorded, Ordered
  <2> QED BY <1>5, <2>1
<1> QED BY <1>6, <1>7, <1>8

\* What build returns depends on the set of records added, and is that set in
\* the one canonical order.
THEOREM CanonicalSafety == Spec => []CanonicalIsOfTheSet
BY DefinitionInvariant, CanonicalHolds, PTL

\* The invariant makes the lookups right.
LEMMA LookupsHold ==
    ASSUME IInv
    PROVE  LookupsAreRight
<1> SUFFICES ASSUME Built(definition)
             PROVE  LookupsAreRight
  BY DEF LookupsAreRight
<1>1. Canonical(definition)
  BY DefinitionIsCanonical
<1>2. ASSUME NEW r \in Resources
      PROVE  LET out == OutEdges(definition, r.id)
             IN  /\ StrictlyIncreasing(out)
                 /\ Range(out) = {e \in DOMAIN definition.edges :
                                     definition.edges[e].from = r.id}
  <2>1. r.id \in Nat
    BY RecordAssumption DEF ResourceRecord
  <2> QED BY <1>1, <2>1, OutEdgesAre
<1>3. ASSUME NEW e \in Edges
      PROVE  LET named == {i \in DOMAIN definition.edges : definition.edges[i].id = e.id}
                 found == EdgeIndex(definition, e.id)
             IN  IF named = {} THEN found = 0 ELSE found \in named
  <2>1. e.id \in Nat
    BY RecordAssumption DEF ForwardingEdge
  <2> QED BY <1>1, <2>1, EdgeIndexIs
<1> QED BY <1>2, <1>3, Zenon DEF LookupsAreRight

\* The edges listed for a resource are all of its edges, in order, and an
\* edge is found by its identity.
THEOREM LookupSafety == Spec => []LookupsAreRight
BY DefinitionInvariant, LookupsHold, PTL

\* The invariant makes transfers keep the definition.
LEMMA TransfersHold ==
    ASSUME IInv
    PROVE  TransfersKeepDefinition
<1> SUFFICES ASSUME Built(definition)
             PROVE  TransfersKeepDefinition
  BY DEF TransfersKeepDefinition
<1>1. Canonical(definition)
  BY DefinitionIsCanonical
<1>2. LabelsOf(definition) = LabelsOf(builder)
  <2>1. Fitting(builder) /\ definition = Canonicalized(builder)
    BY DEF IInv, DefinitionIsBuilt, Built
  <2> QED BY <2>1, BuiltIsCanonical
<1>3. /\ Content(definition) \in Payload
      /\ Encode(definition) = IF ShortLabels(definition) THEN Content(definition) ELSE NoPayload
  BY <1>1, DecodedIs
<1>4. Content(definition) # NoPayload
  BY <1>3, AbsenceAssumption
<1>5. Encode(definition) = NoPayload
         <=> \E label \in LabelsOf(builder) : label.length > MaxLabel
  <2>1. Encode(definition) = IF \E label \in LabelsOf(definition) : label.length > MaxLabel
                             THEN NoPayload ELSE Content(definition)
    BY Zenon DEF Encode
  <2> QED BY <1>2, <1>4, <2>1
<1>6. Encode(definition) # NoPayload => Decode(Encode(definition)) = definition
  BY <1>1, PayloadIs
<1>7. ASSUME \A label \in LabelsOf(builder) : label.length <= MaxLabel
      PROVE  FromText(ToText(definition)) = definition
                <=> \A label \in LabelsOf(builder) : label.quote = 0 /\ label.break = 0
  <2>1. ShortLabels(definition)
    BY <1>2, <1>7 DEF ShortLabels
  <2> QED BY <1>1, <1>2, <2>1, TextIs, TextChanges
<1> QED BY <1>5, <1>6, <1>7, Zenon DEF TransfersKeepDefinition

\* What is sent or stored of a definition reads back as that definition, and
\* its text does exactly when no label has a quote or a line break.
THEOREM TransferSafety == Spec => []TransfersKeepDefinition
BY DefinitionInvariant, TransfersHold, PTL

\* The invariant makes a restart read what is in force.
LEMMA RestartHolds ==
    ASSUME IInv
    PROVE  RestartReadsWhatIsInForce
<1>1. open => /\ Replayed(journal).topology = installed
              /\ Opens(journal) => Replayed(journal).policy = policy
  BY DEF IInv, ReadsWhatIsInForce
<1>2. journal \in Seq(Held)
  BY DEF IInv, JournalIsOfDefinition
<1>3. \A i \in DOMAIN journal : journal[i] \in Held
  BY <1>2
<1>4. ASSUME NEW i \in DOMAIN journal
      PROVE  DecodeRecord(journal[i]) # Refused
                <=> (journal[i].type = "policy" => InOrder(journal[i].payload))
  <2>1. PICK r : r = journal[i]
    OBVIOUS
  <2>2. r \in Held /\ r.type \in {"topology", "policy"}
    BY <1>3, <2>1, HeldRecords
  <2>3. CASE r.type = "policy"
    <3>1. r.payload \in ContainmentPolicy
      BY <2>2, <2>3, HeldRecords
    <3>2. r.payload # Refused
      BY <3>1, AbsenceAssumption
    <3>3. DecodeRecord(r) = DecodePolicy(r.payload)
      BY <2>3 DEF DecodeRecord
    <3>4. DecodePolicy(r.payload) # Refused <=> InOrder(r.payload)
      BY <3>2, Zenon DEF DecodePolicy, InOrder
    <3> QED BY <2>1, <2>3, <3>3, <3>4
  <2>4. CASE r.type = "topology"
    <3>1. installed # NoDefinition /\ r.payload = Encode(definition)
      BY <2>1, <2>4 DEF IInv, JournalIsOfDefinition
    <3>2. Built(definition) /\ Encode(definition) # NoPayload
      BY <3>1 DEF IInv, InstalledIsDefinition
    <3>3. Canonical(definition)
      BY <3>2, DefinitionIsCanonical
    <3>4. Decode(Encode(definition)) = definition
      BY <3>2, <3>3, PayloadIs
    <3>5. DecodeRecord(r) = definition
      BY <2>4, <3>1, <3>4 DEF DecodeRecord
    <3>6. definition # Refused
      BY <3>2 DEF Built
    <3> QED BY <2>1, <2>4, <3>5, <3>6
  <2> QED BY <2>2, <2>3, <2>4
<1>5. Opens(journal) <=> \A i \in DOMAIN journal :
         journal[i].type = "policy" => InOrder(journal[i].payload)
  BY <1>4, Zenon DEF Opens
<1> QED BY <1>1, <1>5, Zenon DEF RestartReadsWhatIsInForce

\* A restart reads the topology and the policy that were in force, unless a
\* policy out of order was accepted.
THEOREM RestartSafety == Spec => []RestartReadsWhatIsInForce
BY DefinitionInvariant, RestartHolds, PTL

=============================================================================
