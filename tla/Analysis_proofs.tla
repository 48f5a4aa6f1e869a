--------------------------- MODULE Analysis_proofs ---------------------------
(***************************************************************************)
(* Proofs about the detector and the planner, for any canonical topology,  *)
(* evidence, scope, policy, budgets and limits, as module Analysis runs    *)
(* them.                                                                   *)
(*                                                                         *)
(* Induction is over sets of naturals (NaturalSet), so that what a         *)
(* recursive function computes can be had from one lemma (Recursion): the  *)
(* operator of a round is given as a function.  On this rest the answer of *)
(* Kahn's algorithm (RemainingIsExact) and, through an inductive invariant *)
(* of the enumeration's stack, the list of witnesses: each loop that is    *)
(* not listed yet is still ahead of the stack, starts beyond it, or is     *)
(* lost to a bound that was recorded (PendingOn).                          *)
(*                                                                         *)
(* The planner's search loses no set that hits every loop: either it will  *)
(* still come to it, since what is chosen in some open branch is a part of *)
(* the set and the branch has one of its resources left to try (Awaits),   *)
(* or the incumbent is no worse (Settled).  A branch is pruned only by     *)
(* cost, and a set costs no less than its parts (CostGrows), so that       *)
(* pruning settles; a leaf settles all that contain it.                    *)
(***************************************************************************)
EXTENDS Analysis, FiniteSetTheorems, SequenceTheorems, TLAPS

-----------------------------------------------------------------------------
(* Induction and minima, stated of sets                                    *)

\* Induction: a set of naturals with 0 and all successors is all of them.
LEMMA NaturalSet ==
    ASSUME NEW T, T \subseteq Nat, 0 \in T, \A n \in T : n + 1 \in T
    PROVE  T = Nat
<1> DEFINE M == Nat \ T
           I == {1..n : n \in M}
<1>1. SUFFICES ASSUME M # {} PROVE FALSE
  OBVIOUS
<1>2. PICK p \in I : \A q \in I : <<q, p>> \notin StrictSubsetOrdering(Nat)
  <2>1. \A n \in Nat : 1..n \subseteq Nat /\ IsFiniteSet(1..n)
    BY FS_Interval
  <2>2. I \subseteq FiniteSubsetsOf(Nat)
    BY <2>1 DEF FiniteSubsetsOf
  <2>3. I # {}
    BY <1>1
  <2> HIDE DEF I
  <2> QED BY <2>2, <2>3, WFMin, FS_StrictSubsetOrderingWellFounded
<1>3. PICK x \in M : p = 1..x
  OBVIOUS
<1>4. x # 0 /\ x \in Nat /\ x - 1 \in Nat
  OBVIOUS
<1>5. x - 1 \in M
  <2>1. x - 1 \in T => (x - 1) + 1 \in T
    OBVIOUS
  <2> QED BY <1>4, <2>1
<1>6. <<1..(x - 1), 1..x>> \in StrictSubsetOrdering(Nat)
  <2>1. 1..(x - 1) \in SUBSET Nat /\ 1..x \in SUBSET Nat /\ 1..(x - 1) \subseteq 1..x
    BY <1>4
  <2>2. x \in 1..x /\ x \notin 1..(x - 1)
    BY <1>4
  <2> QED BY <2>1, <2>2 DEF StrictSubsetOrdering
<1> QED BY <1>2, <1>3, <1>5, <1>6

\* A set of naturals that is not empty has a least element.
LEMMA LeastNatural ==
    ASSUME NEW S, S \subseteq Nat, S # {}
    PROVE  \E x \in S : \A y \in S : x <= y
<1>1. SUFFICES ASSUME \A x \in S : \E y \in S : y < x
               PROVE  FALSE
  OBVIOUS
<1> DEFINE T == {n \in Nat : \A m \in 0..n : m \notin S}
<1>2. 0 \in T
  BY <1>1
<1>3. \A n \in T : n + 1 \in T
  <2> TAKE n \in T
  <2>1. n + 1 \notin S
    <3>1. SUFFICES ASSUME n + 1 \in S PROVE FALSE
      OBVIOUS
    <3>2. PICK y \in S : y < n + 1
      BY <1>1, <3>1
    <3> QED BY <3>2
  <2> QED BY <2>1
<1>4. T = Nat
  <2> HIDE DEF T
  <2>1. T \subseteq Nat
    BY DEF T
  <2> QED BY <1>2, <1>3, <2>1, NaturalSet
<1>5. PICK x \in S : TRUE
  OBVIOUS
<1> QED BY <1>4, <1>5, x \in T, x \in 0..x

\* It is the one that Least takes.
LEMMA LeastOf ==
    ASSUME NEW S, S \subseteq Nat, S # {}
    PROVE  Least(S) \in S /\ \A y \in S : Least(S) <= y
BY LeastNatural DEF Least

\* A finite set with a total and transitive order has a first element.
LEMMA FiniteMinimum ==
    ASSUME NEW S, IsFiniteSet(S), S # {}, NEW R,
           \A x, y \in S : x # y => <<x, y>> \in R \/ <<y, x>> \in R,
           \A x, y, z \in S : <<x, y>> \in R /\ <<y, z>> \in R => <<x, z>> \in R
    PROVE  \E x \in S : \A y \in S \ {x} : <<x, y>> \in R
<1> DEFINE Bad == {T \in SUBSET S : /\ T # {}
                                    /\ ~ \E x \in T : \A y \in T \ {x} : <<x, y>> \in R}
<1>1. SUFFICES ASSUME S \in Bad PROVE FALSE
  OBVIOUS
<1>2. PICK T \in Bad : \A U \in Bad : <<U, T>> \notin StrictSubsetOrdering(S)
  <2>1. Bad \subseteq FiniteSubsetsOf(S)
    BY FS_FiniteSubsetsOfFinite
  <2>2. Bad # {}
    BY <1>1
  <2> HIDE DEF Bad
  <2> QED BY <2>1, <2>2, WFMin, FS_StrictSubsetOrderingWellFounded
<1>3. PICK x \in T : TRUE
  OBVIOUS
<1>4. T \ {x} \notin Bad
  <2>1. <<T \ {x}, T>> \in StrictSubsetOrdering(S)
    BY <1>3 DEF StrictSubsetOrdering
  <2> QED BY <1>2, <2>1
<1>5. T \ {x} # {}
  BY <1>3
<1>6. PICK m \in T \ {x} : \A y \in (T \ {x}) \ {m} : <<m, y>> \in R
  BY <1>4, <1>5
<1>7. CASE <<m, x>> \in R
  BY <1>6, <1>7
<1>8. CASE <<x, m>> \in R
  <2>1. \A y \in T \ {x} : <<x, y>> \in R
    BY <1>6, <1>8, T \subseteq S
  <2> QED BY <2>1, <1>3
<1> QED BY <1>3, <1>6, <1>7, <1>8

\* Sequences of one length are ordered, whichever two they are.
LEMMA LexTotal ==
    ASSUME NEW n \in Nat, NEW s \in [1..n -> Nat], NEW t \in [1..n -> Nat], s # t
    PROVE  LexLess(s, t) \/ LexLess(t, s)
<1> DEFINE D == {i \in 1..n : s[i] # t[i]}
<1>1. D # {} /\ D \subseteq Nat
  OBVIOUS
<1>2. PICK i \in D : \A j \in D : i <= j
  <2> HIDE DEF D
  <2> QED BY <1>1, LeastNatural
<1>3. \A j \in 1..(i - 1) : s[j] = t[j]
  BY <1>2
<1>4. s[i] < t[i] \/ t[i] < s[i]
  BY <1>2
<1>5. i \in DOMAIN s /\ i \in DOMAIN t
  BY <1>2
<1> QED BY <1>3, <1>4, <1>5 DEF LexLess

\* The order of sequences is one.
LEMMA LexTransitive ==
    ASSUME NEW n \in Nat, NEW s \in [1..n -> Nat], NEW t \in [1..n -> Nat],
           NEW u \in [1..n -> Nat], LexLess(s, t), LexLess(t, u)
    PROVE  LexLess(s, u)
<1>1. PICK i \in 1..n : s[i] < t[i] /\ \A j \in 1..(i - 1) : s[j] = t[j]
  BY DEF LexLess
<1>2. PICK k \in 1..n : t[k] < u[k] /\ \A j \in 1..(k - 1) : t[j] = u[j]
  BY DEF LexLess
<1> SUFFICES \E m \in 1..n : s[m] < u[m] /\ \A j \in 1..(m - 1) : s[j] = u[j]
  BY DEF LexLess
<1>3. CASE i < k
  <2>1. t[i] = u[i] /\ \A j \in 1..(i - 1) : j \in 1..(k - 1)
    BY <1>2, <1>3
  <2> QED BY <1>1, <1>2, <2>1
<1>4. CASE i = k
  <2>1. s[i] < u[i]
    BY <1>1, <1>2, <1>4
  <2> QED BY <1>1, <1>2, <1>4, <2>1
<1>5. CASE k < i
  <2>1. s[k] = t[k] /\ \A j \in 1..(k - 1) : j \in 1..(i - 1)
    BY <1>1, <1>5
  <2> QED BY <1>1, <1>2, <2>1
<1> QED BY <1>3, <1>4, <1>5

\* A function on 0..N by recursion.  The parts of the statement are operators
\* so that the provers find its instances.
Maps(F, S) == F \in [Nat -> [S -> S]]

Iterates(g, S, c, F, N) ==
    g \in [0..N -> S] /\ g[0] = c /\ \A n \in 1..N : g[n] = F[n][g[n - 1]]

\* What a step function defines by recursion exists, up to any bound.
LEMMA Recursion ==
    ASSUME NEW S, NEW c \in S, NEW F, Maps(F, S), NEW N \in Nat
    PROVE  \E g : Iterates(g, S, c, F, N)
<1> DEFINE Good(g, m) == /\ g \in [0..m -> S] /\ g[0] = c
                         /\ \A n \in 1..m : g[n] = F[n][g[n - 1]]
           T == {m \in Nat : \E g : Good(g, m)}
<1>1. 0 \in T
  <2>1. Good([n \in 0..0 |-> c], 0)
    OBVIOUS
  <2> QED BY <2>1
<1>2. \A m \in T : m + 1 \in T
  <2> TAKE m \in T
  <2>1. PICK g : Good(g, m)
    OBVIOUS
  <2> DEFINE h == [n \in 0..(m + 1) |-> IF n = m + 1 THEN F[m + 1][g[m]] ELSE g[n]]
  <2>2. g[m] \in S /\ F[m + 1][g[m]] \in S
    BY <2>1 DEF Maps
  <2>3. h \in [0..(m + 1) -> S] /\ h[0] = c
    BY <2>1, <2>2
  <2>4. ASSUME NEW n \in 1..(m + 1)
        PROVE  h[n] = F[n][h[n - 1]]
    <3>1. CASE n = m + 1
      BY <3>1
    <3>2. CASE n # m + 1
      <4>1. n \in 1..m /\ h[n] = g[n] /\ h[n - 1] = g[n - 1]
        BY <3>2
      <4> QED BY <2>1, <4>1
    <3> QED BY <3>1, <3>2
  <2>5. Good(h, m + 1)
    BY <2>3, <2>4
  <2>6. m + 1 \in Nat
    OBVIOUS
  <2> HIDE DEF Good
  <2> QED BY <2>5, <2>6
<1>3. T = Nat
  <2>1. T \subseteq Nat
    OBVIOUS
  <2> HIDE DEF T
  <2> QED BY <1>1, <1>2, <2>1, NaturalSet
<1> QED BY <1>3 DEF Iterates

-----------------------------------------------------------------------------
(* Kahn's algorithm                                                        *)

Rounds == Cardinality(Resource)

\* Kahn's algorithm goes through finitely many rounds, one per resource.
LEMMA RoundsNatural == Rounds \in Nat /\ Resource = 1..Rounds /\ IsFiniteSet(Resource)
BY TopologyAssumption, FS_CardinalityType DEF Canonical, Rounds

Kept(usable, S) == {v \in S : \E e \in usable : To[e] = v /\ From[e] \in S}

\* Remaining is the end of its rounds: each keeps what a usable hop enters.
LEMMA RemainingDefined ==
    ASSUME NEW usable
    PROVE  \E left \in [0..Rounds -> SUBSET Resource] :
              /\ left[0] = Resource
              /\ \A n \in 1..Rounds : left[n] = Kept(usable, left[n - 1])
              /\ Remaining(usable) = left[Rounds]
<1> DEFINE IsLeft(g) ==
             g = [n \in 0..Rounds |->
                    IF n = 0 THEN Resource
                    ELSE {v \in g[n - 1] :
                            \E e \in usable : To[e] = v /\ From[e] \in g[n - 1]}]
           Set == SUBSET Resource
           F == [n \in Nat |-> [S \in Set |-> Kept(usable, S)]]
           left == CHOOSE g : IsLeft(g)
<1>1. Rounds \in Nat
  BY RoundsNatural
<1>2. Maps(F, Set) /\ Resource \in Set
  BY DEF Kept, Maps
<1>3. PICK g : Iterates(g, Set, Resource, F, Rounds)
  <2> HIDE DEF F, Set
  <2> QED BY <1>1, <1>2, Recursion
<1>4. IsLeft(g)
  <2>1. \A n \in 0..Rounds :
          g[n] = IF n = 0 THEN Resource
                 ELSE {v \in g[n - 1] :
                         \E e \in usable : To[e] = v /\ From[e] \in g[n - 1]}
    <3> TAKE n \in 0..Rounds
    <3>1. CASE n = 0
      BY <1>3, <3>1 DEF Iterates
    <3>2. CASE n # 0
      <4>1. n \in 1..Rounds /\ n - 1 \in 0..Rounds /\ n \in Nat
        BY <1>1, <3>2
      <4>2. g[n - 1] \in Set /\ g[n] = F[n][g[n - 1]]
        BY <1>3, <4>1 DEF Iterates
      <4> QED BY <3>2, <4>1, <4>2 DEF Kept
    <3> QED BY <3>1, <3>2
  <2>2. g = [n \in 0..Rounds |-> g[n]]
    BY <1>3 DEF Iterates
  <2> QED BY <2>1, <2>2
<1>5. IsLeft(left)
  <2> HIDE DEF IsLeft
  <2> QED BY <1>4
<1>6. Remaining(usable) = left[Rounds]
  BY DEF Remaining, Rounds
<1> HIDE DEF left
<1>7. /\ left[0] = Resource /\ left = [n \in 0..Rounds |-> left[n]]
      /\ \A n \in 1..Rounds : left[n] = Kept(usable, left[n - 1])
  <2>1. \A n \in 0..Rounds :
          left[n] = IF n = 0 THEN Resource
                    ELSE {v \in left[n - 1] :
                            \E e \in usable : To[e] = v /\ From[e] \in left[n - 1]}
    BY <1>5
  <2>2. left = [n \in 0..Rounds |-> left[n]]
    BY <1>5
  <2>3. 0 \in 0..Rounds /\ \A n \in 1..Rounds : n \in 0..Rounds /\ n # 0
    BY <1>1
  <2>4. ASSUME NEW n \in 1..Rounds
        PROVE  left[n] = Kept(usable, left[n - 1])
    BY <2>1, <2>3 DEF Kept
  <2> QED BY <2>1, <2>2, <2>3, <2>4
<1>8. \A n \in 0..Rounds : left[n] \subseteq Resource
  <2> DEFINE S == {n \in Nat : n <= Rounds => left[n] \subseteq Resource}
  <2>1. 0 \in S
    BY <1>7
  <2>2. \A n \in S : n + 1 \in S
    <3> TAKE n \in S
    <3>1. n + 1 <= Rounds => left[n + 1] \subseteq left[n]
      <4>1. n + 1 <= Rounds => n + 1 \in 1..Rounds
        BY <1>1
      <4>2. (n + 1) - 1 = n
        OBVIOUS
      <4> QED BY <1>7, <4>1, <4>2 DEF Kept
    <3> QED BY <3>1, <1>1
  <2>3. S = Nat
    <3>1. S \subseteq Nat
      OBVIOUS
    <3> HIDE DEF S
    <3> QED BY <2>1, <2>2, <3>1, NaturalSet
  <2> QED BY <2>3, <1>1
<1>9. left \in [0..Rounds -> SUBSET Resource]
  BY <1>7, <1>8
<1> QED BY <1>6, <1>7, <1>9

\* The place after the last one of a cycle is the first.
LEMMA Successor ==
    ASSUME NEW n \in Nat, NEW i \in 1..n
    PROVE  (i % n) + 1 = IF i = n THEN 1 ELSE i + 1
<1>1. CASE i = n
  <2>1. n % n = 0
    OBVIOUS
  <2> QED BY <1>1, <2>1
<1>2. CASE i # n
  <2>1. i % n = i
    BY <1>2
  <2> QED BY <1>2, <2>1
<1> QED BY <1>1, <1>2

\* A closed walk of usable hops, and one that visits no resource twice and
\* starts from its least.
Follows(c, n, i) == IF i = n THEN c[1] ELSE c[i + 1]

Closed(c, n, usable) ==
    /\ c \in [1..n -> usable]
    /\ \A i \in 1..n : To[c[i]] = From[Follows(c, n, i)]

\* A loop of the definition is a closed sequence of edges with different sources.
LEMMA LoopForm ==
    ASSUME NEW h \in Loops
    PROVE  /\ Len(h) \in 1..Rounds /\ DOMAIN h = 1..Len(h)
           /\ h \in [1..Len(h) -> Edge] /\ h \in Seq(Edge)
           /\ Closed(h, Len(h), Edge)
           /\ \A i, j \in 1..Len(h) : From[h[i]] = From[h[j]] => i = j
           /\ \A i \in 1..Len(h) : From[h[1]] <= From[h[i]]
<1>1. PICK n \in 1..Rounds : h \in [1..n -> Edge]
  BY DEF Loops, Rounds
<1>2. n \in Nat /\ n >= 1
  BY RoundsNatural
<1>3. h \in Seq(Edge) /\ Len(h) = n /\ DOMAIN h = 1..n
  BY <1>1, <1>2
<1>4. \A i \in 1..n : To[h[i]] = From[h[(i % n) + 1]]
  BY <1>3 DEF Loops
<1>5. \A i \in 1..n : To[h[i]] = From[Follows(h, n, i)]
  BY <1>2, <1>4, Successor DEF Follows
<1>6. /\ \A i, j \in 1..n : From[h[i]] = From[h[j]] => i = j
      /\ \A i \in 1..n : From[h[1]] <= From[h[i]]
  BY <1>3 DEF Loops
<1> QED BY <1>1, <1>3, <1>5, <1>6 DEF Closed

\* A closed sequence of edges like that, from its least resource, is a loop.
LEMMA IsLoop ==
    ASSUME NEW n \in 1..Rounds, NEW h, Closed(h, n, Edge),
           \A i, j \in 1..n : From[h[i]] = From[h[j]] => i = j,
           \A i \in 1..n : From[h[1]] <= From[h[i]]
    PROVE  h \in Loops
<1>1. n \in Nat /\ n >= 1
  BY RoundsNatural
<1>2. h \in [1..n -> Edge]
  BY DEF Closed
<1>3. Len(h) = n /\ DOMAIN h = 1..n
  BY <1>1, <1>2
<1>4. ASSUME NEW i \in 1..n PROVE To[h[i]] = From[h[(i % n) + 1]]
  <2>1. To[h[i]] = From[Follows(h, n, i)]
    BY DEF Closed
  <2>2. (i % n) + 1 = IF i = n THEN 1 ELSE i + 1
    BY <1>1, Successor
  <2> QED BY <2>1, <2>2 DEF Follows
<1>5. h \in UNION {[1..k -> Edge] : k \in 1..Cardinality(Resource)}
  BY <1>2 DEF Rounds
<1> QED BY <1>3, <1>4, <1>5 DEF Loops

\* A loop of usable hops survives every round.
LEMMA LoopRemains ==
    ASSUME NEW usable, NEW h \in Loops, \A i \in DOMAIN h : h[i] \in usable
    PROVE  Remaining(usable) # {}
<1> DEFINE n == Len(h)
           On == {From[h[i]] : i \in 1..n}
<1>1. PICK left \in [0..Rounds -> SUBSET Resource] :
              /\ left[0] = Resource
              /\ \A k \in 1..Rounds : left[k] = Kept(usable, left[k - 1])
              /\ Remaining(usable) = left[Rounds]
  BY RemainingDefined
<1>2. n \in 1..Rounds /\ DOMAIN h = 1..n /\ h \in [1..n -> Edge]
  BY LoopForm
<1>3. n \in Nat /\ n >= 1 /\ Rounds \in Nat
  BY <1>2, RoundsNatural
<1>4. On \subseteq Resource
  BY <1>2, TopologyAssumption DEF Canonical
<1>5. \A v \in On : \E e \in usable : To[e] = v /\ From[e] \in On
  <2> SUFFICES ASSUME NEW i \in 1..n
               PROVE  \E e \in usable : To[e] = From[h[i]] /\ From[e] \in On
    OBVIOUS
  <2> DEFINE k == IF i = 1 THEN n ELSE i - 1
  <2>1. k \in 1..n /\ Follows(h, n, k) = h[i]
    BY <1>3 DEF Follows
  <2>2. To[h[k]] = From[h[i]]
    BY <2>1, LoopForm DEF Closed
  <2>3. h[k] \in usable /\ From[h[k]] \in On
    BY <1>2, <2>1
  <2> QED BY <2>2, <2>3
<1> DEFINE S == {k \in Nat : k <= Rounds => On \subseteq left[k]}
<1>6. S = Nat
  <2>1. 0 \in S
    BY <1>1, <1>4
  <2>2. \A k \in S : k + 1 \in S
    <3> TAKE k \in S
    <3>1. SUFFICES ASSUME k + 1 <= Rounds PROVE On \subseteq left[k + 1]
      OBVIOUS
    <3>2. On \subseteq left[k]
      BY <1>3, <3>1
    <3>3. k + 1 \in 1..Rounds /\ (k + 1) - 1 = k
      BY <1>3, <3>1
    <3>4. left[k + 1] = Kept(usable, left[k])
      BY <1>1, <3>3
    <3> QED BY <1>5, <3>2, <3>4 DEF Kept
  <2>3. S \subseteq Nat
    OBVIOUS
  <2> HIDE DEF S
  <2> QED BY <2>1, <2>2, <2>3, NaturalSet
<1>7. On \subseteq left[Rounds]
  BY <1>3, <1>6
<1>8. From[h[1]] \in On
  BY <1>3
<1> QED BY <1>1, <1>7, <1>8

\* A walk of n usable hops that ends at v.
Walk(w, n, v, usable) ==
    /\ w \in [1..n -> usable]
    /\ \A i \in 1..(n - 1) : To[w[i]] = From[w[i + 1]]
    /\ n > 0 => To[w[n]] = v

\* From what survives the rounds, one can walk backwards once per round.
LEMMA WalkOfRounds ==
    ASSUME NEW usable, usable \subseteq Edge, Remaining(usable) # {}
    PROVE  \E w, v : v \in Resource /\ Walk(w, Rounds, v, usable)
<1>1. PICK left \in [0..Rounds -> SUBSET Resource] :
              /\ left[0] = Resource
              /\ \A k \in 1..Rounds : left[k] = Kept(usable, left[k - 1])
              /\ Remaining(usable) = left[Rounds]
  BY RemainingDefined
<1>2. Rounds \in Nat
  BY RoundsNatural
<1> DEFINE S == {k \in Nat : k <= Rounds =>
                    \A v \in left[k] : \E w : Walk(w, k, v, usable)}
<1>3. S = Nat
  <2>1. 0 \in S
    <3>1. \A v : Walk([i \in 1..0 |-> 0], 0, v, usable)
      BY DEF Walk
    <3> QED BY <3>1
  <2>2. \A k \in S : k + 1 \in S
    <3> TAKE k \in S
    <3> SUFFICES ASSUME k + 1 <= Rounds, NEW v \in left[k + 1]
                 PROVE  \E w : Walk(w, k + 1, v, usable)
      OBVIOUS
    <3>1. k + 1 \in 1..Rounds /\ (k + 1) - 1 = k /\ k \in Nat
      BY <1>2
    <3>2. v \in Kept(usable, left[k])
      BY <1>1, <3>1
    <3>3. PICK e \in usable : To[e] = v /\ From[e] \in left[k]
      BY <3>2 DEF Kept
    <3>4. PICK w : Walk(w, k, From[e], usable)
      BY <1>2, <3>1, <3>3
    <3> DEFINE x == [i \in 1..(k + 1) |-> IF i = k + 1 THEN e ELSE w[i]]
    <3>5. x \in [1..(k + 1) -> usable]
      BY <3>1, <3>3, <3>4 DEF Walk
    <3>6. ASSUME NEW i \in 1..k PROVE To[x[i]] = From[x[i + 1]]
      <4>1. CASE i = k
        BY <3>1, <3>4, <4>1 DEF Walk
      <4>2. CASE i # k
        <5>1. i \in 1..(k - 1) /\ x[i] = w[i] /\ x[i + 1] = w[i + 1]
          BY <3>1, <4>2
        <5> QED BY <3>4, <5>1 DEF Walk
      <4> QED BY <4>1, <4>2
    <3>7. x[k + 1] = e
      BY <3>1
    <3> HIDE DEF x
    <3>8. Walk(x, k + 1, v, usable)
      BY <3>1, <3>3, <3>5, <3>6, <3>7 DEF Walk
    <3> QED BY <3>8
  <2>3. S \subseteq Nat
    OBVIOUS
  <2> HIDE DEF S
  <2> QED BY <2>1, <2>2, <2>3, NaturalSet
<1>4. PICK v \in left[Rounds] : TRUE
  BY <1>1
<1>5. v \in Resource
  BY <1>1, <1>2, <1>4
<1>6. \E w : Walk(w, Rounds, v, usable)
  BY <1>2, <1>3, <1>4
<1> QED BY <1>5, <1>6

\* So long a walk comes back to a resource.
LEMMA ClosedWalk ==
    ASSUME NEW usable, usable \subseteq Edge, Remaining(usable) # {}
    PROVE  \E n \in Nat \ {0} : \E c : Closed(c, n, usable)
<1>1. PICK w, v : v \in Resource /\ Walk(w, Rounds, v, usable)
  BY WalkOfRounds
<1>2. Rounds \in Nat /\ Rounds >= 1 /\ IsFiniteSet(Resource)
  BY <1>1, RoundsNatural
<1> DEFINE f == [i \in 0..Rounds |-> IF i = 0 THEN From[w[1]] ELSE To[w[i]]]
<1>3. f \in [0..Rounds -> Resource]
  BY <1>1, <1>2, TopologyAssumption DEF Walk, Canonical
<1>4. \A k \in 1..Rounds : From[w[k]] = f[k - 1]
  <2> TAKE k \in 1..Rounds
  <2>1. CASE k = 1
    BY <1>2, <2>1
  <2>2. CASE k # 1
    <3>1. k - 1 \in 1..(Rounds - 1) /\ k - 1 # 0 /\ k - 1 \in 0..Rounds /\ (k - 1) + 1 = k
      BY <1>2, <2>2
    <3>2. To[w[k - 1]] = From[w[(k - 1) + 1]]
      BY <1>1, <3>1 DEF Walk
    <3> QED BY <3>1, <3>2
  <2> QED BY <2>1, <2>2
<1>5. PICK i, j \in 0..Rounds : i # j /\ f[i] = f[j]
  <2>1. IsFiniteSet(0..Rounds) /\ Cardinality(0..Rounds) = Rounds + 1
    BY <1>2, FS_Interval
  <2>2. Cardinality(Resource) < Cardinality(0..Rounds)
    BY <1>2, <2>1 DEF Rounds
  <2> HIDE DEF f
  <2> QED BY <1>2, <1>3, <2>1, <2>2, FS_PigeonHole
<1>6. ASSUME NEW a \in 0..Rounds, NEW b \in 0..Rounds, a < b, f[a] = f[b]
      PROVE  \E n \in Nat \ {0} : \E c : Closed(c, n, usable)
  <2> DEFINE n == b - a
             c == [k \in 1..n |-> w[a + k]]
  <2>1. n \in Nat \ {0}
    BY <1>2, <1>6
  <2>2. \A k \in 1..n : a + k \in 1..Rounds
    BY <1>2, <1>6
  <2>3. c \in [1..n -> usable]
    BY <1>1, <2>2 DEF Walk
  <2>4. ASSUME NEW k \in 1..n PROVE To[c[k]] = From[Follows(c, n, k)]
    <3>1. c[k] = w[a + k] /\ To[c[k]] = f[a + k]
      BY <1>2, <2>2
    <3>2. CASE k = n
      <4>1. a + n = b /\ 1 \in 1..n /\ a + 1 \in 1..Rounds /\ (a + 1) - 1 = a
        BY <1>2, <1>6, <2>2
      <4>2. c[1] = w[a + 1] /\ From[w[a + 1]] = f[a]
        BY <1>4, <4>1
      <4> HIDE DEF f, c
      <4> QED BY <1>6, <3>1, <3>2, <4>1, <4>2 DEF Follows
    <3>3. CASE k # n
      <4>1. k + 1 \in 1..n /\ a + (k + 1) \in 1..Rounds /\ (a + (k + 1)) - 1 = a + k
        BY <2>1, <2>2, <3>3
      <4>2. c[k + 1] = w[a + (k + 1)] /\ From[w[a + (k + 1)]] = f[a + k]
        BY <1>4, <4>1
      <4> HIDE DEF f, c
      <4> QED BY <3>1, <3>3, <4>2 DEF Follows
    <3> QED BY <3>2, <3>3
  <2> HIDE DEF c, n
  <2>5. Closed(c, n, usable)
    BY <2>3, <2>4 DEF Closed
  <2> QED BY <2>1, <2>5
<1>7. CASE i < j
  BY <1>5, <1>6, <1>7
<1>8. CASE j < i
  BY <1>5, <1>6, <1>8
<1> QED BY <1>2, <1>5, <1>7, <1>8

\* The shortest closed walk is simple.
LEMMA SimpleWalk ==
    ASSUME NEW usable, usable \subseteq Edge, Remaining(usable) # {}
    PROVE  \E n \in 1..Rounds : \E c :
              /\ Closed(c, n, usable)
              /\ \A i, j \in 1..n : From[c[i]] = From[c[j]] => i = j
<1> DEFINE Lengths == {n \in Nat \ {0} : \E c : Closed(c, n, usable)}
<1>1. Lengths # {} /\ Lengths \subseteq Nat
  BY ClosedWalk
<1>2. PICK n \in Lengths : \A m \in Lengths : n <= m
  <2> HIDE DEF Lengths
  <2> QED BY <1>1, LeastNatural
<1>3. n \in Nat /\ n >= 1
  OBVIOUS
<1>4. PICK c : Closed(c, n, usable)
  OBVIOUS
<1>5. ASSUME NEW i \in 1..n, NEW j \in 1..n, i < j, From[c[i]] = From[c[j]]
      PROVE  FALSE
  <2> DEFINE m == j - i
             d == [k \in 1..m |-> c[(i - 1) + k]]
  <2>1. m \in Nat \ {0} /\ m < n
    BY <1>3, <1>5
  <2>2. \A k \in 1..m : (i - 1) + k \in 1..n /\ (i - 1) + k # n
    BY <1>3, <1>5
  <2>3. d \in [1..m -> usable]
    BY <1>4, <2>2 DEF Closed
  <2>4. ASSUME NEW k \in 1..m PROVE To[d[k]] = From[Follows(d, m, k)]
    <3>1. d[k] = c[(i - 1) + k] /\ To[c[(i - 1) + k]] = From[c[((i - 1) + k) + 1]]
      BY <1>4, <2>2 DEF Closed, Follows
    <3>2. CASE k = m
      <4>1. ((i - 1) + k) + 1 = j /\ 1 \in 1..m /\ (i - 1) + 1 = i
        BY <1>3, <1>5, <2>1, <3>2
      <4>2. d[1] = c[i]
        BY <4>1
      <4> HIDE DEF d, m
      <4> QED BY <1>5, <3>1, <3>2, <4>1, <4>2 DEF Follows
    <3>3. CASE k # m
      <4>1. k + 1 \in 1..m /\ ((i - 1) + k) + 1 = (i - 1) + (k + 1)
        BY <1>3, <2>1, <3>3
      <4>2. d[k + 1] = c[(i - 1) + (k + 1)]
        BY <4>1
      <4> HIDE DEF d, m
      <4> QED BY <3>1, <3>3, <4>1, <4>2 DEF Follows
    <3> QED BY <3>2, <3>3
  <2> HIDE DEF d, m
  <2>5. Closed(d, m, usable)
    BY <2>3, <2>4 DEF Closed
  <2>6. n <= m
    BY <1>2, <2>1, <2>5
  <2> QED BY <1>3, <2>1, <2>6
<1>6. \A i, j \in 1..n : From[c[i]] = From[c[j]] => i = j
  <2> SUFFICES ASSUME NEW i \in 1..n, NEW j \in 1..n, From[c[i]] = From[c[j]], i # j
               PROVE  FALSE
    OBVIOUS
  <2>1. i < j \/ j < i
    BY <1>3
  <2> QED BY <1>5, <2>1
<1>7. n <= Rounds
  <2> DEFINE g == [i \in 1..n |-> From[c[i]]]
  <2>1. g \in [1..n -> Resource]
    BY <1>4, TopologyAssumption DEF Closed, Canonical
  <2>2. \A i, j \in 1..n : g[i] = g[j] => i = j
    BY <1>6
  <2> HIDE DEF g
  <2>3. g \in Injection(1..n, Resource)
    BY <2>1, <2>2 DEF Injection, IsInjective
  <2>4. Cardinality(1..n) <= Cardinality(Resource)
    BY <2>3, RoundsNatural, FS_Injection
  <2>5. Cardinality(1..n) = n
    BY <1>3, FS_Interval
  <2> QED BY <2>4, <2>5 DEF Rounds
<1> QED BY <1>3, <1>4, <1>6, <1>7, RoundsNatural

\* What survives the rounds goes round a loop.
LEMMA LoopFound ==
    ASSUME NEW usable, usable \subseteq Edge, Remaining(usable) # {}
    PROVE  \E h \in Loops : \A i \in DOMAIN h : h[i] \in usable
<1>0. PICK n \in 1..Rounds : \E c : /\ Closed(c, n, usable)
                                   /\ \A i, j \in 1..n : From[c[i]] = From[c[j]] => i = j
  BY SimpleWalk
<1>1. PICK c : /\ Closed(c, n, usable)
               /\ \A i, j \in 1..n : From[c[i]] = From[c[j]] => i = j
  BY <1>0
<1>2. n \in Nat /\ n >= 1
  BY RoundsNatural
<1> DEFINE On == {From[c[i]] : i \in 1..n}
<1>3. c \in [1..n -> usable] /\ c \in [1..n -> Edge]
  BY <1>1 DEF Closed
<1>4. On \subseteq Nat /\ On # {} /\ \A i \in 1..n : From[c[i]] \in Nat
  <2>1. \A i \in 1..n : From[c[i]] \in Resource
    BY <1>3, TopologyAssumption DEF Canonical
  <2> QED BY <1>2, <2>1, RoundsNatural
<1>5. PICK r \in On : \A y \in On : r <= y
  <2> HIDE DEF On
  <2> QED BY <1>4, LeastNatural
<1>6. PICK m \in 1..n : \A i \in 1..n : From[c[m]] <= From[c[i]]
  BY <1>5
<1> DEFINE At(i) == IF i <= n - (m - 1) THEN i + (m - 1) ELSE i - (n - (m - 1))
           h == [i \in 1..n |-> c[At(i)]]
<1>7. \A i \in 1..n : At(i) \in 1..n
  BY <1>2
<1>8. \A i, j \in 1..n : At(i) = At(j) => i = j
  BY <1>2
<1>9. At(1) = m
  BY <1>2
<1>10. \A i \in 1..n : At(IF i = n THEN 1 ELSE i + 1) = IF At(i) = n THEN 1 ELSE At(i) + 1
  BY <1>2
<1>11. h \in [1..n -> usable] /\ h \in [1..n -> Edge] /\ DOMAIN h = 1..n
  BY <1>3, <1>7
<1>12. ASSUME NEW i \in 1..n PROVE To[h[i]] = From[Follows(h, n, i)]
  <2> DEFINE k == IF i = n THEN 1 ELSE i + 1
  <2>1. k \in 1..n /\ Follows(h, n, i) = h[k]
    BY <1>2 DEF Follows
  <2>2. h[i] = c[At(i)] /\ h[k] = c[At(k)]
    BY <2>1
  <2>3. To[c[At(i)]] = From[Follows(c, n, At(i))]
    BY <1>1, <1>7 DEF Closed
  <2>4. Follows(c, n, At(i)) = c[At(k)]
    <3>1. At(k) = IF At(i) = n THEN 1 ELSE At(i) + 1
      BY <1>10
    <3> HIDE DEF At, k
    <3> QED BY <3>1 DEF Follows
  <2> HIDE DEF k, h, At
  <2> QED BY <2>1, <2>2, <2>3, <2>4
<1>13. Closed(h, n, Edge)
  <2> HIDE DEF h
  <2> QED BY <1>11, <1>12 DEF Closed
<1>14. \A i, j \in 1..n : From[h[i]] = From[h[j]] => i = j
  <2> TAKE i, j \in 1..n
  <2>1. h[i] = c[At(i)] /\ h[j] = c[At(j)] /\ At(i) \in 1..n /\ At(j) \in 1..n
    BY <1>7
  <2> HIDE DEF h, At
  <2> QED BY <1>1, <1>8, <2>1
<1>15. \A i \in 1..n : From[h[1]] <= From[h[i]]
  <2> TAKE i \in 1..n
  <2>1. h[1] = c[m] /\ h[i] = c[At(i)] /\ At(i) \in 1..n
    BY <1>2, <1>7, <1>9
  <2> HIDE DEF h, At
  <2> QED BY <1>6, <2>1
<1>16. h \in Loops
  <2> HIDE DEF h
  <2> QED BY <1>13, <1>14, <1>15, IsLoop
<1> HIDE DEF h
<1> QED BY <1>11, <1>16

\* Kahn's rounds decide whether there is a loop of usable hops.
THEOREM RemainingIsExact ==
    ASSUME NEW usable, usable \subseteq Edge
    PROVE  Remaining(usable) # {} <=> \E h \in Loops : \A i \in DOMAIN h : h[i] \in usable
BY LoopRemains, LoopFound

\* HasCycle answers for a selector and a class what LoopsUpTo says.
LEMMA HasCycleIsExact ==
    ASSUME NEW s \in Candidates, NEW highest
    PROVE  HasCycle(s, highest) <=> LoopsUpTo(s, highest) # {}
<1>1. Usable(s, highest) \subseteq Edge
  BY DEF Usable
<1>2. ASSUME NEW h \in Loops
      PROVE  (\A i \in DOMAIN h : h[i] \in Usable(s, highest)) <=> s \in Carried(h, highest)
  <2>1. \A i \in DOMAIN h : h[i] \in Edge
    BY LoopForm
  <2> QED BY <2>1 DEF Usable, Carried, Traversable
<1>3. HasCycle(s, highest) <=> \E h \in Loops : \A i \in DOMAIN h : h[i] \in Usable(s, highest)
  BY <1>1, RemainingIsExact DEF HasCycle
<1> QED BY <1>2, <1>3 DEF LoopsUpTo

-----------------------------------------------------------------------------
(* The inductive invariant                                                 *)

Hop == [resolution : {"ProvenOpen", "UnprovenOpen", "Unproven", "Conflicted",
                      "ProvenClosed"},
        selectors : SUBSET Selector]

RequestInv == limits \in Limits /\ hops \in [Edge -> Hop]

\* What is found is what the probed selectors gave.
ExistenceInv ==
    /\ todo \subseteq Candidates
    /\ phase \in {"asked", "returned"} => todo = {} /\ found = {}
    /\ phase \in {"existence", "enumeration", "validation"} =>
          found = UNION {Probed(s) : s \in Candidates \ todo}
    /\ phase \in {"enumeration", "validation"} /\ "existence" \notin reached => todo = {}
    /\ phase \in {"asked", "existence"} => reached = {}
    /\ phase = "enumeration" => "existence" \notin reached /\ 0 \in found

StackFrame ==
    [node : Resource, via : Edge \cup {Least(Edge)}, untried : SUBSET Edge,
     mask : SUBSET Selector]

\* The selectors that all hops into the frames up to the i-th carry.
CommonTo(frames_, i) == {s \in Candidates : \A j \in 2..i : s \in Mask(frames_[j].via)}

\* The stack is a simple path of proven hops away from its least resource.
StackInv ==
    /\ stack \in Seq(StackFrame) /\ starts \subseteq Resource
    /\ phase \in {"asked", "existence", "returned"} => stack = <<>>
    /\ Len(stack) <= Depth
    /\ \A i \in 1..Len(stack) : /\ stack[i].untried \subseteq ProvenOut(stack[i].node)
                                /\ stack[i].mask = CommonTo(stack, i)
    /\ \A i \in 2..Len(stack) : /\ stack[i].via \in ProvenOut(stack[i - 1].node)
                                /\ To[stack[i].via] = stack[i].node
                                /\ stack[i].node > stack[1].node
    /\ \A i, j \in 1..Len(stack) : stack[i].node = stack[j].node => i = j

\* The witness of a loop, and the loops the enumeration may list.
WitnessOf(h) ==
    [cycle |-> [i \in DOMAIN h |-> From[h[i]]], hops |-> h, selectors |-> Carried(h, 0)]

Proven == {h \in Loops : Carried(h, 0) # {}}

Certain(h) == \A i \in DOMAIN h : h[i] \notin Uncertain

Listable == {WitnessOf(h) : h \in {g \in Proven : Len(g) <= limits.hops}}

ListInv ==
    /\ listed \subseteq Listable /\ IsFiniteSet(listed)
    /\ Cardinality(listed) <= limits.witnesses
    /\ cycles \in Nat /\ cycles <= limits.cycles + 1 /\ steps \in Nat
    /\ phase = "enumeration" /\ "cycles" \notin reached =>
          cycles <= limits.cycles /\ Cardinality(listed) < limits.witnesses
    /\ witnesses \in Seq({w \in Listable : Certain(w.hops)})
    /\ phase \in {"asked", "existence", "returned"} => listed = {} /\ cycles = 0
    /\ phase \in {"asked", "existence", "enumeration", "returned"} => witnesses = <<>>
    /\ listed # {} \/ witnesses # <<>> => 0 \in found /\ "existence" \notin reached

AnswerInv ==
    /\ phase \in {"asked", "existence", "enumeration", "validation", "answered",
                  "returned"}
    /\ found \subseteq 0..2
    /\ reached \subseteq {"existence", "steps", "cycles", "length", "validation"}
    /\ phase # "answered" => answer = Pending
    /\ phase = "answered" =>
          \/ /\ todo = {} /\ found = {} /\ witnesses = <<>> /\ reached = {}
             /\ answer = [outcome |-> "Indeterminate", limit |-> TRUE, additional |-> FALSE]
          \/ /\ found = UNION {Probed(s) : s \in Candidates \ todo}
             /\ "existence" \notin reached => todo = {}
             /\ listed = {}
             /\ answer = [outcome |-> Outcome,
                          limit |-> \/ Bounded \/ "existence" \in reached
                                    \/ 0 \in found /\ witnesses = <<>>,
                          additional |-> witnesses # <<>> /\ Bounded]

\* A loop that the enumeration is yet to close: some frame of the stack is on
\* it and has still to try the loop's next hop.
PendingOn(h) ==
    \E d \in 1..Len(stack) :
        /\ d <= Len(h) /\ stack[1].node = From[h[1]]
        /\ \A j \in 2..d : stack[j].via = h[j - 1]
        /\ h[d] \in stack[d].untried

\* Unless a bound stopped something, no proven loop is lost.
CompleteInv ==
    /\ phase = "enumeration" /\ reached \cap {"cycles", "length", "steps"} = {} =>
          \A h \in Proven :
              From[h[1]] \in starts \/ WitnessOf(h) \in listed \/ PendingOn(h)
    /\ /\ phase \in {"validation", "answered"} /\ 0 \in found
       /\ reached \cap {"existence", "cycles", "length", "steps", "validation"} = {}
       => \A h \in Proven : Certain(h) => WitnessOf(h) \in listed \cup Listed

DetectorInv ==
    RequestInv /\ ExistenceInv /\ StackInv /\ ListInv /\ AnswerInv /\ CompleteInv

-----------------------------------------------------------------------------
(* What the steps have in common                                           *)

\* No limit is zero.
LEMMA LimitFacts ==
    ASSUME limits \in Limits
    PROVE  /\ limits.hops \in Nat \ {0} /\ limits.witnesses \in Nat \ {0}
           /\ limits.cycles \in Nat \ {0} /\ limits.steps \in Nat \ {0}
           /\ limits.candidates \in Nat \ {0} /\ limits.validation \in Nat \ {0}
BY LimitAssumption

\* What is asked about is declared, and the depth of the search is bounded.
LEMMA QuestionFacts ==
    ASSUME RequestInv
    PROVE  /\ Candidates \subseteq Selector /\ Candidates \subseteq Nat
           /\ \A e \in Edge : Mask(e) \subseteq Candidates
           /\ Depth \in Nat \ {0} \/ Resource = {}
           /\ Depth \in Nat /\ Depth <= limits.hops /\ Depth <= Rounds
           /\ Edge \subseteq Nat /\ Resource \subseteq Nat
           /\ \A e \in Edge : From[e] \in Resource /\ To[e] \in Resource
<1>1. Selector \subseteq Nat /\ Admitted \in [Edge -> SUBSET Selector]
  BY TopologyAssumption DEF Canonical
<1>2. Candidates \subseteq Selector
  BY <1>1 DEF Candidates, RequestInv, Source, Hop
<1>3. \A e \in Edge : Mask(e) \subseteq Candidates
  BY DEF Mask
<1>4. limits.hops \in Nat \ {0} /\ Rounds \in Nat /\ (Rounds = 0 => Resource = {})
  BY LimitFacts, RoundsNatural DEF RequestInv
<1>5. /\ Depth \in Nat \ {0} \/ Resource = {}
      /\ Depth \in Nat /\ Depth <= limits.hops /\ Depth <= Rounds
  BY <1>4 DEF Depth, Rounds
<1>6. Edge \subseteq Nat /\ Resource \subseteq Nat
  <2>1. Cardinality(Edge) \in Nat /\ Edge = 1..Cardinality(Edge)
    BY TopologyAssumption, FS_CardinalityType DEF Canonical
  <2> QED BY <2>1, RoundsNatural
<1>7. \A e \in Edge : From[e] \in Resource /\ To[e] \in Resource
  BY TopologyAssumption DEF Canonical
<1> QED BY <1>1, <1>2, <1>3, <1>5, <1>6, <1>7

\* While the question is the same, so is all that is computed from it.
LEMMA SameQuestion ==
    ASSUME UNCHANGED Request
    PROVE  /\ Candidates' = Candidates /\ Depth' = Depth
           /\ \A e : Mask(e)' = Mask(e)
           /\ \A v : ProvenOut(v)' = ProvenOut(v)
           /\ \A s : Probed(s)' = Probed(s)
           /\ \A h : WitnessOf(h)' = WitnessOf(h)
           /\ Proven' = Proven /\ Listable' = Listable
           /\ RequestInv => RequestInv'
<1>1. limits' = limits /\ hops' = hops /\ scope' = scope
  BY DEF Request
<1>2. Candidates' = Candidates /\ Depth' = Depth
  BY <1>1 DEF Candidates, Source, Possible, Depth
<1>3. /\ \A e : Mask(e)' = Mask(e)
      /\ \A e : Traversable(e)' = Traversable(e)
      /\ \A e : Class(e)' = Class(e)
      /\ \A e : Possible(e)' = Possible(e)
  BY <1>1, <1>2 DEF Mask, Source, Traversable, Possible, Class
<1>4. /\ \A v : ProvenOut(v)' = ProvenOut(v)
      /\ \A s, k : Usable(s, k)' = Usable(s, k)
      /\ \A h, k : Carried(h, k)' = Carried(h, k)
  BY <1>2, <1>3 DEF ProvenOut, Usable, Carried
<1>5. \A s : Probed(s)' = Probed(s)
  BY <1>4 DEF Probed, HasCycle
<1>6. \A h : WitnessOf(h)' = WitnessOf(h)
  BY <1>4 DEF WitnessOf
<1>7. Proven' = Proven
  BY <1>4 DEF Proven, Loops
<1>8. Listable' = Listable
  BY <1>1, <1>6, <1>7 DEF Listable
<1>9. RequestInv => RequestInv'
  BY <1>1 DEF RequestInv, Hop
<1> QED BY <1>2, <1>3, <1>4, <1>5, <1>6, <1>7, <1>8, <1>9

\* The tables Init takes the resolutions from.
LEMMA TablesTyped == \A table \in HopTables : table \in [Edge -> Hop]
<1> DEFINE N == Cardinality(Edge)
           Set == SUBSET Seq(Hop)
           Extended(ts, n) == {Append(t, r) : t \in ts, r \in Resolution(n)}
           Blank == {<<>>}
           IsTables(g) ==
             g = [n \in 0..N |-> IF n = 0 THEN Blank ELSE Extended(g[n - 1], n)]
           F == [n \in Nat |-> [X \in Set |-> IF n \in Edge THEN Extended(X, n) ELSE {}]]
           tables == CHOOSE g : IsTables(g)
<1>1. N \in Nat /\ Edge = 1..N
  BY TopologyAssumption, FS_CardinalityType DEF Canonical
<1>2. HopTables = tables[N]
  BY DEF HopTables
<1>3. \A n \in Edge : Resolution(n) \subseteq Hop
  BY TopologyAssumption, LimitAssumption DEF Canonical, Resolution, Hop, Open
<1>4. \A n \in Edge : \A S \in Set : Extended(S, n) \in Set
  BY <1>3
<1>5. Blank \in Set /\ {} \in Set
  OBVIOUS
<1>6. \A n \in Edge : \A S \in Set : \A t \in Extended(S, n) :
         \E u \in S, r \in Resolution(n) : t = Append(u, r)
  OBVIOUS
<1>7. \A t \in Blank : t = <<>>
  OBVIOUS
<1> HIDE DEF N, Extended, Blank
<1>8. Maps(F, Set)
  BY <1>4, <1>5 DEF Maps
<1>9. PICK g : Iterates(g, Set, Blank, F, N)
  <2> HIDE DEF F, Set
  <2> QED BY <1>1, <1>5, <1>8, Recursion
<1> HIDE DEF Set
<1>10. IsTables(g)
  <2>1. \A n \in 0..N : g[n] = IF n = 0 THEN Blank ELSE Extended(g[n - 1], n)
    <3> TAKE n \in 0..N
    <3>1. CASE n = 0
      BY <1>9, <3>1 DEF Iterates
    <3>2. CASE n # 0
      <4>1. n \in 1..N /\ n - 1 \in 0..N /\ n \in Nat /\ n \in Edge
        BY <1>1, <3>2
      <4>2. g[n - 1] \in Set /\ g[n] = F[n][g[n - 1]]
        BY <1>9, <4>1 DEF Iterates
      <4> QED BY <3>2, <4>1, <4>2
    <3> QED BY <3>1, <3>2
  <2>2. g = [n \in 0..N |-> g[n]]
    BY <1>9 DEF Iterates
  <2> QED BY <2>1, <2>2
<1>11. IsTables(tables)
  <2> HIDE DEF IsTables
  <2> QED BY <1>10
<1> HIDE DEF tables
<1>12. tables[0] = Blank /\ \A n \in 1..N : tables[n] = Extended(tables[n - 1], n)
  BY <1>1, <1>11
<1> DEFINE T == {n \in Nat : n <= N => tables[n] \in Set /\ \A t \in tables[n] : Len(t) = n}
<1>13. T = Nat
  <2>1. 0 \in T
    BY <1>5, <1>7, <1>12
  <2>2. \A n \in T : n + 1 \in T
    <3> TAKE n \in T
    <3> SUFFICES ASSUME n + 1 <= N
                 PROVE  tables[n + 1] \in Set /\ \A t \in tables[n + 1] : Len(t) = n + 1
      OBVIOUS
    <3>1. n + 1 \in 1..N /\ (n + 1) - 1 = n /\ n <= N /\ n + 1 \in Edge
      BY <1>1
    <3>2. tables[n + 1] = Extended(tables[n], n + 1) /\ tables[n] \in Set
      BY <1>12, <3>1
    <3>3. ASSUME NEW t \in tables[n + 1] PROVE Len(t) = n + 1
      <4>1. PICK u \in tables[n], r \in Resolution(n + 1) : t = Append(u, r)
        BY <1>6, <3>1, <3>2
      <4>2. u \in Seq(Hop) /\ Len(u) = n /\ r \in Hop
        BY <1>3, <3>1, <3>2, <4>1 DEF Set
      <4> QED BY <4>1, <4>2
    <3> QED BY <1>4, <3>1, <3>2, <3>3
  <2>3. T \subseteq Nat
    OBVIOUS
  <2> HIDE DEF T
  <2> QED BY <2>1, <2>2, <2>3, NaturalSet
<1>14. \A t \in tables[N] : t \in Seq(Hop) /\ Len(t) = N
  BY <1>1, <1>13 DEF Set
<1> QED BY <1>1, <1>2, <1>14

\* The invariant holds of every request before it is answered.
LEMMA InitInv == Init => DetectorInv
<1> SUFFICES ASSUME Init PROVE DetectorInv
  OBVIOUS
<1>1. DetectorInit
  BY DEF Init
<1>2. RequestInv
  <2>1. hops \in [Edge -> Hop]
    BY <1>1, TablesTyped DEF DetectorInit
  <2> QED BY <1>1, <2>1 DEF DetectorInit, RequestInv
<1>3. ExistenceInv
  BY <1>1 DEF DetectorInit, ExistenceInv
<1>4. StackInv
  <2>1. Depth \in Nat
    BY <1>2, QuestionFacts
  <2>2. stack = <<>> /\ Len(stack) = 0 /\ starts = {} /\ phase = "asked"
    BY <1>1 DEF DetectorInit
  <2>3. stack \in Seq(StackFrame)
    BY <2>2
  <2> QED BY <2>1, <2>2, <2>3 DEF StackInv
<1>5. ListInv
  <2>1. IsFiniteSet({}) /\ Cardinality({}) = 0
    BY FS_EmptySet
  <2>2. limits.witnesses \in Nat /\ limits.cycles \in Nat
    BY <1>2, LimitFacts DEF RequestInv
  <2> QED BY <1>1, <2>1, <2>2 DEF DetectorInit, ListInv
<1>6. AnswerInv
  BY <1>1 DEF DetectorInit, AnswerInv
<1>7. CompleteInv
  BY <1>1 DEF DetectorInit, CompleteInv
<1> QED BY <1>2, <1>3, <1>4, <1>5, <1>6, <1>7 DEF DetectorInv

\* A step that leaves the enumeration alone.
LEMMA SameStack ==
    ASSUME DetectorInv, UNCHANGED Request, UNCHANGED <<stack, starts>>,
           phase' \in {"asked", "existence", "returned"} => stack = <<>>
    PROVE  StackInv'
<1>1. /\ Candidates' = Candidates /\ Depth' = Depth
      /\ \A v : ProvenOut(v)' = ProvenOut(v)
      /\ \A e : Mask(e)' = Mask(e)
  BY SameQuestion
<1>2. StackInv
  BY DEF DetectorInv
<1>3. stack' = stack /\ starts' = starts
  OBVIOUS
<1>4. \A i : CommonTo(stack, i)' = CommonTo(stack, i)
  BY <1>1, <1>3 DEF CommonTo
<1>5. stack' \in Seq(StackFrame)
  BY <1>2, <1>3 DEF StackInv
<1>6. StackFrame' = StackFrame
  BY DEF StackFrame
<1> QED BY <1>1, <1>2, <1>3, <1>4, <1>5, <1>6 DEF StackInv

\* A question that is refused was not searched.
LEMMA TooManyKeeps == DetectorInv /\ TooMany => DetectorInv'
<1> SUFFICES ASSUME DetectorInv, TooMany PROVE DetectorInv'
  OBVIOUS
<1>1. UNCHANGED Request /\ phase = "asked" /\ phase' = "answered"
  BY DEF TooMany
<1>2. /\ UNCHANGED <<todo, found, steps, starts, stack, cycles, listed, witnesses, reached>>
      /\ answer' = [outcome |-> "Indeterminate", limit |-> TRUE, additional |-> FALSE]
  BY DEF TooMany, Existence, Enumeration
<1>3. /\ Candidates' = Candidates /\ Listable' = Listable /\ limits' = limits
      /\ RequestInv'
  BY <1>1, SameQuestion DEF DetectorInv, Request
<1>4. ExistenceInv'
  BY <1>1, <1>2, <1>3 DEF DetectorInv, ExistenceInv
<1>5. StackInv'
  BY <1>1, <1>2, SameStack
<1>6. ListInv'
  BY <1>1, <1>2, <1>3 DEF DetectorInv, ListInv, Certain
<1>7. AnswerInv'
  BY <1>1, <1>2 DEF DetectorInv, AnswerInv, ExistenceInv, ListInv
<1>8. CompleteInv'
  BY <1>1, <1>2 DEF DetectorInv, CompleteInv, ExistenceInv
<1> QED BY <1>3, <1>4, <1>5, <1>6, <1>7, <1>8 DEF DetectorInv

\* Nothing is probed when the existence proof begins.
LEMMA BeginKeeps == DetectorInv /\ Begin => DetectorInv'
<1> SUFFICES ASSUME DetectorInv, Begin PROVE DetectorInv'
  OBVIOUS
<1>1. UNCHANGED Request /\ phase = "asked" /\ phase' = "existence" /\ todo' = Candidates
  BY DEF Begin
<1>2. UNCHANGED <<found, steps, starts, stack, cycles, listed, witnesses, answer, reached>>
  BY DEF Begin, Result, Enumeration
<1>3. /\ Candidates' = Candidates /\ Listable' = Listable /\ limits' = limits
      /\ RequestInv'
  BY <1>1, SameQuestion DEF DetectorInv, Request
<1>4. ExistenceInv'
  BY <1>1, <1>2, <1>3 DEF DetectorInv, ExistenceInv
<1>5. StackInv'
  BY <1>1, <1>2, SameStack DEF DetectorInv, StackInv
<1>6. ListInv'
  BY <1>1, <1>2, <1>3 DEF DetectorInv, ListInv, Certain
<1>7. AnswerInv'
  BY <1>1, <1>2 DEF DetectorInv, AnswerInv, Pending
<1>8. CompleteInv'
  BY <1>1 DEF CompleteInv
<1> QED BY <1>3, <1>4, <1>5, <1>6, <1>7, <1>8 DEF DetectorInv

\* One more selector is probed, or the bound is recorded and none is.
LEMMA ProbeKeeps == DetectorInv /\ Probe => DetectorInv'
<1> SUFFICES ASSUME DetectorInv, Probe PROVE DetectorInv'
  OBVIOUS
<1>1. UNCHANGED Request /\ phase = "existence" /\ todo # {} /\ steps' = steps + Cardinality(Edge)
  BY DEF Probe
<1>2. UNCHANGED <<starts, stack, cycles, listed, witnesses, answer>>
  BY DEF Probe, Result, Enumeration
<1>3. /\ Candidates' = Candidates /\ Listable' = Listable /\ limits' = limits
      /\ RequestInv' /\ \A s : Probed(s)' = Probed(s)
  BY <1>1, SameQuestion DEF DetectorInv, Request
<1>4. StackInv'
  <2>1. stack = <<>>
    BY <1>1 DEF DetectorInv, StackInv
  <2> QED BY <1>1, <1>2, <2>1, SameStack
<1>5. steps' \in Nat
  <2>1. Cardinality(Edge) \in Nat
    BY TopologyAssumption, FS_CardinalityType DEF Canonical
  <2> QED BY <1>1, <2>1 DEF DetectorInv, ListInv
<1>6. phase' \in {"existence", "validation"}
  BY <1>1 DEF Probe
<1>7. ListInv'
  BY <1>1, <1>2, <1>3, <1>5, <1>6 DEF DetectorInv, ListInv, Certain
<1>8. CASE steps' > limits.steps
  <2>1. /\ reached' = reached \cup {"existence"} /\ phase' = "validation"
        /\ todo' = todo /\ found' = found
    BY <1>8 DEF Probe, Existence
  <2>2. ExistenceInv'
    BY <1>1, <1>3, <2>1 DEF DetectorInv, ExistenceInv
  <2>3. AnswerInv'
    BY <1>1, <1>2, <2>1 DEF DetectorInv, AnswerInv, Pending
  <2>4. CompleteInv'
    BY <2>1 DEF CompleteInv
  <2> QED BY <1>3, <1>4, <1>7, <2>2, <2>3, <2>4 DEF DetectorInv
<1>9. CASE ~ (steps' > limits.steps)
  <2>1. /\ found' = found \cup Probed(Least(todo)) /\ todo' = todo \ {Least(todo)}
        /\ phase' = phase /\ reached' = reached
    BY <1>9 DEF Probe
  <2>2. todo \subseteq Candidates /\ Least(todo) \in todo
    BY <1>1, QuestionFacts, LeastOf DEF DetectorInv, ExistenceInv
  <2>3. found = UNION {Probed(s) : s \in Candidates \ todo}
    BY <1>1 DEF DetectorInv, ExistenceInv
  <2>4. Candidates \ todo' = (Candidates \ todo) \cup {Least(todo)}
    BY <2>1, <2>2
  <2>5. found' = UNION {Probed(s) : s \in Candidates \ todo'}
    BY <2>1, <2>3, <2>4
  <2>6. ExistenceInv'
    <3>1. UNION {Probed(s) : s \in Candidates \ todo}' = UNION {Probed(s) : s \in Candidates \ todo'}
      BY <1>3
    <3> QED BY <1>1, <1>3, <2>1, <2>5, <3>1 DEF DetectorInv, ExistenceInv
  <2>7. Probed(Least(todo)) \subseteq 0..2
    BY DEF Probed
  <2>8. AnswerInv'
    BY <1>1, <1>2, <2>1, <2>7 DEF DetectorInv, AnswerInv, Pending
  <2>9. CompleteInv'
    BY <1>1, <2>1 DEF CompleteInv
  <2> QED BY <1>3, <1>4, <1>7, <2>6, <2>8, <2>9 DEF DetectorInv
<1> QED BY <1>8, <1>9

\* When all selectors are probed, every loop is ahead of the enumeration.
LEMMA ProbesKeeps == DetectorInv /\ Probes => DetectorInv'
<1> SUFFICES ASSUME DetectorInv, Probes PROVE DetectorInv'
  OBVIOUS
<1>1. /\ UNCHANGED Request /\ phase = "existence" /\ todo = {} /\ starts' = Resource
      /\ steps' = 0
      /\ phase' = IF 0 \in found THEN "enumeration" ELSE "validation"
  BY DEF Probes
<1>2. UNCHANGED <<todo, found, stack, cycles, listed, witnesses, answer, reached>>
  BY DEF Probes, Result, Existence
<1>3. /\ Candidates' = Candidates /\ Listable' = Listable /\ limits' = limits
      /\ RequestInv' /\ Proven' = Proven /\ Depth' = Depth /\ \A s : Probed(s)' = Probed(s)
  BY <1>1, SameQuestion DEF DetectorInv, Request
<1>4. ExistenceInv'
  <2>1. UNION {Probed(s) : s \in Candidates \ todo}' = UNION {Probed(s) : s \in Candidates \ todo}
    BY <1>2, <1>3
  <2> QED BY <1>1, <1>2, <1>3, <2>1 DEF DetectorInv, ExistenceInv
<1>5. StackInv'
  <2>1. stack = <<>> /\ stack' = <<>> /\ Len(<<>>) = 0
    BY <1>1, <1>2 DEF DetectorInv, StackInv
  <2>2. Depth \in Nat
    BY QuestionFacts DEF DetectorInv
  <2>3. <<>> \in Seq(StackFrame')
    OBVIOUS
  <2> QED BY <1>1, <1>3, <2>1, <2>2, <2>3 DEF StackInv
<1>6. ListInv'
  <2>1. limits.witnesses \in Nat \ {0} /\ limits.cycles \in Nat
    BY LimitFacts DEF DetectorInv, RequestInv
  <2>2. listed = {} /\ cycles = 0 /\ witnesses = <<>>
    BY <1>1 DEF DetectorInv, ListInv
  <2>3. Cardinality({}) = 0 /\ IsFiniteSet({})
    BY FS_EmptySet
  <2> QED BY <1>1, <1>2, <1>3, <2>1, <2>2, <2>3 DEF ListInv
<1>7. AnswerInv'
  BY <1>1, <1>2 DEF DetectorInv, AnswerInv, Pending
<1>8. CompleteInv'
  <2>1. ASSUME NEW h \in Proven PROVE From[h[1]] \in Resource
    <3>1. h[1] \in Edge
      BY LoopForm, RoundsNatural DEF Proven
    <3> QED BY <3>1, QuestionFacts DEF DetectorInv
  <2> QED BY <1>1, <1>2, <1>3, <2>1 DEF CompleteInv
<1> QED BY <1>3, <1>4, <1>5, <1>6, <1>7, <1>8 DEF DetectorInv

-----------------------------------------------------------------------------
(* The enumeration                                                         *)

\* What a step of the enumeration cannot disturb.
LEMMA Enumerating ==
    ASSUME DetectorInv, phase = "enumeration", phase' = "enumeration",
           UNCHANGED Request, UNCHANGED Existence, UNCHANGED Result,
           reached' \in {reached} \cup {reached \cup {b} : b \in {"steps", "cycles", "length"}}
    PROVE  RequestInv' /\ ExistenceInv' /\ AnswerInv'
<1>1. /\ Candidates' = Candidates /\ RequestInv' /\ \A s : Probed(s)' = Probed(s)
  BY SameQuestion DEF DetectorInv
<1>2. todo' = todo /\ found' = found /\ answer' = answer
  BY DEF Existence, Result
<1>3. UNION {Probed(s) : s \in Candidates \ todo}' = UNION {Probed(s) : s \in Candidates \ todo}
  BY <1>1, <1>2
<1>4. /\ "existence" \notin reached /\ "existence" \notin reached'
      /\ reached' \subseteq {"existence", "steps", "cycles", "length", "validation"}
  BY DEF DetectorInv, ExistenceInv, AnswerInv
<1>5. ExistenceInv'
  BY <1>1, <1>2, <1>3, <1>4 DEF DetectorInv, ExistenceInv
<1>6. AnswerInv'
  BY <1>2, <1>4 DEF DetectorInv, AnswerInv, Pending
<1> QED BY <1>1, <1>5, <1>6

\* The proven loops of a start become pending at its first frame.
LEMMA StartKeeps == DetectorInv /\ Start => DetectorInv'
<1> SUFFICES ASSUME DetectorInv, Start PROVE DetectorInv'
  OBVIOUS
<1> DEFINE v == Least(starts)
           frame == [node |-> v, via |-> Least(Edge), untried |-> ProvenOut(v),
                     mask |-> Candidates]
<1>1. /\ phase = "enumeration" /\ phase' = phase /\ stack = <<>> /\ starts # {}
      /\ stack' = <<frame>> /\ starts' = starts \ {v}
      /\ UNCHANGED Request /\ UNCHANGED Existence /\ UNCHANGED Result
      /\ UNCHANGED <<steps, cycles, listed, reached>>
  BY DEF Start
<1>2. /\ Candidates' = Candidates /\ Listable' = Listable /\ limits' = limits
      /\ Proven' = Proven /\ Depth' = Depth /\ \A x : ProvenOut(x)' = ProvenOut(x)
      /\ \A h : WitnessOf(h)' = WitnessOf(h) /\ \A e : Mask(e)' = Mask(e)
  BY <1>1, SameQuestion DEF Request
<1>3. RequestInv' /\ ExistenceInv' /\ AnswerInv'
  BY <1>1, Enumerating
<1>4. v \in starts /\ v \in Resource
  <2>1. starts \subseteq Resource
    BY DEF DetectorInv, StackInv
  <2>2. Resource \subseteq Nat
    BY QuestionFacts DEF DetectorInv
  <2> QED BY <1>1, <2>1, <2>2, LeastOf
<1>5. frame \in StackFrame
  <2>1. ProvenOut(v) \subseteq Edge
    BY DEF ProvenOut
  <2>2. Candidates \subseteq Selector
    BY QuestionFacts DEF DetectorInv
  <2> QED BY <1>4, <2>1, <2>2 DEF StackFrame
<1>6. /\ stack' \in Seq(StackFrame) /\ Len(stack') = 1 /\ stack'[1] = frame
  <2> HIDE DEF frame
  <2> QED BY <1>1, <1>5
<1>7. StackInv'
  <2>1. Depth >= 1 /\ Depth \in Nat
    BY <1>4, QuestionFacts DEF DetectorInv
  <2>2. CommonTo(stack, 1)' = Candidates
    BY <1>2 DEF CommonTo
  <2>3. StackFrame' = StackFrame /\ starts' \subseteq Resource
    BY <1>1 DEF StackFrame, DetectorInv, StackInv
  <2>4. \A i \in 1..Len(stack') : i = 1
    BY <1>6
  <2>5. \A i \in 2..Len(stack') : FALSE
    BY <1>6
  <2>6. /\ stack'[1].untried \subseteq ProvenOut(stack[1].node)'
        /\ stack'[1].mask = CommonTo(stack, 1)'
    BY <1>2, <1>6, <2>2
  <2> HIDE DEF frame
  <2> QED BY <1>1, <1>2, <1>6, <2>1, <2>3, <2>4, <2>5, <2>6 DEF StackInv
<1>8. ListInv'
  BY <1>1, <1>2 DEF DetectorInv, ListInv, Certain, Existence, Result
<1>9. CompleteInv'
  <2> SUFFICES ASSUME reached' \cap {"cycles", "length", "steps"} = {}, NEW h \in Proven
               PROVE  \/ From[h[1]] \in starts' \/ WitnessOf(h)' \in listed'
                      \/ PendingOn(h)'
    BY <1>1, <1>2 DEF CompleteInv
  <2>1. From[h[1]] \in starts \/ WitnessOf(h) \in listed
    <3>1. ~ PendingOn(h)
      BY <1>1 DEF PendingOn
    <3> QED BY <1>1, <3>1 DEF DetectorInv, CompleteInv
  <2>2. ASSUME From[h[1]] = v PROVE PendingOn(h)'
    <3>1. h[1] \in Edge /\ 1 <= Len(h) /\ 1 \in DOMAIN h /\ Len(h) \in Nat
      BY LoopForm, RoundsNatural DEF Proven
    <3>2. Traversable(h[1]) /\ Class(h[1]) = 0
      <4>1. Class(h[1]) \in 0..3
        BY DEF Class
      <4>2. PICK s \in Carried(h, 0) : TRUE
        BY DEF Proven
      <4> QED BY <3>1, <4>1, <4>2 DEF Carried, Traversable
    <3>3. h[1] \in ProvenOut(v)
      BY <2>2, <3>1, <3>2 DEF ProvenOut
    <3>4. \A j \in 2..1 : FALSE
      OBVIOUS
    <3>5. stack'[1].untried = ProvenOut(v) /\ stack'[1].node = v
      BY <1>6
    <3> HIDE DEF frame, v
    <3> QED BY <1>6, <2>2, <3>1, <3>3, <3>4, <3>5 DEF PendingOn
  <2> QED BY <1>1, <1>2, <2>1, <2>2
<1> QED BY <1>3, <1>7, <1>8, <1>9 DEF DetectorInv

\* When the stack and the starts are used up, nothing is pending.
LEMMA EnumeratedKeeps == DetectorInv /\ Enumerated => DetectorInv'
<1> SUFFICES ASSUME DetectorInv, Enumerated PROVE DetectorInv'
  OBVIOUS
<1>1. /\ phase = "enumeration" /\ phase' = "validation"
      /\ UNCHANGED Request
      /\ Stopped \/ (stack = <<>> /\ starts = {})
  BY DEF Enumerated
<1>2. UNCHANGED <<todo, found, steps, starts, stack, cycles, listed, witnesses, answer, reached>>
  BY DEF Enumerated, Result, Existence, Enumeration
<1>3. /\ Candidates' = Candidates /\ Listable' = Listable /\ limits' = limits
      /\ RequestInv' /\ Proven' = Proven /\ \A s : Probed(s)' = Probed(s)
      /\ \A h : WitnessOf(h)' = WitnessOf(h)
  BY <1>1, SameQuestion DEF DetectorInv, Request
<1>4. ExistenceInv'
  <2>1. UNION {Probed(s) : s \in Candidates \ todo}' = UNION {Probed(s) : s \in Candidates \ todo}
    BY <1>2, <1>3
  <2> QED BY <1>1, <1>2, <1>3, <2>1 DEF DetectorInv, ExistenceInv
<1>5. StackInv'
  BY <1>1, <1>2, SameStack
<1>6. ListInv'
  BY <1>1, <1>2, <1>3 DEF DetectorInv, ListInv, Certain
<1>7. AnswerInv'
  BY <1>1, <1>2 DEF DetectorInv, AnswerInv, Pending
<1>8. CompleteInv'
  <2> SUFFICES ASSUME reached \cap {"existence", "cycles", "length", "steps", "validation"} = {},
                      NEW h \in Proven
               PROVE  WitnessOf(h) \in listed
    BY <1>1, <1>2, <1>3 DEF CompleteInv
  <2>1. stack = <<>> /\ starts = {}
    BY <1>1 DEF Stopped
  <2>2. ~ PendingOn(h)
    BY <2>1 DEF PendingOn
  <2> QED BY <1>1, <2>1, <2>2 DEF DetectorInv, CompleteInv
<1> QED BY <1>3, <1>4, <1>5, <1>6, <1>7, <1>8 DEF DetectorInv

\* No loop is pending at a frame that has no hop left to try.
LEMMA BacktrackKeeps == DetectorInv /\ Backtrack => DetectorInv'
<1> SUFFICES ASSUME DetectorInv, Backtrack PROVE DetectorInv'
  OBVIOUS
<1> DEFINE n == Len(stack)
<1>1. /\ phase = "enumeration" /\ phase' = phase /\ stack # <<>> /\ stack[n].untried = {}
      /\ stack' = SubSeq(stack, 1, n - 1) /\ starts' = starts
      /\ UNCHANGED Request /\ UNCHANGED Existence /\ UNCHANGED Result
      /\ UNCHANGED <<steps, cycles, listed, reached>>
  BY DEF Backtrack, Top
<1>2. /\ Candidates' = Candidates /\ Listable' = Listable /\ limits' = limits
      /\ Proven' = Proven /\ Depth' = Depth /\ \A x : ProvenOut(x)' = ProvenOut(x)
      /\ \A h : WitnessOf(h)' = WitnessOf(h) /\ \A e : Mask(e)' = Mask(e)
  BY <1>1, SameQuestion DEF Request
<1>3. RequestInv' /\ ExistenceInv' /\ AnswerInv'
  BY <1>1, Enumerating
<1>4. /\ stack \in Seq(StackFrame) /\ n \in Nat \ {0}
  BY <1>1 DEF DetectorInv, StackInv
<1>5. /\ stack' \in Seq(StackFrame) /\ Len(stack') = n - 1
      /\ \A i \in 1..(n - 1) : stack'[i] = stack[i]
  <2>1. 1 \in 1..(n + 1) /\ n - 1 \in (1 - 1)..n
    BY <1>4
  <2>2. /\ SubSeq(stack, 1, n - 1) \in Seq(StackFrame)
        /\ Len(SubSeq(stack, 1, n - 1)) = IF 1 <= n - 1 THEN (n - 1) - 1 + 1 ELSE 0
        /\ \A i \in 1..((n - 1) - 1 + 1) : SubSeq(stack, 1, n - 1)[i] = stack[1 + i - 1]
    BY <1>4, <2>1, SubSeqProperties
  <2>3. ((n - 1) - 1 + 1 = n - 1) /\ \A i \in 1..(n - 1) : 1 + i - 1 = i
    BY <1>4
  <2>4. \A i \in 1..(n - 1) : SubSeq(stack, 1, n - 1)[i] = stack[i]
    BY <2>2, <2>3
  <2>5. Len(SubSeq(stack, 1, n - 1)) = n - 1
    <3>1. n \in Nat \ {0}
      BY <1>4
    <3> HIDE DEF n
    <3>2. (1 <= n - 1 /\ (n - 1) - 1 + 1 = n - 1) \/ (~ (1 <= n - 1) /\ n - 1 = 0)
      BY <3>1
    <3> QED BY <2>2, <3>2
  <2> QED BY <1>1, <2>2, <2>4, <2>5
<1>6. \A i \in 1..(n - 1) : CommonTo(stack, i)' = CommonTo(stack, i)
  BY <1>2, <1>4, <1>5 DEF CommonTo
<1>7. StackInv'
  <2>1. StackFrame' = StackFrame
    BY DEF StackFrame
  <2>2. Depth \in Nat /\ n <= Depth
    BY QuestionFacts DEF DetectorInv, StackInv
  <2>3. \A i \in 1..Len(stack') : /\ stack'[i].untried \subseteq ProvenOut(stack[i].node)'
                                 /\ stack'[i].mask = CommonTo(stack, i)'
    BY <1>2, <1>4, <1>5, <1>6 DEF DetectorInv, StackInv
  <2>4. \A i \in 2..Len(stack') :
           /\ stack'[i].via \in ProvenOut(stack[i - 1].node)'
           /\ To[stack'[i].via] = stack'[i].node
           /\ stack'[i].node > stack'[1].node
    <3> TAKE i \in 2..Len(stack')
    <3>1. i \in 1..(n - 1) /\ i - 1 \in 1..(n - 1) /\ i \in 2..n /\ 1 \in 1..(n - 1)
      BY <1>4, <1>5
    <3>2. /\ stack'[i] = stack[i] /\ stack'[i - 1] = stack[i - 1] /\ stack'[1] = stack[1]
      BY <1>5, <3>1
    <3> QED BY <1>2, <3>1, <3>2 DEF DetectorInv, StackInv
  <2>5. \A i, j \in 1..Len(stack') : stack'[i].node = stack'[j].node => i = j
    BY <1>4, <1>5 DEF DetectorInv, StackInv
  <2> QED BY <1>1, <1>2, <1>4, <1>5, <2>1, <2>2, <2>3, <2>4, <2>5 DEF StackInv, DetectorInv
<1>8. ListInv'
  BY <1>1, <1>2 DEF DetectorInv, ListInv, Certain, Existence, Result
<1>9. CompleteInv'
  <2> SUFFICES ASSUME reached' \cap {"cycles", "length", "steps"} = {}, NEW h \in Proven
               PROVE  \/ From[h[1]] \in starts' \/ WitnessOf(h)' \in listed'
                      \/ PendingOn(h)'
    BY <1>1, <1>2 DEF CompleteInv
  <2>1. From[h[1]] \in starts \/ WitnessOf(h) \in listed \/ PendingOn(h)
    BY <1>1 DEF DetectorInv, CompleteInv
  <2>2. ASSUME PendingOn(h) PROVE PendingOn(h)'
    <3>1. PICK d \in 1..n : /\ d <= Len(h) /\ stack[1].node = From[h[1]]
                            /\ \A j \in 2..d : stack[j].via = h[j - 1]
                            /\ h[d] \in stack[d].untried
      BY <2>2 DEF PendingOn
    <3>2. d # n
      BY <1>1, <3>1
    <3>3. d \in 1..(n - 1) /\ 1 \in 1..(n - 1) /\ \A j \in 2..d : j \in 1..(n - 1)
      BY <1>4, <3>1, <3>2
    <3> QED BY <1>5, <3>1, <3>3 DEF PendingOn
  <2> QED BY <1>1, <1>2, <2>1, <2>2
<1> QED BY <1>3, <1>7, <1>8, <1>9 DEF DetectorInv

-----------------------------------------------------------------------------
(* A hop is examined                                                       *)

\* The stack is on the loop, and the hop tried is the loop's next.
OnTop(h, e) ==
    /\ Len(stack) <= Len(h) /\ stack[1].node = From[h[1]]
    /\ \A j \in 2..Len(stack) : stack[j].via = h[j - 1]
    /\ h[Len(stack)] = e

\* Every hop of a proven loop is among those the enumeration tries.
LEMMA ProvenHops ==
    ASSUME NEW h \in Proven
    PROVE  /\ Len(h) \in Nat \ {0} /\ DOMAIN h = 1..Len(h) /\ h \in Seq(Edge)
           /\ \A i \in 1..Len(h) : h[i] \in Edge /\ h[i] \in ProvenOut(From[h[i]])
<1>1. h \in Loops /\ Carried(h, 0) # {}
  BY DEF Proven
<1>2. /\ Len(h) \in Nat \ {0} /\ DOMAIN h = 1..Len(h) /\ h \in Seq(Edge)
      /\ \A i \in 1..Len(h) : h[i] \in Edge
  BY <1>1, LoopForm, RoundsNatural
<1>3. PICK s \in Carried(h, 0) : TRUE
  BY <1>1
<1>4. ASSUME NEW i \in 1..Len(h) PROVE h[i] \in ProvenOut(From[h[i]])
  <2>1. Possible(h[i]) /\ s \in Mask(h[i]) /\ Class(h[i]) <= 0
    BY <1>2, <1>3 DEF Carried
  <2>2. Class(h[i]) \in 0..3
    BY DEF Class
  <2> QED BY <1>2, <2>1, <2>2 DEF ProvenOut, Traversable
<1> QED BY <1>2, <1>4

\* Taking a hop off the top changes nothing else of the stack.
LEMMA TriedStack ==
    ASSUME DetectorInv, NEW e, Examine(e)
    PROVE  /\ Len(stack) \in Nat \ {0} /\ stack \in Seq(StackFrame)
           /\ e \in ProvenOut(stack[Len(stack)].node) /\ e \in Edge
           /\ Tried(e) \in Seq(StackFrame) /\ Len(Tried(e)) = Len(stack)
           /\ \A i \in 1..Len(stack) : /\ Tried(e)[i].node = stack[i].node
                                       /\ Tried(e)[i].via = stack[i].via
                                       /\ Tried(e)[i].mask = stack[i].mask
                                       /\ Tried(e)[i].untried \subseteq stack[i].untried
           /\ \A i \in 1..Len(stack) : \A f \in stack[i].untried :
                 f \in Tried(e)[i].untried \/ (i = Len(stack) /\ f = e)
<1> DEFINE n == Len(stack)
<1>1. stack # <<>> /\ stack[n].untried # {} /\ e = Least(stack[n].untried)
  BY DEF Examine, Top
<1>2. stack \in Seq(StackFrame) /\ n \in Nat \ {0} /\ DOMAIN stack = 1..n
  BY <1>1 DEF DetectorInv, StackInv
<1>3. stack[n].untried \subseteq ProvenOut(stack[n].node) /\ stack[n] \in StackFrame
  BY <1>2 DEF DetectorInv, StackInv
<1>4. Edge \subseteq Nat
  BY QuestionFacts DEF DetectorInv
<1>5. e \in stack[n].untried /\ e \in Edge
  BY <1>1, <1>3, <1>4, LeastOf DEF StackFrame
<1> DEFINE frame == [stack[n] EXCEPT !.untried = @ \ {e}]
<1>6. frame \in StackFrame
  BY <1>3 DEF StackFrame
<1>7. Tried(e) = [stack EXCEPT ![n] = frame]
  BY DEF Tried
<1>8. /\ frame.node = stack[n].node /\ frame.via = stack[n].via
      /\ frame.mask = stack[n].mask /\ frame.untried = stack[n].untried \ {e}
  BY <1>3 DEF StackFrame
<1> HIDE DEF frame
<1>9. Tried(e) \in Seq(StackFrame) /\ Len(Tried(e)) = n
  BY <1>2, <1>6, <1>7, ExceptSeq
<1>10. \A i \in 1..n : Tried(e)[i] = IF i = n THEN frame ELSE stack[i]
  BY <1>2, <1>7
<1> QED BY <1>2, <1>3, <1>5, <1>8, <1>9, <1>10

\* Trying a hop takes nothing but the hop off the top of the stack.
LEMMA TriedKeepsStack ==
    ASSUME DetectorInv, NEW e, Examine(e), stack' = Tried(e)
    PROVE  StackInv'
<1> DEFINE n == Len(stack)
<1>1. UNCHANGED Request /\ starts' = starts /\ phase = "enumeration" /\ phase' = phase
  BY DEF Examine
<1>2. /\ Candidates' = Candidates /\ Depth' = Depth /\ \A x : ProvenOut(x)' = ProvenOut(x)
      /\ \A f : Mask(f)' = Mask(f)
  BY <1>1, SameQuestion
<1>3. /\ n \in Nat \ {0} /\ stack' \in Seq(StackFrame) /\ Len(stack') = n
      /\ \A i \in 1..n : /\ stack'[i].node = stack[i].node
                         /\ stack'[i].via = stack[i].via
                         /\ stack'[i].mask = stack[i].mask
                         /\ stack'[i].untried \subseteq stack[i].untried
  BY TriedStack
<1>4. \A i \in 1..n : CommonTo(stack, i)' = CommonTo(stack, i)
  <2> TAKE i \in 1..n
  <2>1. \A j \in 2..i : j \in 1..n
    BY <1>3
  <2> QED BY <1>2, <1>3, <2>1 DEF CommonTo
<1>5. StackFrame' = StackFrame
  BY DEF StackFrame
<1>6. \A i \in 1..n : /\ stack'[i].untried \subseteq ProvenOut(stack[i].node)'
                      /\ stack'[i].mask = CommonTo(stack, i)'
  BY <1>2, <1>3, <1>4 DEF DetectorInv, StackInv
<1>7. \A i \in 2..n : /\ stack'[i].via \in ProvenOut(stack[i - 1].node)'
                      /\ To[stack'[i].via] = stack'[i].node
                      /\ stack'[i].node > stack'[1].node
  <2> TAKE i \in 2..n
  <2>1. i \in 1..n /\ i - 1 \in 1..n /\ 1 \in 1..n
    BY <1>3
  <2> QED BY <1>2, <1>3, <2>1 DEF DetectorInv, StackInv
<1>8. \A i, j \in 1..n : stack'[i].node = stack'[j].node => i = j
  BY <1>3 DEF DetectorInv, StackInv
<1>9. starts' \subseteq Resource /\ n <= Depth'
  BY <1>1, <1>2 DEF DetectorInv, StackInv
<1> QED BY <1>1, <1>3, <1>5, <1>6, <1>7, <1>8, <1>9 DEF StackInv

\* A loop that was pending is still, unless the hop tried was its next.
LEMMA TriedKeepsPending ==
    ASSUME DetectorInv, NEW e, Examine(e), NEW h, PendingOn(h), ~ OnTop(h, e),
           Len(stack') \in Nat, Len(stack') >= Len(stack),
           \A i \in 1..Len(stack) : stack'[i] = Tried(e)[i]
    PROVE  PendingOn(h)'
<1>1. PICK d \in 1..Len(stack) : /\ d <= Len(h) /\ stack[1].node = From[h[1]]
                                 /\ \A j \in 2..d : stack[j].via = h[j - 1]
                                 /\ h[d] \in stack[d].untried
  BY DEF PendingOn
<1>2. Len(stack) \in Nat \ {0}
  BY TriedStack
<1>3. d \in 1..Len(stack') /\ 1 \in 1..Len(stack) /\ \A j \in 2..d : j \in 1..Len(stack)
  BY <1>2
<1>4. h[d] \in stack'[d].untried
  <2>1. h[d] \in Tried(e)[d].untried \/ (d = Len(stack) /\ h[d] = e)
    BY <1>1, TriedStack
  <2>2. ~ (d = Len(stack) /\ h[d] = e)
    BY <1>1 DEF OnTop
  <2> QED BY <2>1, <2>2
<1>5. stack'[1].node = From[h[1]] /\ \A j \in 2..d : stack'[j].via = h[j - 1]
  BY <1>1, <1>3, TriedStack
<1> QED BY <1>1, <1>3, <1>4, <1>5 DEF PendingOn

\* On a proven loop, the hop tried either closes it or leads on.
LEMMA NextOfLoop ==
    ASSUME DetectorInv, NEW e, Examine(e), NEW h \in Proven, OnTop(h, e)
    PROVE  /\ Len(h) = Len(stack) => Closes(e)
           /\ Len(h) # Len(stack) => Extends(e)
<1> DEFINE n == Len(stack)
<1>1. n \in Nat \ {0} /\ stack[n].mask = CommonTo(stack, n) /\ n <= Len(h)
  BY TriedStack DEF DetectorInv, StackInv, OnTop
<1>2. /\ Len(h) \in Nat \ {0} /\ DOMAIN h = 1..Len(h) /\ Carried(h, 0) # {}
      /\ \A i \in 1..Len(h) : h[i] \in Edge
  BY ProvenHops DEF Proven
<1>3. Common(e) # {}
  <2>1. PICK s \in Carried(h, 0) : TRUE
    BY <1>2
  <2>2. s \in Candidates /\ \A i \in 1..Len(h) : s \in Mask(h[i])
    BY <1>2, <2>1 DEF Carried
  <2>3. \A j \in 2..n : s \in Mask(stack[j].via)
    <3> TAKE j \in 2..n
    <3>1. stack[j].via = h[j - 1] /\ j - 1 \in 1..Len(h)
      BY <1>1, <1>2 DEF OnTop
    <3> QED BY <2>2, <3>1
  <2>4. s \in Mask(e)
    BY <1>1, <2>2 DEF OnTop
  <2> QED BY <1>1, <2>2, <2>3, <2>4 DEF Common, Top, CommonTo
<1>4. /\ \A i \in 1..Len(h) : To[h[i]] = From[Follows(h, Len(h), i)]
      /\ \A i, j \in 1..Len(h) : From[h[i]] = From[h[j]] => i = j
      /\ \A i \in 1..Len(h) : From[h[1]] <= From[h[i]]
  BY LoopForm DEF Proven, Closed
<1>5. \A i \in 1..n : stack[i].node = From[h[i]]
  <2> TAKE i \in 1..n
  <2>1. CASE i = 1
    BY <2>1 DEF OnTop
  <2>2. CASE i # 1
    <3>1. i \in 2..n /\ i - 1 \in 1..Len(h) /\ i - 1 # Len(h) /\ (i - 1) + 1 = i
      BY <1>1, <1>2, <2>2
    <3>2. stack[i].node = To[stack[i].via] /\ stack[i].via = h[i - 1]
      BY <3>1 DEF DetectorInv, StackInv, OnTop
    <3>3. Follows(h, Len(h), i - 1) = h[i]
      BY <3>1 DEF Follows
    <3> QED BY <1>4, <3>1, <3>2, <3>3
  <2> QED BY <2>1, <2>2
<1>6. e = h[n] /\ stack[1].node = From[h[1]]
  BY DEF OnTop
<1>7. CASE Len(h) = n
  <2>1. To[e] = From[h[1]]
    <3>1. n \in 1..Len(h) /\ Follows(h, Len(h), n) = h[1]
      BY <1>1, <1>2, <1>7 DEF Follows
    <3> QED BY <1>4, <1>6, <3>1
  <2> QED BY <1>3, <1>6, <1>7, <2>1 DEF Closes
<1>8. CASE Len(h) # n
  <2>1. n + 1 \in 1..Len(h) /\ n \in 1..Len(h) /\ 1 \in 1..Len(h) /\ n + 1 # 1
    BY <1>1, <1>2, <1>8
  <2>2. To[e] = From[h[n + 1]]
    BY <1>4, <1>6, <1>8, <2>1 DEF Follows
  <2>3. From[h[n + 1]] > From[h[1]]
    <3>1. From[h[n + 1]] \in Nat /\ From[h[1]] \in Nat
      BY <1>2, <2>1, QuestionFacts DEF DetectorInv
    <3> QED BY <1>4, <2>1, <3>1
  <2>4. To[e] \notin Nodes(stack)
    <3>1. DOMAIN stack = 1..n
      BY TriedStack
    <3>2. \A i \in 1..n : i \in 1..Len(h) /\ i # n + 1
      BY <1>1, <1>2
    <3> QED BY <1>4, <1>5, <2>1, <2>2, <3>1, <3>2 DEF Nodes
  <2> QED BY <1>3, <1>6, <1>8, <2>2, <2>3, <2>4 DEF Extends
<1> QED BY <1>7, <1>8

\* The unbounded outcomes of a hop: nothing that was pending is lost, unless
\* a bound is reached.
LEMMA OutOfStepsKeeps == ASSUME NEW e PROVE DetectorInv /\ OutOfSteps(e) => DetectorInv'
<1> SUFFICES ASSUME DetectorInv, OutOfSteps(e) PROVE DetectorInv'
  OBVIOUS
<1>1. /\ Examine(e) /\ stack' = Tried(e) /\ reached' = reached \cup {"steps"}
      /\ cycles' = cycles /\ listed' = listed
  BY DEF OutOfSteps
<1>2. /\ phase = "enumeration" /\ phase' = phase /\ steps' = steps + 1
      /\ UNCHANGED Request /\ UNCHANGED Existence /\ UNCHANGED Result
      /\ witnesses' = witnesses
  BY <1>1 DEF Examine, Result
<1>3. RequestInv' /\ ExistenceInv' /\ AnswerInv'
  BY <1>1, <1>2, Enumerating
<1>4. StackInv'
  BY <1>1, TriedKeepsStack
<1>5. ListInv'
  BY <1>1, <1>2, SameQuestion DEF DetectorInv, ListInv, Certain, Request, Existence
<1>6. CompleteInv'
  BY <1>1, <1>2 DEF CompleteInv
<1> QED BY <1>3, <1>4, <1>5, <1>6 DEF DetectorInv

\* At the depth a bound is recorded as well.
LEMMA ReachLengthKeeps == ASSUME NEW e PROVE DetectorInv /\ ReachLength(e) => DetectorInv'
<1> SUFFICES ASSUME DetectorInv, ReachLength(e) PROVE DetectorInv'
  OBVIOUS
<1>1. /\ Examine(e) /\ stack' = Tried(e) /\ reached' = reached \cup {"length"}
      /\ cycles' = cycles /\ listed' = listed
  BY DEF ReachLength
<1>2. /\ phase = "enumeration" /\ phase' = phase /\ steps' = steps + 1
      /\ UNCHANGED Request /\ UNCHANGED Existence /\ UNCHANGED Result
      /\ witnesses' = witnesses
  BY <1>1 DEF Examine, Result
<1>3. RequestInv' /\ ExistenceInv' /\ AnswerInv'
  BY <1>1, <1>2, Enumerating
<1>4. StackInv'
  BY <1>1, TriedKeepsStack
<1>5. ListInv'
  BY <1>1, <1>2, SameQuestion DEF DetectorInv, ListInv, Certain, Request, Existence
<1>6. CompleteInv'
  BY <1>1, <1>2 DEF CompleteInv
<1> QED BY <1>3, <1>4, <1>5, <1>6 DEF DetectorInv

\* A hop that neither closes nor leads on is on no proven loop.
LEMMA DeadEndKeeps == ASSUME NEW e PROVE DetectorInv /\ DeadEnd(e) => DetectorInv'
<1> SUFFICES ASSUME DetectorInv, DeadEnd(e) PROVE DetectorInv'
  OBVIOUS
<1>1. /\ Examine(e) /\ stack' = Tried(e) /\ reached' = reached
      /\ cycles' = cycles /\ listed' = listed /\ ~ Closes(e) /\ ~ Extends(e)
  BY DEF DeadEnd
<1>2. /\ phase = "enumeration" /\ phase' = phase /\ steps' = steps + 1
      /\ UNCHANGED Request /\ UNCHANGED Existence /\ UNCHANGED Result
      /\ witnesses' = witnesses /\ starts' = starts
  BY <1>1 DEF Examine, Result
<1>3. RequestInv' /\ ExistenceInv' /\ AnswerInv'
  BY <1>1, <1>2, Enumerating
<1>4. StackInv'
  BY <1>1, TriedKeepsStack
<1>5. ListInv'
  BY <1>1, <1>2, SameQuestion DEF DetectorInv, ListInv, Certain, Request, Existence
<1>6. CompleteInv'
  <2>1. Proven' = Proven /\ \A h : WitnessOf(h)' = WitnessOf(h)
    BY <1>2, SameQuestion
  <2>2. ASSUME NEW h \in Proven, PendingOn(h) PROVE PendingOn(h)'
    <3>1. ~ OnTop(h, e)
      BY <1>1, NextOfLoop
    <3>2. Len(stack') \in Nat /\ Len(stack') >= Len(stack)
      BY <1>1, TriedStack
    <3> QED BY <1>1, <2>2, <3>1, <3>2, TriedKeepsPending
  <2>3. /\ reached' = reached /\ listed' = listed /\ starts' = starts
        /\ phase' = "enumeration" /\ phase = "enumeration"
    BY <1>1, <1>2
  <2>4. CompleteInv
    BY DEF DetectorInv
  <2> QED BY <2>1, <2>2, <2>3, <2>4 DEF CompleteInv
<1> QED BY <1>3, <1>4, <1>5, <1>6 DEF DetectorInv

\* What CloseCycle lists is the witness of a proven loop.
LEMMA ClosedIsLoop ==
    ASSUME DetectorInv, NEW e, Examine(e), Closes(e)
    PROVE  /\ Append(Path(stack), e) \in Proven
           /\ Len(Append(Path(stack), e)) = Len(stack)
           /\ \A i \in 1..Len(stack) :
                 Append(Path(stack), e)[i] = IF i = Len(stack) THEN e ELSE stack[i + 1].via
           /\ Witness(e) = WitnessOf(Append(Path(stack), e))
           /\ Witness(e) \in Listable
<1> DEFINE n == Len(stack)
           p == Append(Path(stack), e)
<1>1. /\ n \in Nat \ {0} /\ stack \in Seq(StackFrame) /\ e \in Edge
      /\ e \in ProvenOut(stack[n].node)
  BY TriedStack
<1>2. /\ n <= Depth /\ Depth \in Nat /\ Depth <= limits.hops /\ Depth <= Rounds
      /\ \A i \in 2..n : /\ stack[i].via \in ProvenOut(stack[i - 1].node)
                         /\ To[stack[i].via] = stack[i].node
                         /\ stack[i].node > stack[1].node
      /\ \A i, j \in 1..n : stack[i].node = stack[j].node => i = j
      /\ stack[n].mask = CommonTo(stack, n)
  BY <1>1, QuestionFacts DEF DetectorInv, StackInv
<1>3. \A i \in 1..(n - 1) : i + 1 \in 2..n /\ (i + 1) - 1 = i
  BY <1>1
<1>4. \A i \in 1..(n - 1) : /\ stack[i + 1].via \in ProvenOut(stack[i].node)
                            /\ stack[i + 1].via \in Edge
                            /\ To[stack[i + 1].via] = stack[i + 1].node
  BY <1>2, <1>3 DEF ProvenOut
<1>5. /\ Path(stack) \in [1..(n - 1) -> Edge] /\ Path(stack) \in Seq(Edge)
      /\ Len(Path(stack)) = n - 1
      /\ \A i \in 1..(n - 1) : Path(stack)[i] = stack[i + 1].via
  <2>1. Path(stack) = [i \in 1..(n - 1) |-> stack[i + 1].via]
    BY DEF Path
  <2>2. Path(stack) \in [1..(n - 1) -> Edge]
    BY <1>4, <2>1
  <2>3. n - 1 \in Nat
    BY <1>1
  <2> HIDE DEF n
  <2>4. Path(stack) \in Seq(Edge) /\ Len(Path(stack)) = n - 1
    BY <2>2, <2>3
  <2> QED BY <2>1, <2>2, <2>4
<1>6. /\ p \in Seq(Edge) /\ Len(p) = n
      /\ \A i \in 1..n : p[i] = IF i = n THEN e ELSE stack[i + 1].via
  <2> HIDE DEF n
  <2>1. p \in Seq(Edge) /\ Len(p) = (n - 1) + 1 /\ p[(n - 1) + 1] = e
        /\ \A i \in 1..(n - 1) : p[i] = Path(stack)[i]
    BY <1>1, <1>5, AppendProperties
  <2>2. (n - 1) + 1 = n /\ \A i \in 1..n : i = n \/ i \in 1..(n - 1)
    BY <1>1
  <2> QED BY <1>1, <1>5, <2>1, <2>2
<1> HIDE DEF p
<1>7. \A i \in 1..n : p[i] \in ProvenOut(stack[i].node) /\ From[p[i]] = stack[i].node
                      /\ p[i] \in Edge
  <2> TAKE i \in 1..n
  <2>1. i = n \/ i \in 1..(n - 1)
    BY <1>1
  <2> QED BY <1>1, <1>4, <1>6, <2>1 DEF ProvenOut
<1>8. Closed(p, n, Edge)
  <2>1. p \in [1..n -> Edge]
    BY <1>1, <1>6
  <2>2. ASSUME NEW i \in 1..n PROVE To[p[i]] = From[Follows(p, n, i)]
    <3>1. CASE i = n
      <4>1. 1 \in 1..n /\ To[e] = stack[1].node
        BY <1>1 DEF Closes
      <4> QED BY <1>6, <1>7, <3>1, <4>1 DEF Follows
    <3>2. CASE i # n
      <4>1. i \in 1..(n - 1) /\ i + 1 \in 1..n
        BY <1>1, <3>2
      <4> QED BY <1>4, <1>6, <1>7, <3>2, <4>1 DEF Follows
    <3> QED BY <3>1, <3>2
  <2> QED BY <2>1, <2>2 DEF Closed
<1>9. \A i, j \in 1..n : From[p[i]] = From[p[j]] => i = j
  BY <1>2, <1>7
<1>10. \A i \in 1..n : From[p[1]] <= From[p[i]]
  <2> TAKE i \in 1..n
  <2>1. 1 \in 1..n /\ (i = 1 \/ i \in 2..n)
    BY <1>1
  <2>2. stack[1].node \in Nat /\ stack[i].node \in Nat
    <3>1. stack[1] \in StackFrame /\ stack[i] \in StackFrame
      BY <1>1, <2>1
    <3>2. Resource \subseteq Nat
      BY QuestionFacts DEF DetectorInv
    <3> QED BY <3>1, <3>2 DEF StackFrame
  <2> QED BY <1>2, <1>7, <2>1, <2>2
<1>11. p \in Loops
  BY <1>1, <1>2, <1>8, <1>9, <1>10, IsLoop, RoundsNatural
<1>12. Carried(p, 0) = Common(e)
  <2>1. DOMAIN p = 1..n
    BY <1>6
  <2>2. \A i \in 1..n : Possible(p[i]) /\ Class(p[i]) <= 0
    BY <1>7 DEF ProvenOut, Traversable
  <2>3. ASSUME NEW s \in Candidates
        PROVE  (\A i \in 1..n : s \in Mask(p[i])) <=> (s \in CommonTo(stack, n) /\ s \in Mask(e))
    <3>1. ASSUME \A i \in 1..n : s \in Mask(p[i])
          PROVE  s \in CommonTo(stack, n) /\ s \in Mask(e)
      <4>1. n \in 1..n
        BY <1>1
      <4>2. \A j \in 2..n : j - 1 \in 1..n /\ j - 1 # n /\ (j - 1) + 1 = j
        BY <1>1
      <4> QED BY <1>6, <3>1, <4>1, <4>2 DEF CommonTo
    <3>2. ASSUME s \in CommonTo(stack, n), s \in Mask(e), NEW i \in 1..n
          PROVE  s \in Mask(p[i])
      <4>1. i = n \/ i + 1 \in 2..n
        BY <1>1
      <4> QED BY <1>1, <1>6, <3>2, <4>1 DEF CommonTo
    <3> QED BY <3>1, <3>2
  <2>4. Common(e) = CommonTo(stack, n) \cap Mask(e)
    BY <1>2 DEF Common, Top
  <2>5. Carried(p, 0) = {s \in Candidates : \A i \in 1..n : s \in Mask(p[i])}
    BY <2>1, <2>2 DEF Carried
  <2>6. CommonTo(stack, n) \subseteq Candidates
    BY DEF CommonTo
  <2> QED BY <2>3, <2>4, <2>5, <2>6
<1>13. p \in Proven
  BY <1>11, <1>12 DEF Proven, Closes
<1>14. Witness(e) = WitnessOf(p)
  BY <1>12 DEF Witness, WitnessOf, p
<1>15. Len(p) <= limits.hops
  BY <1>1, <1>2, <1>6, LimitFacts DEF DetectorInv, RequestInv
<1> QED BY <1>6, <1>13, <1>14, <1>15 DEF Listable, p

\* A loop that is closed is listed, or the bound that kept it out is recorded.
LEMMA CloseCycleKeeps == ASSUME NEW e PROVE DetectorInv /\ CloseCycle(e) => DetectorInv'
<1> SUFFICES ASSUME DetectorInv, CloseCycle(e) PROVE DetectorInv'
  OBVIOUS
<1> DEFINE p == Append(Path(stack), e)
           n == Len(stack)
<1>1. /\ Examine(e) /\ stack' = Tried(e) /\ Closes(e)
      /\ cycles' = cycles + 1
      /\ listed' = IF cycles' > limits.cycles THEN listed
                   ELSE listed \cup {Witness(e)}
      /\ reached' = IF cycles' > limits.cycles \/ Cardinality(listed') >= limits.witnesses
                    THEN reached \cup {"cycles"} ELSE reached
  BY DEF CloseCycle
<1>2. /\ phase = "enumeration" /\ phase' = phase /\ steps' = steps + 1
      /\ UNCHANGED Request /\ UNCHANGED Existence /\ UNCHANGED Result
      /\ witnesses' = witnesses /\ starts' = starts /\ ~ Stopped
  BY <1>1 DEF Examine, Result
<1>3. reached' \in {reached, reached \cup {"cycles"}}
  BY <1>1
<1>4. RequestInv' /\ ExistenceInv' /\ AnswerInv'
  BY <1>2, <1>3, Enumerating
<1>5. StackInv'
  BY <1>1, TriedKeepsStack
<1>6. /\ Proven' = Proven /\ Listable' = Listable /\ limits' = limits
      /\ \A h : WitnessOf(h)' = WitnessOf(h)
  BY <1>2, SameQuestion DEF Request
<1>7. /\ p \in Proven /\ Len(p) = n /\ Witness(e) = WitnessOf(p) /\ Witness(e) \in Listable
      /\ \A i \in 1..n : p[i] = IF i = n THEN e ELSE stack[i + 1].via
  BY <1>1, ClosedIsLoop
<1> HIDE DEF p
<1>8. ListInv'
  <2>1. /\ limits.witnesses \in Nat \ {0} /\ limits.cycles \in Nat
        /\ cycles \in Nat /\ cycles <= limits.cycles /\ steps \in Nat
        /\ IsFiniteSet(listed) /\ Cardinality(listed) < limits.witnesses
    BY <1>2, LimitFacts DEF DetectorInv, RequestInv, ListInv, Stopped
  <2>2. /\ IsFiniteSet(listed \cup {Witness(e)})
        /\ Cardinality(listed \cup {Witness(e)}) <= Cardinality(listed) + 1
        /\ Cardinality(listed) \in Nat /\ Cardinality(listed \cup {Witness(e)}) \in Nat
    <3>1. /\ IsFiniteSet(listed \cup {Witness(e)}) /\ Cardinality(listed) \in Nat
          /\ \/ Cardinality(listed \cup {Witness(e)}) = Cardinality(listed)
             \/ Cardinality(listed \cup {Witness(e)}) = Cardinality(listed) + 1
      BY <2>1, FS_AddElement, FS_CardinalityType
    <3> QED BY <3>1
  <2>3. /\ IsFiniteSet(listed') /\ Cardinality(listed') <= limits.witnesses
        /\ listed' \subseteq Listable
    <3>1. listed \subseteq Listable
      BY DEF DetectorInv, ListInv
    <3>2. CASE cycles' > limits.cycles
      BY <1>1, <2>1, <2>2, <3>1, <3>2
    <3>3. CASE ~ (cycles' > limits.cycles)
      <4>1. listed' = listed \cup {Witness(e)}
        BY <1>1, <3>3
      <4> QED BY <1>7, <2>1, <2>2, <3>1, <4>1
    <3> QED BY <3>2, <3>3
  <2>4. cycles' \in Nat /\ cycles' <= limits.cycles + 1 /\ steps' \in Nat
    BY <1>1, <1>2, <2>1
  <2>5. "cycles" \notin reached' =>
           cycles' <= limits.cycles /\ Cardinality(listed') < limits.witnesses
    <3>1. Cardinality(listed') \in Nat
      BY <2>3, FS_CardinalityType
    <3> QED BY <1>1, <2>1, <2>4, <3>1
  <2>6. witnesses' = <<>> /\ 0 \in found' /\ "existence" \notin reached'
    BY <1>2, <1>3 DEF DetectorInv, ListInv, ExistenceInv, Existence
  <2>7. phase' = "enumeration"
    BY <1>2
  <2> QED BY <1>6, <2>3, <2>4, <2>5, <2>6, <2>7 DEF ListInv
<1>9. CompleteInv'
  <2> SUFFICES ASSUME reached' \cap {"cycles", "length", "steps"} = {}, NEW h \in Proven
               PROVE  \/ From[h[1]] \in starts' \/ WitnessOf(h)' \in listed'
                      \/ PendingOn(h)'
    BY <1>2, <1>6 DEF CompleteInv
  <2>1. reached' = reached /\ listed' = listed \cup {WitnessOf(p)}
    <3>1. ~ (cycles' > limits.cycles)
      BY <1>1
    <3> QED BY <1>1, <1>7, <3>1
  <2>2. From[h[1]] \in starts \/ WitnessOf(h) \in listed \/ PendingOn(h)
    BY <1>2, <2>1 DEF DetectorInv, CompleteInv
  <2>3. ASSUME PendingOn(h), ~ OnTop(h, e) PROVE PendingOn(h)'
    <3>1. Len(stack') \in Nat /\ Len(stack') >= Len(stack)
      BY <1>1, TriedStack
    <3> QED BY <1>1, <2>3, <3>1, TriedKeepsPending
  <2>4. ASSUME OnTop(h, e) PROVE h = p
    <3>1. Len(h) = n
      <4>1. ~ Extends(e)
        <5>1. To[e] \in Nat /\ To[e] = stack[1].node
          BY <1>1, TriedStack, QuestionFacts DEF DetectorInv, Closes
        <5> QED BY <5>1 DEF Extends
      <4> QED BY <1>1, <2>4, <4>1, NextOfLoop
    <3>2. h \in Seq(Edge) /\ p \in Seq(Edge) /\ n \in Nat
      BY <1>7, ProvenHops, TriedStack
    <3>3. \A i \in 1..n : h[i] = p[i]
      <4> TAKE i \in 1..n
      <4>1. i = n \/ (i # n /\ i + 1 \in 2..n /\ (i + 1) - 1 = i)
        BY <3>2
      <4> QED BY <1>7, <2>4, <4>1 DEF OnTop
    <3> QED BY <1>7, <3>1, <3>2, <3>3, SeqEqual
  <2> QED BY <1>2, <1>6, <2>1, <2>2, <2>3, <2>4
<1> QED BY <1>4, <1>5, <1>8, <1>9 DEF DetectorInv

\* A loop that goes on with the hop is pending at the new frame.
LEMMA DescendKeeps == ASSUME NEW e PROVE DetectorInv /\ Descend(e) => DetectorInv'
<1> SUFFICES ASSUME DetectorInv, Descend(e) PROVE DetectorInv'
  OBVIOUS
<1> DEFINE n == Len(stack)
           frame == [node |-> To[e], via |-> e, untried |-> ProvenOut(To[e]),
                     mask |-> Common(e)]
<1>1. /\ Examine(e) /\ stack' = Append(Tried(e), frame) /\ Extends(e)
      /\ cycles' = cycles /\ listed' = listed /\ reached' = reached
      /\ n < Depth
  BY DEF Descend
<1>2. /\ phase = "enumeration" /\ phase' = phase /\ steps' = steps + 1
      /\ UNCHANGED Request /\ UNCHANGED Existence /\ UNCHANGED Result
      /\ witnesses' = witnesses /\ starts' = starts
  BY <1>1 DEF Examine, Result
<1>3. RequestInv' /\ ExistenceInv' /\ AnswerInv'
  BY <1>1, <1>2, Enumerating
<1>4. ListInv'
  BY <1>1, <1>2, SameQuestion DEF DetectorInv, ListInv, Certain, Request, Existence
<1>5. /\ Candidates' = Candidates /\ Depth' = Depth /\ Proven' = Proven
      /\ \A x : ProvenOut(x)' = ProvenOut(x) /\ Mask(x)' = Mask(x)
      /\ \A h : WitnessOf(h)' = WitnessOf(h)
  BY <1>2, SameQuestion
<1>6. /\ n \in Nat \ {0} /\ e \in ProvenOut(stack[n].node) /\ e \in Edge
      /\ Tried(e) \in Seq(StackFrame) /\ Len(Tried(e)) = n
  BY <1>1, TriedStack
<1>7. stack[n].mask = CommonTo(stack, n) /\ Common(e) = CommonTo(stack, n) \cap Mask(e)
  BY <1>6 DEF DetectorInv, StackInv, Common, Top
<1>8. frame \in StackFrame
  <2>1. To[e] \in Resource /\ ProvenOut(To[e]) \subseteq Edge
    BY <1>6, QuestionFacts DEF DetectorInv, ProvenOut
  <2>2. Common(e) \subseteq Selector
    BY <1>7, QuestionFacts DEF DetectorInv, CommonTo
  <2> QED BY <1>6, <2>1, <2>2 DEF StackFrame
<1>9. /\ frame.node = To[e] /\ frame.via = e /\ frame.untried = ProvenOut(To[e])
      /\ frame.mask = Common(e)
  OBVIOUS
<1> HIDE DEF frame
<1>10. /\ stack' \in Seq(StackFrame) /\ Len(stack') = n + 1 /\ stack'[n + 1] = frame
       /\ \A i \in 1..n : stack'[i] = Tried(e)[i]
  BY <1>1, <1>6, <1>8, AppendProperties
<1>11. \A i \in 1..n : /\ stack'[i].node = stack[i].node
                       /\ stack'[i].via = stack[i].via
                       /\ stack'[i].mask = stack[i].mask
                       /\ stack'[i].untried \subseteq stack[i].untried
  BY <1>1, <1>10, TriedStack
<1>12. \A i \in 1..(n + 1) : i \in 1..n \/ i = n + 1
  BY <1>6
<1>13. StackInv'
  <2>1. StackFrame' = StackFrame /\ starts' \subseteq Resource /\ n + 1 <= Depth'
    <3>1. Depth \in Nat
      BY QuestionFacts DEF DetectorInv
    <3> QED BY <1>1, <1>2, <1>5, <1>6, <3>1 DEF StackFrame, DetectorInv, StackInv
  <2>2. \A i \in 1..n : CommonTo(stack, i)' = CommonTo(stack, i)
    <3> TAKE i \in 1..n
    <3>1. \A j \in 2..i : j \in 1..n
      BY <1>6
    <3> QED BY <1>5, <1>11, <3>1 DEF CommonTo
  <2>3. ASSUME NEW m, m = n + 1 PROVE CommonTo(stack, m)' = Common(e)
    <3>1. CommonTo(stack, m)' = {s \in Candidates : \A j \in 2..(n + 1) : s \in Mask(stack'[j].via)}
      BY <1>5, <2>3 DEF CommonTo
    <3>2. ASSUME NEW s \in Candidates
          PROVE  (\A j \in 2..(n + 1) : s \in Mask(stack'[j].via))
                 <=> (s \in Mask(e) /\ \A j \in 2..n : s \in Mask(stack[j].via))
      <4>1. \A j \in 2..(n + 1) : j = n + 1 \/ (j \in 2..n /\ j \in 1..n)
        BY <1>6
      <4>2. n + 1 \in 2..(n + 1) /\ \A j \in 2..n : j \in 2..(n + 1) /\ j \in 1..n
        BY <1>6
      <4>3. \A j \in 2..n : stack'[j].via = stack[j].via
        BY <1>11, <4>2
      <4>4. stack'[n + 1].via = e
        BY <1>9, <1>10
      <4> QED BY <4>1, <4>2, <4>3, <4>4
    <3>3. CommonTo(stack, n) = {s \in Candidates : \A j \in 2..n : s \in Mask(stack[j].via)}
      BY DEF CommonTo
    <3> HIDE DEF n
    <3> QED BY <1>7, <3>1, <3>2, <3>3
  <2>4. \A i \in 1..Len(stack') : /\ stack'[i].untried \subseteq ProvenOut(stack[i].node)'
                                  /\ stack'[i].mask = CommonTo(stack, i)'
    <3> TAKE i \in 1..Len(stack')
    <3>1. CASE i \in 1..n
      BY <1>5, <1>11, <2>2, <3>1 DEF DetectorInv, StackInv
    <3>2. CASE i = n + 1
      BY <1>5, <1>9, <1>10, <2>3, <3>2
    <3> QED BY <1>10, <1>12, <3>1, <3>2
  <2>5. \A i \in 2..Len(stack') : /\ stack'[i].via \in ProvenOut(stack[i - 1].node)'
                                  /\ To[stack'[i].via] = stack'[i].node
                                  /\ stack'[i].node > stack'[1].node
    <3> TAKE i \in 2..Len(stack')
    <3>1. 1 \in 1..n /\ i - 1 \in 1..n
      BY <1>6, <1>10
    <3>2. CASE i \in 2..n
      <4>1. i \in 1..n
        BY <3>2
      <4> QED BY <1>5, <1>11, <3>1, <3>2, <4>1 DEF DetectorInv, StackInv
    <3>3. CASE i = n + 1
      <4>1. i - 1 = n /\ n \in 1..n
        BY <1>6, <3>3
      <4>2. To[e] > stack[1].node
        BY <1>1 DEF Extends
      <4> QED BY <1>5, <1>6, <1>9, <1>10, <1>11, <3>1, <3>3, <4>1, <4>2
    <3>4. i \in 2..n \/ i = n + 1
      BY <1>6, <1>10
    <3> QED BY <3>2, <3>3, <3>4
  <2>6. \A i, j \in 1..Len(stack') : stack'[i].node = stack'[j].node => i = j
    <3>1. \A i \in 1..n : stack[i].node # To[e]
      BY <1>1, TriedStack DEF Extends, Nodes
    <3>2. \A i, j \in 1..n : stack[i].node = stack[j].node => i = j
      BY DEF DetectorInv, StackInv
    <3> QED BY <1>9, <1>10, <1>11, <1>12, <3>1, <3>2
  <2>7. phase' = "enumeration"
    BY <1>2
  <2> QED BY <1>10, <2>1, <2>4, <2>5, <2>6, <2>7 DEF StackInv
<1>14. CompleteInv'
  <2>1. ASSUME NEW h \in Proven, PendingOn(h) PROVE PendingOn(h)'
    <3>1. CASE ~ OnTop(h, e)
      <4>1. Len(stack') \in Nat /\ Len(stack') >= Len(stack)
        BY <1>6, <1>10
      <4> QED BY <1>1, <1>10, <2>1, <3>1, <4>1, TriedKeepsPending
    <3>2. CASE OnTop(h, e)
      <4>1. /\ Len(h) \in Nat \ {0}
            /\ \A i \in 1..Len(h) : h[i] \in Edge /\ h[i] \in ProvenOut(From[h[i]])
        BY ProvenHops
      <4>2. n <= Len(h) /\ stack[1].node = From[h[1]] /\ h[n] = e
            /\ \A j \in 2..n : stack[j].via = h[j - 1]
        BY <3>2 DEF OnTop
      <4>3. Len(h) # n
        <5>1. To[e] \in Nat /\ stack[1].node \in Nat /\ To[e] > stack[1].node
          <6>1. stack[1] \in StackFrame /\ Resource \subseteq Nat /\ To[e] \in Resource
            BY <1>1, <1>6, TriedStack, QuestionFacts DEF DetectorInv
          <6> QED BY <1>1, <6>1 DEF StackFrame, Extends
        <5>2. ~ Closes(e)
          BY <5>1 DEF Closes
        <5> QED BY <1>1, <3>2, <5>2, NextOfLoop
      <4>4. n + 1 \in 1..Len(h) /\ n \in 1..Len(h) /\ n + 1 \in 1..Len(stack') /\ n + 1 <= Len(h)
        BY <1>6, <1>10, <4>1, <4>2, <4>3
      <4>5. h[n + 1] \in stack'[n + 1].untried
        <5>1. To[h[n]] = From[h[n + 1]]
          BY <4>3, <4>4, LoopForm DEF Proven, Closed, Follows
        <5> QED BY <1>9, <1>10, <4>1, <4>2, <4>4, <5>1
      <4>6. \A j \in 2..(n + 1) : stack'[j].via = h[j - 1]
        <5> TAKE j \in 2..(n + 1)
        <5>1. j = n + 1 \/ (j \in 2..n /\ j \in 1..n)
          BY <1>6
        <5>2. (n + 1) - 1 = n
          BY <1>6
        <5> QED BY <1>9, <1>10, <1>11, <4>2, <5>1, <5>2
      <4>7. stack'[1].node = From[h[1]]
        BY <1>6, <1>11, <4>2
      <4> QED BY <4>4, <4>5, <4>6, <4>7 DEF PendingOn
    <3> QED BY <3>1, <3>2
  <2>2. /\ reached' = reached /\ listed' = listed /\ starts' = starts
        /\ phase' = "enumeration" /\ phase = "enumeration"
    BY <1>1, <1>2
  <2>3. CompleteInv
    BY DEF DetectorInv
  <2> QED BY <1>5, <2>1, <2>2, <2>3 DEF CompleteInv
<1> QED BY <1>3, <1>4, <1>13, <1>14 DEF DetectorInv

-----------------------------------------------------------------------------
(* The validation                                                          *)

\* A listed witness names its loop, the resources on it and what it carries.
LEMMA ListableForm ==
    ASSUME NEW w \in Listable
    PROVE  /\ w.hops \in Proven /\ w = WitnessOf(w.hops) /\ Len(w.hops) <= limits.hops
           /\ Len(w.hops) \in Nat /\ Len(w.cycle) = Len(w.hops)
           /\ w.hops \in [1..Len(w.hops) -> Nat] /\ w.cycle \in [1..Len(w.hops) -> Nat]
           /\ w.selectors = Carried(w.hops, 0)
<1>1. PICK h \in Proven : w = WitnessOf(h) /\ Len(h) <= limits.hops
  BY DEF Listable
<1>2. /\ w.hops = h /\ w.cycle = [i \in DOMAIN h |-> From[h[i]]]
      /\ w.selectors = Carried(h, 0)
  BY <1>1 DEF WitnessOf
<1>3. /\ Len(h) \in Nat /\ DOMAIN h = 1..Len(h) /\ h \in Seq(Edge)
      /\ \A i \in 1..Len(h) : h[i] \in Edge
  BY ProvenHops
<1>4. h \in [1..Len(h) -> Nat]
  <2>1. \A e \in Edge : e \in Nat
    BY TopologyAssumption, FS_CardinalityType DEF Canonical
  <2> QED BY <1>3, <2>1
<1>5. w.cycle \in [1..Len(h) -> Nat]
  <2>1. \A e \in Edge : From[e] \in Nat
    BY TopologyAssumption, RoundsNatural DEF Canonical
  <2> QED BY <1>2, <1>3, <2>1
<1>6. Len(w.cycle) = Len(h)
  BY <1>3, <1>5
<1> QED BY <1>1, <1>2, <1>3, <1>4, <1>5, <1>6

\* The canonical order of witnesses is total.
LEMMA PrecedesIsTotal ==
    ASSUME NEW x \in Listable, NEW y \in Listable, x # y
    PROVE  Precedes(x, y) \/ Precedes(y, x)
<1> DEFINE n == Len(x.hops)
           m == Len(y.hops)
<1>1. /\ n \in Nat /\ m \in Nat /\ Len(x.cycle) = n /\ Len(y.cycle) = m
      /\ x.hops \in [1..n -> Nat] /\ x.cycle \in [1..n -> Nat]
      /\ y.hops \in [1..m -> Nat] /\ y.cycle \in [1..m -> Nat]
      /\ x = WitnessOf(x.hops) /\ y = WitnessOf(y.hops)
  BY ListableForm
<1> HIDE DEF n, m
<1>2. CASE n # m
  BY <1>1, <1>2 DEF Precedes
<1>3. CASE n = m /\ x.cycle # y.cycle
  BY <1>1, <1>3, LexTotal DEF Precedes
<1>4. CASE n = m /\ x.cycle = y.cycle
  <2>1. x.hops # y.hops
    BY <1>1
  <2> QED BY <1>1, <1>4, <2>1, LexTotal DEF Precedes
<1> QED BY <1>2, <1>3, <1>4

\* It is transitive.
LEMMA PrecedesIsTransitive ==
    ASSUME NEW x \in Listable, NEW y \in Listable, NEW z \in Listable,
           Precedes(x, y), Precedes(y, z)
    PROVE  Precedes(x, z)
<1> DEFINE n == Len(x.hops)
           m == Len(y.hops)
           k == Len(z.hops)
<1>1. /\ n \in Nat /\ m \in Nat /\ k \in Nat
      /\ Len(x.cycle) = n /\ Len(y.cycle) = m /\ Len(z.cycle) = k
      /\ x.hops \in [1..n -> Nat] /\ x.cycle \in [1..n -> Nat]
      /\ y.hops \in [1..m -> Nat] /\ y.cycle \in [1..m -> Nat]
      /\ z.hops \in [1..k -> Nat] /\ z.cycle \in [1..k -> Nat]
  BY ListableForm
<1> HIDE DEF n, m, k
<1>2. \/ n < m
      \/ n = m /\ LexLess(x.cycle, y.cycle)
      \/ n = m /\ x.cycle = y.cycle /\ LexLess(x.hops, y.hops)
  BY <1>1 DEF Precedes
<1>3. \/ m < k
      \/ m = k /\ LexLess(y.cycle, z.cycle)
      \/ m = k /\ y.cycle = z.cycle /\ LexLess(y.hops, z.hops)
  BY <1>1 DEF Precedes
<1>4. CASE n < m \/ m < k
  <2>1. n < k
    BY <1>1, <1>2, <1>3, <1>4
  <2> QED BY <1>1, <2>1 DEF Precedes
<1>5. CASE n = m /\ m = k /\ ~ (x.cycle = y.cycle /\ y.cycle = z.cycle)
  <2>1. LexLess(x.cycle, z.cycle)
    <3>1. CASE x.cycle = y.cycle
      BY <1>1, <1>3, <1>5, <3>1
    <3>2. CASE y.cycle = z.cycle
      BY <1>1, <1>2, <1>5, <3>2
    <3>3. CASE x.cycle # y.cycle /\ y.cycle # z.cycle
      <4>1. LexLess(x.cycle, y.cycle) /\ LexLess(y.cycle, z.cycle)
        BY <1>1, <1>2, <1>3, <1>5, <3>3
      <4> QED BY <1>1, <1>5, <4>1, LexTransitive
    <3> QED BY <3>1, <3>2, <3>3
  <2> QED BY <1>1, <1>5, <2>1 DEF Precedes
<1>6. CASE n = m /\ m = k /\ x.cycle = y.cycle /\ y.cycle = z.cycle
  <2>1. ~ LexLess(x.cycle, x.cycle)
    BY <1>1 DEF LexLess
  <2>2. LexLess(x.hops, y.hops) /\ LexLess(y.hops, z.hops)
    BY <1>1, <1>2, <1>3, <1>6, <2>1
  <2>3. LexLess(x.hops, z.hops)
    BY <1>1, <1>6, <2>2, LexTransitive
  <2> QED BY <1>6, <2>3 DEF Precedes
<1> QED BY <1>1, <1>2, <1>3, <1>4, <1>5, <1>6

\* There is a first witness.
LEMMA FirstExists ==
    ASSUME NEW S, S \subseteq Listable, IsFiniteSet(S), S # {}
    PROVE  \E x \in S : \A y \in S \ {x} : Precedes(x, y)
<1> DEFINE R == {p \in S \X S : Precedes(p[1], p[2])}
<1>1. \A x, y \in S : <<x, y>> \in R <=> Precedes(x, y)
  OBVIOUS
<1> HIDE DEF R
<1>2. \A x, y \in S : x # y => <<x, y>> \in R \/ <<y, x>> \in R
  BY <1>1, PrecedesIsTotal
<1>3. \A x, y, z \in S : <<x, y>> \in R /\ <<y, z>> \in R => <<x, z>> \in R
  BY <1>1, PrecedesIsTransitive
<1>4. \E x \in S : \A y \in S \ {x} : <<x, y>> \in R
  BY <1>2, <1>3, FiniteMinimum
<1> QED BY <1>1, <1>4

\* All that the validation adds to the resolution is that the definition is
\* certain of the hops.
LEMMA ValidIsCertain ==
    ASSUME NEW w \in Listable
    PROVE  Valid(w) <=> Certain(w.hops)
<1>1. /\ w.hops \in Proven /\ Len(w.hops) <= limits.hops
      /\ w.selectors = Carried(w.hops, 0)
  BY ListableForm
<1>2. w.selectors # {}
  BY <1>1 DEF Proven
<1>3. DOMAIN w.hops = 1..Len(w.hops) /\ \A i \in 1..Len(w.hops) : w.hops[i] \in Edge
  BY <1>1, ProvenHops
<1>4. ASSUME NEW i \in DOMAIN w.hops
      PROVE  /\ hops[w.hops[i]].resolution = "ProvenOpen"
             /\ w.selectors \subseteq hops[w.hops[i]].selectors
  <2>1. Class(w.hops[i]) = 0
    <3>1. w.hops[i] \in ProvenOut(From[w.hops[i]])
      BY <1>1, <1>3, ProvenHops
    <3> QED BY <3>1 DEF ProvenOut
  <2>2. hops[w.hops[i]].resolution = "ProvenOpen"
    BY <2>1 DEF Class
  <2>3. Mask(w.hops[i]) \subseteq hops[w.hops[i]].selectors
    BY <2>2 DEF Mask, Source, Open
  <2>4. w.selectors \subseteq Mask(w.hops[i])
    BY <1>1 DEF Carried
  <2> QED BY <2>2, <2>3, <2>4
<1> QED BY <1>1, <1>2, <1>4 DEF Valid, Certain

\* Validation moves a witness to the list of the answer, or drops it for a reason.
LEMMA ValidateKeeps == DetectorInv /\ Validate => DetectorInv'
<1> SUFFICES ASSUME DetectorInv, Validate PROVE DetectorInv'
  OBVIOUS
<1> DEFINE w == CHOOSE x \in listed : \A y \in listed \ {x} : Precedes(x, y)
           Checked == {v \in Listable : Certain(v.hops)}
<1>1. /\ phase = "validation" /\ phase' = phase /\ listed # {} /\ listed' = listed \ {w}
      /\ UNCHANGED Request /\ UNCHANGED Existence
      /\ steps' = steps /\ answer' = answer
      /\ starts' = starts /\ stack' = stack /\ cycles' = cycles
      /\ \/ /\ reached' = reached \cup {"validation"} /\ witnesses' = witnesses
         \/ /\ reached' = reached
            /\ witnesses' = IF Valid(w) THEN Append(witnesses, w) ELSE witnesses
  BY DEF Validate, Enumeration
<1>2. /\ listed \subseteq Listable /\ IsFiniteSet(listed)
      /\ Cardinality(listed) <= limits.witnesses /\ Cardinality(listed) \in Nat
      /\ witnesses \in Seq(Checked) /\ 0 \in found /\ "existence" \notin reached
      /\ limits.witnesses \in Nat
  BY <1>1, FS_CardinalityType, LimitFacts DEF DetectorInv, ListInv, RequestInv
<1>3. w \in listed /\ w \in Listable
  BY <1>1, <1>2, FirstExists
<1>4. Valid(w) <=> Certain(w.hops)
  BY <1>3, ValidIsCertain
<1> HIDE DEF w
<1>5. /\ Candidates' = Candidates /\ Listable' = Listable /\ limits' = limits
      /\ RequestInv' /\ Proven' = Proven /\ \A s : Probed(s)' = Probed(s)
      /\ \A h : WitnessOf(h)' = WitnessOf(h)
  BY <1>1, SameQuestion DEF DetectorInv, Request
<1>6. /\ todo' = todo /\ found' = found
      /\ reached' \subseteq reached \cup {"validation"} /\ reached \subseteq reached'
  BY <1>1 DEF Existence
<1>7. ExistenceInv'
  <2>1. UNION {Probed(s) : s \in Candidates \ todo}' = UNION {Probed(s) : s \in Candidates \ todo}
    BY <1>5, <1>6
  <2> QED BY <1>1, <1>5, <1>6, <2>1 DEF DetectorInv, ExistenceInv
<1>8. StackInv'
  BY <1>1, SameStack
<1>9. witnesses' \in Seq(Checked)
  <2>1. Valid(w) => w \in Checked
    BY <1>3, <1>4
  <2> HIDE DEF Checked
  <2> QED BY <1>1, <1>2, <2>1
<1>10. ListInv'
  <2>1. /\ IsFiniteSet(listed') /\ Cardinality(listed') <= limits.witnesses
        /\ listed' \subseteq Listable
    <3>1. IsFiniteSet(listed') /\ Cardinality(listed') <= Cardinality(listed)
          /\ Cardinality(listed') \in Nat
      BY <1>1, <1>2, FS_Subset, FS_CardinalityType
    <3> QED BY <1>1, <1>2, <3>1
  <2>2. Checked' = Checked
    BY <1>5 DEF Certain
  <2>3. cycles' \in Nat /\ cycles' <= limits.cycles + 1 /\ steps' \in Nat
    BY <1>1 DEF DetectorInv, ListInv
  <2>4. witnesses' \in Seq(Checked')
    BY <1>9, <2>2
  <2> QED BY <1>1, <1>2, <1>5, <1>6, <2>1, <2>3, <2>4 DEF ListInv
<1>11. AnswerInv'
  BY <1>1, <1>6 DEF DetectorInv, AnswerInv, Pending
<1>12. CompleteInv'
  <2> SUFFICES ASSUME reached' \cap {"existence", "cycles", "length", "steps", "validation"} = {},
                      NEW h \in Proven, Certain(h)
               PROVE  WitnessOf(h) \in listed' \cup Listed'
    BY <1>1, <1>5 DEF CompleteInv, Certain
  <2>1. /\ reached \cap {"existence", "cycles", "length", "steps", "validation"} = {}
        /\ witnesses' = IF Valid(w) THEN Append(witnesses, w) ELSE witnesses
    BY <1>1
  <2>2. WitnessOf(h) \in listed \cup Listed
    BY <1>1, <1>2, <2>1 DEF DetectorInv, CompleteInv
  <2>3. Listed \subseteq Listed' /\ (Valid(w) => w \in Listed')
    <3>1. CASE Valid(w)
      <4>1. witnesses' = Append(witnesses, w)
        BY <2>1, <3>1
      <4>2. /\ Len(witnesses) \in Nat /\ DOMAIN witnesses = 1..Len(witnesses)
            /\ DOMAIN witnesses' = 1..(Len(witnesses) + 1)
            /\ witnesses'[Len(witnesses) + 1] = w
            /\ \A i \in 1..Len(witnesses) : witnesses'[i] = witnesses[i]
        <5> HIDE DEF Checked
        <5> QED BY <1>2, <4>1
      <4> QED BY <4>2 DEF Listed
    <3>2. CASE ~ Valid(w)
      BY <2>1, <3>2 DEF Listed
    <3> QED BY <3>1, <3>2
  <2>4. WitnessOf(h) = w => Valid(w)
    <3>1. WitnessOf(h).hops = h
      BY DEF WitnessOf
    <3> QED BY <1>4, <3>1
  <2> QED BY <1>1, <2>2, <2>3, <2>4
<1> QED BY <1>5, <1>7, <1>8, <1>10, <1>11, <1>12 DEF DetectorInv

\* The answer is given from what was found, listed and reached.
LEMMA AnswerKeeps == DetectorInv /\ Answer => DetectorInv'
<1> SUFFICES ASSUME DetectorInv, Answer PROVE DetectorInv'
  OBVIOUS
<1>1. /\ phase = "validation" /\ phase' = "answered" /\ listed = {}
      /\ answer' = [outcome |-> Outcome,
                    limit |-> \/ Bounded \/ "existence" \in reached
                              \/ 0 \in found /\ witnesses = <<>>,
                    additional |-> witnesses # <<>> /\ Bounded]
      /\ UNCHANGED Request
  BY DEF Answer
<1>2. UNCHANGED <<todo, found, steps, starts, stack, cycles, listed, witnesses, reached>>
  BY DEF Answer, Existence, Enumeration
<1>3. /\ Candidates' = Candidates /\ Listable' = Listable /\ limits' = limits
      /\ RequestInv' /\ Proven' = Proven /\ \A s : Probed(s)' = Probed(s)
      /\ \A h : WitnessOf(h)' = WitnessOf(h)
  BY <1>1, SameQuestion DEF DetectorInv, Request
<1>4. ExistenceInv'
  BY <1>1, <1>2, <1>3 DEF DetectorInv, ExistenceInv
<1>5. StackInv'
  BY <1>1, <1>2, SameStack
<1>6. ListInv'
  BY <1>1, <1>2, <1>3 DEF DetectorInv, ListInv, Certain
<1>7. AnswerInv'
  <2>1. /\ found = UNION {Probed(s) : s \in Candidates \ todo}
        /\ "existence" \notin reached => todo = {}
    BY <1>1 DEF DetectorInv, ExistenceInv
  <2>2. UNION {Probed(s) : s \in Candidates \ todo}' = UNION {Probed(s) : s \in Candidates \ todo}
    BY <1>2, <1>3
  <2>3. Outcome' = Outcome /\ (Bounded' <=> Bounded)
    BY <1>2 DEF Outcome, Bounded
  <2> QED BY <1>1, <1>2, <2>1, <2>2, <2>3 DEF DetectorInv, AnswerInv
<1>8. CompleteInv'
  BY <1>1, <1>2, <1>3 DEF DetectorInv, CompleteInv, Certain, Listed
<1> QED BY <1>3, <1>4, <1>5, <1>6, <1>7, <1>8 DEF DetectorInv

-----------------------------------------------------------------------------
(* The detector's theorems                                                 *)

\* A detector that is done with satisfies the invariant trivially.
LEMMA ForgetKeeps == DetectorInv /\ Forget => DetectorInv'
<1> SUFFICES ASSUME DetectorInv, Forget PROVE DetectorInv'
  OBVIOUS
<1>1. /\ phase' = "returned" /\ todo' = {} /\ found' = {} /\ steps' = 0 /\ starts' = {}
      /\ stack' = <<>> /\ listed' = {} /\ witnesses' = <<>> /\ cycles' = 0
      /\ reached' = {} /\ answer' = Pending
  BY DEF Forget
<1>2. RequestInv'
  <2>1. limits' \in Limits
    BY DEF Forget, DetectorInv, RequestInv
  <2>2. hops' \in [Edge -> Hop]
    BY DEF Forget, Hop
  <2> QED BY <2>1, <2>2 DEF RequestInv, Hop
<1>3. StackInv'
  <2>1. Len(<<>>) = 0 /\ <<>> \in Seq(StackFrame')
    OBVIOUS
  <2>2. Depth' \in Nat
    <3>1. limits'.hops \in Nat /\ Cardinality(Resource) \in Nat
      BY <1>2, LimitAssumption, RoundsNatural DEF RequestInv, Rounds
    <3> QED BY <3>1 DEF Depth
  <2> QED BY <1>1, <2>1, <2>2 DEF StackInv
<1>4. ListInv'
  <2>1. limits'.witnesses \in Nat \ {0} /\ limits'.cycles \in Nat
    BY <1>2, LimitAssumption DEF RequestInv
  <2>2. Cardinality({}) = 0 /\ IsFiniteSet({})
    BY FS_EmptySet
  <2> QED BY <1>1, <2>1, <2>2 DEF ListInv
<1>5. ExistenceInv' /\ AnswerInv' /\ CompleteInv'
  BY <1>1 DEF ExistenceInv, AnswerInv, CompleteInv, Pending
<1> QED BY <1>2, <1>3, <1>4, <1>5 DEF DetectorInv

\* Nothing happens while a plan is made.
LEMMA StutterKeeps == DetectorInv /\ UNCHANGED detectorVars => DetectorInv'
<1> SUFFICES ASSUME DetectorInv, UNCHANGED detectorVars PROVE DetectorInv'
  OBVIOUS
<1>1. /\ UNCHANGED <<limits, hops, scope, phase, todo, found, steps, starts, stack,
                     listed, witnesses, cycles, cost, reached, answer>>
      /\ UNCHANGED Request
  BY DEF detectorVars, Request
<1>2. /\ Candidates' = Candidates /\ Listable' = Listable
      /\ RequestInv' /\ Proven' = Proven /\ \A s : Probed(s)' = Probed(s)
      /\ \A h : WitnessOf(h)' = WitnessOf(h)
  BY <1>1, SameQuestion DEF DetectorInv
<1>3. UNION {Probed(s) : s \in Candidates \ todo}' = UNION {Probed(s) : s \in Candidates \ todo}
  BY <1>1, <1>2
<1>4. ExistenceInv'
  BY <1>1, <1>2, <1>3 DEF DetectorInv, ExistenceInv
<1>5. StackInv'
  BY <1>1, SameStack DEF DetectorInv, StackInv
<1>6. ListInv'
  BY <1>1, <1>2 DEF DetectorInv, ListInv, Certain
<1>7. AnswerInv'
  BY <1>1, <1>3 DEF DetectorInv, AnswerInv, Outcome, Bounded
<1>8. CompleteInv'
  <2>1. \A h : PendingOn(h)' = PendingOn(h)
    BY <1>1 DEF PendingOn
  <2> QED BY <1>1, <1>2, <2>1 DEF DetectorInv, CompleteInv, Certain, Listed
<1> QED BY <1>2, <1>4, <1>5, <1>6, <1>7, <1>8 DEF DetectorInv

\* The invariant holds of every execution, whatever the topology, the
\* evidence, the scope and the limits.
THEOREM DetectorIsInvariant == Spec => []DetectorInv
<1>1. DetectorInv /\ [Next]_vars => DetectorInv'
  <2> SUFFICES ASSUME DetectorInv, [Next]_vars PROVE DetectorInv'
    OBVIOUS
  <2>1. CASE Assess
    BY <2>1, TooManyKeeps, BeginKeeps, ProbeKeeps, ProbesKeeps, StartKeeps, EnumeratedKeeps,
       BacktrackKeeps, OutOfStepsKeeps, DeadEndKeeps, CloseCycleKeeps, ReachLengthKeeps,
       DescendKeeps, ValidateKeeps, AnswerKeeps DEF Assess, DetectorNext
  <2>2. CASE PlanContainment
    BY <2>2, ForgetKeeps DEF PlanContainment
  <2>3. CASE Plan \/ UNCHANGED vars
    <3>1. UNCHANGED detectorVars
      BY <2>3 DEF Plan, vars
    <3> QED BY <3>1, StutterKeeps
  <2> QED BY <2>1, <2>2, <2>3 DEF Next
<1> QED BY InitInv, <1>1, PTL DEF Spec

\* What is answered, and from what.
LEMMA AnsweredFrom ==
    ASSUME DetectorInv, answer.outcome # "None"
    PROVE  /\ phase = "answered"
           /\ answer.outcome # "Indeterminate" \/ ~ answer.limit =>
                 /\ found = UNION {Probed(s) : s \in Candidates \ todo}
                 /\ "existence" \notin reached => todo = {}
                 /\ listed = {}
                 /\ answer.outcome = Outcome
                 /\ answer.limit <=> \/ Bounded \/ "existence" \in reached
                                     \/ 0 \in found /\ witnesses = <<>>
                 /\ answer.additional <=> witnesses # <<>> /\ Bounded
<1>1. phase = "answered"
  BY DEF DetectorInv, AnswerInv, Pending
<1>2. CASE answer = [outcome |-> "Indeterminate", limit |-> TRUE, additional |-> FALSE]
  BY <1>1, <1>2
<1>3. CASE /\ found = UNION {Probed(s) : s \in Candidates \ todo}
           /\ "existence" \notin reached => todo = {}
           /\ listed = {}
           /\ answer = [outcome |-> Outcome,
                        limit |-> \/ Bounded \/ "existence" \in reached
                                  \/ 0 \in found /\ witnesses = <<>>,
                        additional |-> witnesses # <<>> /\ Bounded]
  BY <1>1, <1>3
<1> QED BY <1>1, <1>2, <1>3 DEF DetectorInv, AnswerInv

\* The probe of a selector finds the least class with which it has a loop.
LEMMA ProbedIs ==
    ASSUME NEW s \in Candidates
    PROVE  /\ 0 \in Probed(s) <=> LoopsUpTo(s, 0) # {}
           /\ 1 \in Probed(s) <=> LoopsUpTo(s, 0) = {} /\ LoopsUpTo(s, 1) # {}
           /\ 2 \in Probed(s) <=> LoopsUpTo(s, 1) = {} /\ LoopsUpTo(s, 2) # {}
           /\ LoopsUpTo(s, 0) \subseteq LoopsUpTo(s, 1)
           /\ LoopsUpTo(s, 1) \subseteq LoopsUpTo(s, 2)
<1>1. /\ HasCycle(s, 0) <=> LoopsUpTo(s, 0) # {}
      /\ HasCycle(s, 1) <=> LoopsUpTo(s, 1) # {}
      /\ HasCycle(s, 2) <=> LoopsUpTo(s, 2) # {}
  BY HasCycleIsExact
<1>2. \A e : Class(e) \in 0..3
  BY DEF Class
<1>3. \A h : Carried(h, 0) \subseteq Carried(h, 1) /\ Carried(h, 1) \subseteq Carried(h, 2)
  BY <1>2 DEF Carried
<1>4. LoopsUpTo(s, 0) \subseteq LoopsUpTo(s, 1) /\ LoopsUpTo(s, 1) \subseteq LoopsUpTo(s, 2)
  BY <1>3 DEF LoopsUpTo
<1> QED BY <1>1, <1>4 DEF Probed

\* NoLoop is a proof of absence, for every topology, scope and set of limits:
\* whatever bound was reached, no candidate selector has a cycle of hops that
\* may be open (invariant 3 of the repository's README).
THEOREM NoLoopIsAlwaysProved == Spec => []NoLoopIsProved
<1>1. DetectorInv => NoLoopIsProved
  <2> SUFFICES ASSUME DetectorInv, answer.outcome = "NoLoop", NEW s \in Candidates
               PROVE  LoopsUpTo(s, 2) = {}
    BY DEF NoLoopIsProved
  <2>1. /\ found = UNION {Probed(t) : t \in Candidates \ todo}
        /\ "existence" \notin reached => todo = {}
        /\ answer.outcome = Outcome
    BY AnsweredFrom
  <2>2. /\ 0 \notin found /\ 1 \notin found /\ 2 \notin found /\ "existence" \notin reached
    BY <2>1 DEF Outcome
  <2>3. Probed(s) \subseteq found
    BY <2>1, <2>2
  <2> QED BY <2>2, <2>3, ProbedIs
<1> QED BY <1>1, DetectorIsInvariant, PTL

\* Every witness is a simple cycle of the definition in canonical form, proved
\* hop by hop and certain, with exactly the selectors that all its hops carry,
\* and witnesses are given exactly in a confirmation.
THEOREM WitnessesAreAlwaysLoops == Spec => []WitnessesAreLoops
<1>1. DetectorInv => WitnessesAreLoops
  <2> SUFFICES ASSUME DetectorInv PROVE WitnessesAreLoops
    OBVIOUS
  <2>1. ASSUME NEW w \in Listed
        PROVE  /\ w.hops \in Loops
               /\ w.cycle = [i \in DOMAIN w.hops |-> From[w.hops[i]]]
               /\ w.selectors = Carried(w.hops, 0) /\ w.selectors # {}
               /\ \A i \in DOMAIN w.hops : w.hops[i] \notin Uncertain
    <3>1. w \in Listable /\ Certain(w.hops)
      <4> DEFINE Checked == {v \in Listable : Certain(v.hops)}
      <4>1. witnesses \in Seq(Checked)
        BY DEF DetectorInv, ListInv
      <4>2. w \in Checked
        <5> HIDE DEF Checked
        <5> QED BY <4>1 DEF Listed
      <4> QED BY <4>2
    <3>2. /\ w.hops \in Proven /\ w = WitnessOf(w.hops) /\ w.selectors = Carried(w.hops, 0)
      BY <3>1, ListableForm
    <3>3. WitnessOf(w.hops).cycle = [i \in DOMAIN w.hops |-> From[w.hops[i]]]
      BY DEF WitnessOf
    <3> QED BY <3>1, <3>2, <3>3 DEF Proven, Certain
  <2>2. phase = "answered" => (witnesses # <<>> <=> answer.outcome = "LoopConfirmed")
    <3>1. witnesses # <<>> => 0 \in found
      BY DEF DetectorInv, ListInv
    <3>2. Outcome = "LoopConfirmed" <=> 0 \in found /\ witnesses # <<>>
      BY DEF Outcome
    <3> QED BY <3>1, <3>2 DEF DetectorInv, AnswerInv
  <2> QED BY <2>1, <2>2 DEF WitnessesAreLoops
<1> QED BY <1>1, DetectorIsInvariant, PTL

\* A confirmation that does not say otherwise lists every proven loop of a
\* certain definition, unless the step bound or the validation budget cut it.
THEOREM ListIsAlwaysComplete == Spec => []ListIsComplete
<1>1. DetectorInv => ListIsComplete
  <2> SUFFICES ASSUME DetectorInv, answer.outcome = "LoopConfirmed", ~ answer.additional,
                      reached \cap {"steps", "validation"} = {},
                      NEW h \in Loops, Carried(h, 0) # {},
                      \A i \in DOMAIN h : h[i] \notin Uncertain
               PROVE  \E w \in Listed : w.hops = h
    BY DEF ListIsComplete
  <2>1. /\ phase = "answered" /\ listed = {} /\ answer.outcome = Outcome
        /\ answer.additional <=> witnesses # <<>> /\ Bounded
    BY AnsweredFrom
  <2>2. 0 \in found /\ witnesses # <<>> /\ ~ Bounded
    BY <2>1 DEF Outcome
  <2>3. "existence" \notin reached
    BY <2>2 DEF DetectorInv, ListInv
  <2>4. reached \cap {"existence", "cycles", "length", "steps", "validation"} = {}
    BY <2>2, <2>3 DEF Bounded
  <2>5. WitnessOf(h) \in Listed
    <3>1. h \in Proven /\ Certain(h)
      BY DEF Proven, Certain
    <3> QED BY <2>1, <2>2, <2>4, <3>1 DEF DetectorInv, CompleteInv
  <2> QED BY <2>5 DEF WitnessOf
<1> QED BY <1>1, DetectorIsInvariant, PTL

\* Without a bound reached, the answer names the weakest evidence a loop rests
\* on (invariant 2 of the repository's README).
THEOREM AnswerIsAlwaysGraded == Spec => []AnswerIsGraded
<1>1. DetectorInv => AnswerIsGraded
  <2> DEFINE proven == \E s \in Candidates : LoopsUpTo(s, 0) # {}
             conflict == \E s \in Candidates :
                             LoopsUpTo(s, 1) = {} /\ LoopsUpTo(s, 2) # {}
             possible == \E s \in Candidates : LoopsUpTo(s, 1) # {}
  <2> SUFFICES ASSUME DetectorInv, phase = "answered", ~ answer.limit
               PROVE  CASE proven -> answer.outcome = "LoopConfirmed"
                        [] ~ proven /\ conflict -> answer.outcome = "Conflict"
                        [] ~ proven /\ ~ conflict /\ possible -> answer.outcome = "Unknown"
                        [] OTHER -> answer.outcome = "NoLoop"
    BY DEF AnswerIsGraded
  <2>1. /\ found = UNION {Probed(s) : s \in Candidates \ todo}
        /\ "existence" \notin reached => todo = {}
        /\ answer.outcome = Outcome
        /\ "existence" \notin reached /\ ~ (0 \in found /\ witnesses = <<>>)
    BY DEF DetectorInv, AnswerInv
  <2>2. \A k : k \in found <=> \E s \in Candidates : k \in Probed(s)
    BY <2>1
  <2>3. (0 \in found <=> proven) /\ (2 \in found <=> conflict)
    BY <2>2, ProbedIs
  <2>4. ~ proven => (1 \in found <=> possible)
    BY <2>2, ProbedIs
  <2> HIDE DEF proven, conflict, possible
  <2> QED BY <2>1, <2>3, <2>4 DEF Outcome
<1> QED BY <1>1, DetectorIsInvariant, PTL

\* The variables of the detector are well typed, its stack is a simple path
\* within its depth, and its lists are within their limits.
THEOREM DetectorIsAlwaysTyped == Spec => []DetectorTypeOK
<1>1. DetectorInv => DetectorTypeOK
  <2> SUFFICES ASSUME DetectorInv PROVE DetectorTypeOK
    OBVIOUS
  <2>1. /\ phase \in {"asked", "existence", "enumeration", "validation", "answered", "returned"}
        /\ todo \subseteq Candidates /\ found \subseteq 0..2
        /\ reached \subseteq {"existence", "steps", "cycles", "length", "validation"}
    BY DEF DetectorInv, ExistenceInv, AnswerInv
  <2>2. /\ Cardinality(listed) <= limits.witnesses /\ cycles <= limits.cycles + 1
        /\ Len(stack) <= Depth
    BY DEF DetectorInv, ListInv, StackInv
  <2>3. Cardinality(Nodes(stack)) = Len(stack)
    <3> DEFINE n == Len(stack)
               node == [i \in 1..n |-> stack[i].node]
    <3>1. n \in Nat /\ DOMAIN stack = 1..n /\ Nodes(stack) = {stack[i].node : i \in 1..n}
      BY DEF DetectorInv, StackInv, Nodes
    <3>2. \A i, j \in 1..n : stack[i].node = stack[j].node => i = j
      BY DEF DetectorInv, StackInv
    <3>3. node \in Bijection(1..n, Nodes(stack))
      <4>1. node \in [1..n -> Nodes(stack)]
        BY <3>1
      <4>2. \A i, j \in 1..n : node[i] = node[j] => i = j
        BY <3>2
      <4>3. \A x \in Nodes(stack) : \E i \in 1..n : node[i] = x
        BY <3>1
      <4> HIDE DEF node, n
      <4> QED BY <4>1, <4>2, <4>3 DEF Bijection, Injection, IsInjective, Surjection
    <3> HIDE DEF node, n
    <3>4. Cardinality(1..n) = n /\ IsFiniteSet(1..n)
      BY <3>1, FS_Interval
    <3>5. ExistsBijection(1..n, Nodes(stack))
      BY <3>3 DEF ExistsBijection
    <3>6. Cardinality(Nodes(stack)) = n
      BY <3>4, <3>5, FS_Bijection
    <3> QED BY <3>6 DEF n
  <2>4. answer \in [outcome : {"None", "NoLoop", "LoopConfirmed", "Unknown",
                               "Conflict", "Indeterminate"},
                    limit : BOOLEAN, additional : BOOLEAN]
    <3>1. Outcome \in {"NoLoop", "LoopConfirmed", "Unknown", "Conflict", "Indeterminate"}
      BY DEF Outcome
    <3> DEFINE l == \/ Bounded \/ "existence" \in reached
                    \/ 0 \in found /\ witnesses = <<>>
               a == witnesses # <<>> /\ Bounded
    <3>2. \/ answer = [outcome |-> "None", limit |-> FALSE, additional |-> FALSE]
          \/ answer = [outcome |-> "Indeterminate", limit |-> TRUE, additional |-> FALSE]
          \/ answer = [outcome |-> Outcome, limit |-> l, additional |-> a]
      BY DEF DetectorInv, AnswerInv, Pending
    <3>3. l \in BOOLEAN /\ a \in BOOLEAN /\ TRUE \in BOOLEAN /\ FALSE \in BOOLEAN
      OBVIOUS
    <3> HIDE DEF l, a
    <3>4. PICK o \in {"None", "NoLoop", "LoopConfirmed", "Unknown", "Conflict", "Indeterminate"},
               x \in BOOLEAN, y \in BOOLEAN :
             answer = [outcome |-> o, limit |-> x, additional |-> y]
      BY <3>1, <3>2, <3>3, Zenon
    <3>5. [outcome |-> o, limit |-> x, additional |-> y]
             \in [outcome : {"None", "NoLoop", "LoopConfirmed", "Unknown",
                             "Conflict", "Indeterminate"},
                 limit : BOOLEAN, additional : BOOLEAN]
      OBVIOUS
    <3> QED BY <3>4, <3>5, Zenon
  <2> QED BY <2>1, <2>2, <2>3, <2>4 DEF DetectorTypeOK
<1> QED BY <1>1, DetectorIsInvariant, PTL

-----------------------------------------------------------------------------
(* Cost                                                                    *)

\* The cost of a set is summed up resource by resource.
LEMMA CostDefined ==
    ASSUME NEW S
    PROVE  \E u \in [0..Rounds -> Nat] :
              /\ u[0] = 0
              /\ \A n \in 1..Rounds : u[n] = u[n - 1] + (IF n \in S THEN Cost[n] ELSE 0)
              /\ CostOf(S) = u[Rounds]
<1> DEFINE Price(n) == IF n \in S THEN Cost[n] ELSE 0
           IsUpTo(g) ==
             g = [n \in 0..Rounds |-> IF n = 0 THEN 0 ELSE g[n - 1] + Price(n)]
           F == [n \in Nat |-> [x \in Nat |-> IF n \in Resource THEN x + Price(n) ELSE 0]]
           upTo == CHOOSE g : IsUpTo(g)
<1>1. Rounds \in Nat /\ Resource = 1..Rounds
  BY RoundsNatural
<1>2. \A n \in Resource : Price(n) \in Nat
  BY TopologyAssumption DEF Canonical
<1> HIDE DEF Price
<1>3. Maps(F, Nat) /\ 0 \in Nat
  BY <1>2 DEF Maps
<1>4. PICK g : Iterates(g, Nat, 0, F, Rounds)
  <2> HIDE DEF F
  <2> QED BY <1>1, <1>3, Recursion
<1>5. IsUpTo(g)
  <2>1. \A n \in 0..Rounds : g[n] = IF n = 0 THEN 0 ELSE g[n - 1] + Price(n)
    <3> TAKE n \in 0..Rounds
    <3>1. CASE n = 0
      BY <1>4, <3>1 DEF Iterates
    <3>2. CASE n # 0
      <4>1. n \in 1..Rounds /\ n - 1 \in 0..Rounds /\ n \in Nat /\ n \in Resource
        BY <1>1, <3>2
      <4>2. g[n - 1] \in Nat /\ g[n] = F[n][g[n - 1]]
        BY <1>4, <4>1 DEF Iterates
      <4> QED BY <3>2, <4>1, <4>2
    <3> QED BY <3>1, <3>2
  <2>2. g = [n \in 0..Rounds |-> g[n]]
    BY <1>4 DEF Iterates
  <2> QED BY <2>1, <2>2
<1>6. IsUpTo(upTo)
  <2> HIDE DEF IsUpTo
  <2> QED BY <1>5
<1>7. CostOf(S) = upTo[Rounds]
  BY DEF CostOf, Rounds, Price
<1> HIDE DEF upTo
<1>8. /\ upTo[0] = 0 /\ upTo = [n \in 0..Rounds |-> upTo[n]]
      /\ \A n \in 1..Rounds : upTo[n] = upTo[n - 1] + Price(n)
  <2>1. \A n \in 0..Rounds : upTo[n] = IF n = 0 THEN 0 ELSE upTo[n - 1] + Price(n)
    BY <1>6
  <2>2. upTo = [n \in 0..Rounds |-> upTo[n]]
    BY <1>6
  <2>3. 0 \in 0..Rounds /\ \A n \in 1..Rounds : n \in 0..Rounds /\ n # 0
    BY <1>1
  <2> QED BY <2>1, <2>2, <2>3
<1>9. \A n \in 0..Rounds : upTo[n] \in Nat
  <2> DEFINE T == {n \in Nat : n <= Rounds => upTo[n] \in Nat}
  <2>1. 0 \in T
    BY <1>8
  <2>2. \A n \in T : n + 1 \in T
    <3> TAKE n \in T
    <3>1. CASE n + 1 <= Rounds
      <4>1. n + 1 \in 1..Rounds /\ n + 1 \in Resource /\ (n + 1) - 1 = n /\ n <= Rounds
        BY <1>1, <3>1
      <4>2. upTo[n + 1] = upTo[n] + Price(n + 1) /\ Price(n + 1) \in Nat /\ upTo[n] \in Nat
        BY <1>2, <1>8, <4>1
      <4> QED BY <4>2
    <3>2. CASE ~ (n + 1 <= Rounds)
      BY <3>2
    <3> QED BY <3>1, <3>2
  <2>3. T \subseteq Nat
    OBVIOUS
  <2>4. T = Nat
    <3> HIDE DEF T
    <3> QED BY <2>1, <2>2, <2>3, NaturalSet
  <2> QED BY <2>4, <1>1
<1>10. upTo \in [0..Rounds -> Nat]
  BY <1>8, <1>9
<1> QED BY <1>7, <1>8, <1>10 DEF Price

\* One more resource adds its cost.
LEMMA CostAdds ==
    ASSUME NEW S, NEW r \in Resource, r \notin S
    PROVE  CostOf(S \cup {r}) = CostOf(S) + Cost[r]
<1>1. PICK u \in [0..Rounds -> Nat] :
              /\ u[0] = 0
              /\ \A n \in 1..Rounds : u[n] = u[n - 1] + (IF n \in S THEN Cost[n] ELSE 0)
              /\ CostOf(S) = u[Rounds]
  BY CostDefined
<1>2. PICK v \in [0..Rounds -> Nat] :
              /\ v[0] = 0
              /\ \A n \in 1..Rounds :
                    v[n] = v[n - 1] + (IF n \in S \cup {r} THEN Cost[n] ELSE 0)
              /\ CostOf(S \cup {r}) = v[Rounds]
  BY CostDefined
<1>3. Rounds \in Nat /\ Resource = 1..Rounds /\ \A n \in Resource : Cost[n] \in Nat
  BY RoundsNatural, TopologyAssumption DEF Canonical
<1> DEFINE T == {n \in Nat : n <= Rounds => v[n] = u[n] + (IF n < r THEN 0 ELSE Cost[r])}
<1>4. 0 \in T
  BY <1>1, <1>2, <1>3
<1>5. \A n \in T : n + 1 \in T
  <2> TAKE n \in T
  <2> SUFFICES ASSUME n + 1 <= Rounds
               PROVE  v[n + 1] = u[n + 1] + (IF n + 1 < r THEN 0 ELSE Cost[r])
    OBVIOUS
  <2>1. n + 1 \in 1..Rounds /\ n + 1 \in Resource /\ (n + 1) - 1 = n /\ n <= Rounds /\ n \in 0..Rounds
    BY <1>3
  <2>2. v[n] = u[n] + (IF n < r THEN 0 ELSE Cost[r]) /\ u[n] \in Nat
    BY <2>1
  <2>3. /\ u[n + 1] = u[n] + (IF n + 1 \in S THEN Cost[n + 1] ELSE 0)
        /\ v[n + 1] = v[n] + (IF n + 1 \in S \cup {r} THEN Cost[n + 1] ELSE 0)
    BY <1>1, <1>2, <2>1
  <2>4. Cost[n + 1] \in Nat /\ Cost[r] \in Nat /\ r \in Nat
    BY <1>3, <2>1
  <2>5. CASE n + 1 = r
    <3>1. n + 1 \notin S /\ n + 1 \in S \cup {r} /\ n < r /\ ~ (n + 1 < r)
      BY <2>5, <2>4
    <3> QED BY <2>2, <2>3, <2>4, <2>5, <3>1
  <2>6. CASE n + 1 # r
    <3>1. (n + 1 \in S \cup {r} <=> n + 1 \in S) /\ (n < r <=> n + 1 < r)
      BY <2>6, <2>4
    <3> QED BY <2>2, <2>3, <2>4, <3>1
  <2> QED BY <2>5, <2>6
<1>6. T = Nat
  <2>1. T \subseteq Nat
    OBVIOUS
  <2> HIDE DEF T
  <2> QED BY <1>4, <1>5, <2>1, NaturalSet
<1>7. v[Rounds] = u[Rounds] + (IF Rounds < r THEN 0 ELSE Cost[r])
  <2>1. Rounds \in T /\ Rounds <= Rounds
    <3> HIDE DEF T
    <3> QED BY <1>3, <1>6
  <2> QED BY <2>1
<1>8. ~ (Rounds < r)
  BY <1>3
<1> QED BY <1>1, <1>2, <1>7, <1>8

\* More resources cost no less.
LEMMA CostGrows ==
    ASSUME NEW S, NEW W, S \subseteq W
    PROVE  CostOf(S) \in Nat /\ CostOf(W) \in Nat /\ CostOf(S) <= CostOf(W)
<1>1. PICK u \in [0..Rounds -> Nat] :
              /\ u[0] = 0
              /\ \A n \in 1..Rounds : u[n] = u[n - 1] + (IF n \in S THEN Cost[n] ELSE 0)
              /\ CostOf(S) = u[Rounds]
  BY CostDefined
<1>2. PICK v \in [0..Rounds -> Nat] :
              /\ v[0] = 0
              /\ \A n \in 1..Rounds : v[n] = v[n - 1] + (IF n \in W THEN Cost[n] ELSE 0)
              /\ CostOf(W) = v[Rounds]
  BY CostDefined
<1>3. Rounds \in Nat /\ Resource = 1..Rounds /\ \A n \in Resource : Cost[n] \in Nat
  BY RoundsNatural, TopologyAssumption DEF Canonical
<1> DEFINE T == {n \in Nat : n <= Rounds => u[n] <= v[n]}
<1>4. 0 \in T
  BY <1>1, <1>2, <1>3
<1>5. \A n \in T : n + 1 \in T
  <2> TAKE n \in T
  <2> SUFFICES ASSUME n + 1 <= Rounds PROVE u[n + 1] <= v[n + 1]
    OBVIOUS
  <2>1. n + 1 \in 1..Rounds /\ n + 1 \in Resource /\ (n + 1) - 1 = n /\ n <= Rounds /\ n \in 0..Rounds
    BY <1>3
  <2>2. u[n] <= v[n] /\ u[n] \in Nat /\ v[n] \in Nat /\ Cost[n + 1] \in Nat
    BY <1>3, <2>1
  <2>3. /\ u[n + 1] = u[n] + (IF n + 1 \in S THEN Cost[n + 1] ELSE 0)
        /\ v[n + 1] = v[n] + (IF n + 1 \in W THEN Cost[n + 1] ELSE 0)
    BY <1>1, <1>2, <2>1
  <2>4. n + 1 \in S => n + 1 \in W
    OBVIOUS
  <2> QED BY <2>2, <2>3, <2>4
<1>6. T = Nat
  <2>1. T \subseteq Nat
    OBVIOUS
  <2> HIDE DEF T
  <2> QED BY <1>4, <1>5, <2>1, NaturalSet
<1>7. u[Rounds] <= v[Rounds]
  BY <1>3, <1>6
<1> QED BY <1>1, <1>2, <1>3, <1>7

-----------------------------------------------------------------------------
(* The binary search                                                       *)

Window == [first : Nat, len : Nat]

Halved(r, s, p) ==
    IF p.len = 0 THEN p
    ELSE IF s[p.first + (p.len \div 2)] < r
    THEN [first |-> p.first + (p.len \div 2) + 1, len |-> p.len - (p.len \div 2) - 1]
    ELSE [first |-> p.first, len |-> p.len \div 2]

\* A halving step stays a window of the sequence.
LEMMA HalvedInRange ==
    ASSUME NEW r, NEW s, NEW p \in Window
    PROVE  /\ Halved(r, s, p) \in Window
           /\ p.len # 0 => Halved(r, s, p).len < p.len
           /\ Halved(r, s, p).len <= p.len
           /\ Halved(r, s, p).first >= p.first
           /\ Halved(r, s, p).first + Halved(r, s, p).len <= p.first + p.len
<1> DEFINE half == p.len \div 2
<1>1. p.len \in Nat /\ p.first \in Nat
  BY DEF Window
<1>2. half \in Nat /\ (p.len # 0 => half < p.len)
  BY <1>1
<1> HIDE DEF half
<1>3. p.len # 0 => p.len - half - 1 \in Nat /\ p.len - half - 1 < p.len
  BY <1>1, <1>2
<1>4. Halved(r, s, p) = IF p.len = 0 THEN p
                        ELSE IF s[p.first + half] < r
                        THEN [first |-> p.first + half + 1, len |-> p.len - half - 1]
                        ELSE [first |-> p.first, len |-> half]
  BY DEF Halved, half
<1>5. CASE p.len = 0
  BY <1>1, <1>4, <1>5
<1>6. CASE p.len # 0 /\ s[p.first + half] < r
  <2>1. Halved(r, s, p) = [first |-> p.first + half + 1, len |-> p.len - half - 1]
    BY <1>4, <1>6
  <2>2. /\ Halved(r, s, p).first = p.first + half + 1
        /\ Halved(r, s, p).len = p.len - half - 1
    BY <2>1
  <2> QED BY <1>1, <1>2, <1>3, <1>6, <2>1, <2>2 DEF Window
<1>7. CASE p.len # 0 /\ ~ (s[p.first + half] < r)
  <2>1. Halved(r, s, p) = [first |-> p.first, len |-> half]
    BY <1>4, <1>7
  <2>2. Halved(r, s, p).first = p.first /\ Halved(r, s, p).len = half
    BY <2>1
  <2> QED BY <1>1, <1>2, <1>7, <2>1, <2>2 DEF Window
<1> QED BY <1>5, <1>6, <1>7

\* The rounds of the search.
LEMMA FoundDefined ==
    ASSUME NEW r, NEW s, Len(s) \in Nat
    PROVE  \E halve \in [0..Len(s) -> Window] :
              /\ halve[0] = [first |-> 1, len |-> Len(s)]
              /\ \A n \in 1..Len(s) : halve[n] = Halved(r, s, halve[n - 1])
              /\ Found(r, s) <=>
                    halve[Len(s)].first <= Len(s) /\ s[halve[Len(s)].first] = r
<1> DEFINE N == Len(s)
           c == [first |-> 1, len |-> Len(s)]
           IsHalve(g) ==
             g = [n \in 0..Len(s) |-> IF n = 0 THEN c ELSE Halved(r, s, g[n - 1])]
           F == [n \in Nat |-> [p \in Window |-> Halved(r, s, p)]]
           halve == CHOOSE g : IsHalve(g)
<1>1. Maps(F, Window) /\ c \in Window
  BY HalvedInRange DEF Maps, Window
<1>2. PICK g : Iterates(g, Window, c, F, N)
  <2> HIDE DEF F, c, N
  <2>1. N \in Nat
    BY DEF N
  <2> QED BY <1>1, <2>1, Recursion
<1> HIDE DEF c
<1>3. IsHalve(g)
  <2>1. \A n \in 0..Len(s) : g[n] = IF n = 0 THEN c ELSE Halved(r, s, g[n - 1])
    <3> TAKE n \in 0..Len(s)
    <3>1. CASE n = 0
      BY <1>2, <3>1 DEF Iterates
    <3>2. CASE n # 0
      <4>1. n \in 1..Len(s) /\ n - 1 \in 0..Len(s) /\ n \in Nat
        BY <3>2
      <4>2. g[n - 1] \in Window /\ g[n] = F[n][g[n - 1]]
        BY <1>2, <4>1 DEF Iterates
      <4> QED BY <3>2, <4>1, <4>2
    <3> QED BY <3>1, <3>2
  <2>2. g = [n \in 0..Len(s) |-> g[n]]
    BY <1>2 DEF Iterates
  <2> QED BY <2>1, <2>2
<1>4. IsHalve(halve)
  <2> HIDE DEF IsHalve
  <2> QED BY <1>3
<1>5. Found(r, s) <=> halve[Len(s)].first <= Len(s) /\ s[halve[Len(s)].first] = r
  BY DEF Found, Halved, c
<1> HIDE DEF halve
<1>6. /\ halve[0] = c /\ halve = [n \in 0..Len(s) |-> halve[n]]
      /\ \A n \in 1..Len(s) : halve[n] = Halved(r, s, halve[n - 1])
  <2>1. \A n \in 0..Len(s) : halve[n] = IF n = 0 THEN c ELSE Halved(r, s, halve[n - 1])
    BY <1>4
  <2>2. halve = [n \in 0..Len(s) |-> halve[n]]
    BY <1>4
  <2>3. 0 \in 0..Len(s) /\ \A n \in 1..Len(s) : n \in 0..Len(s) /\ n # 0
    OBVIOUS
  <2> QED BY <2>1, <2>2, <2>3
<1>7. \A n \in 0..Len(s) : halve[n] \in Window
  <2> DEFINE T == {n \in Nat : n <= Len(s) => halve[n] \in Window}
  <2>1. 0 \in T
    BY <1>1, <1>6
  <2>2. \A n \in T : n + 1 \in T
    <3> TAKE n \in T
    <3> SUFFICES ASSUME n + 1 <= Len(s) PROVE halve[n + 1] \in Window
      OBVIOUS
    <3>1. n + 1 \in 1..Len(s) /\ (n + 1) - 1 = n /\ n <= Len(s)
      OBVIOUS
    <3>2. halve[n + 1] = Halved(r, s, halve[n]) /\ halve[n] \in Window
      BY <1>6, <3>1
    <3> QED BY <3>2, HalvedInRange
  <2>3. T \subseteq Nat
    OBVIOUS
  <2>4. T = Nat
    <3> HIDE DEF T
    <3> QED BY <2>1, <2>2, <2>3, NaturalSet
  <2> QED BY <2>4
<1>8. halve \in [0..Len(s) -> Window]
  BY <1>6, <1>7
<1> QED BY <1>5, <1>6, <1>8 DEF c

\* Half of a window that is not empty is shorter.
LEMMA HalfWithin ==
    ASSUME NEW a \in Nat, NEW b \in Nat, NEW h \in Nat, NEW N \in Nat,
           a >= 1, a + b <= N + 1, h < b
    PROVE  a + h \in 1..N /\ (a + h + 1) + (b - h - 1) = a + b
OBVIOUS

\* What a halving step leaves is within the window and has one element less.
LEMMA Shrinks ==
    ASSUME NEW a \in Nat, NEW b \in Nat, NEW c \in Nat, NEW d \in Nat,
           NEW N \in Nat, NEW n \in Nat, n + 1 <= N,
           b # 0 => d < b, d <= b, c >= a, c + d <= a + b,
           a >= 1, a + b <= N + 1, b <= N - n
    PROVE  c >= 1 /\ c + d <= N + 1 /\ d <= N - (n + 1)
OBVIOUS

\* What the search finds is there; what it looks for is found where the
\* sequence is in order.
LEMMA FoundIsThere ==
    ASSUME NEW s \in Seq(Nat), NEW r \in Nat
    PROVE  /\ Found(r, s) => r \in Elements(s)
           /\ /\ \A j \in 1..(Len(s) - 1) : s[j] < s[j + 1]
              /\ r \in Elements(s)
              => Found(r, s)
<1> DEFINE N == Len(s)
<1>1. N \in Nat /\ DOMAIN s = 1..N /\ \A i \in 1..N : s[i] \in Nat
  OBVIOUS
<1>2. PICK halve \in [0..N -> Window] :
              /\ halve[0] = [first |-> 1, len |-> N]
              /\ \A n \in 1..N : halve[n] = Halved(r, s, halve[n - 1])
              /\ Found(r, s) <=> halve[N].first <= N /\ s[halve[N].first] = r
  BY <1>1, FoundDefined
<1> DEFINE Within(p, n) == /\ p.first >= 1 /\ p.first + p.len <= N + 1
                           /\ p.len <= N - n
           T == {n \in Nat : n <= N => Within(halve[n], n)}
<1> HIDE DEF N
<1>3. T = Nat
  <2>1. 0 \in T
    BY <1>1, <1>2
  <2>2. \A n \in T : n + 1 \in T
    <3> TAKE n \in T
    <3> SUFFICES ASSUME n + 1 <= N PROVE Within(halve[n + 1], n + 1)
      OBVIOUS
    <3>1. n + 1 \in 1..N /\ (n + 1) - 1 = n /\ n <= N /\ n \in 0..N
      BY <1>1
    <3>2. halve[n + 1] = Halved(r, s, halve[n]) /\ halve[n] \in Window /\ Within(halve[n], n)
      BY <1>2, <3>1
    <3>3. halve[n].first \in Nat /\ halve[n].len \in Nat
      BY <3>2 DEF Window
    <3>4. halve[n + 1].first \in Nat /\ halve[n + 1].len \in Nat
      BY <3>2, HalvedInRange DEF Window
    <3>5. /\ halve[n].len # 0 => halve[n + 1].len < halve[n].len
          /\ halve[n + 1].len <= halve[n].len
          /\ halve[n + 1].first >= halve[n].first
          /\ halve[n + 1].first + halve[n + 1].len <= halve[n].first + halve[n].len
      BY <3>2, HalvedInRange
    <3>6. /\ halve[n].first >= 1 /\ halve[n].first + halve[n].len <= N + 1
          /\ halve[n].len <= N - n
      BY <3>2
    <3>7. n \in Nat
      OBVIOUS
    <3> HIDE DEF T
    <3>8. /\ halve[n + 1].first >= 1
          /\ halve[n + 1].first + halve[n + 1].len <= N + 1
          /\ halve[n + 1].len <= N - (n + 1)
      <4> DEFINE a == halve[n].first
                 b == halve[n].len
                 c == halve[n + 1].first
                 d == halve[n + 1].len
      <4>1. /\ a \in Nat /\ b \in Nat /\ c \in Nat /\ d \in Nat
            /\ (b # 0 => d < b) /\ d <= b /\ c >= a /\ c + d <= a + b
            /\ a >= 1 /\ a + b <= N + 1 /\ b <= N - n
        BY <3>3, <3>4, <3>5, <3>6
      <4> HIDE DEF a, b, c, d
      <4>2. c >= 1 /\ c + d <= N + 1 /\ d <= N - (n + 1)
        BY <1>1, <3>7, <4>1, Shrinks
      <4> QED BY <4>2 DEF c, d
    <3> QED BY <3>8
  <2>3. T \subseteq Nat
    OBVIOUS
  <2> HIDE DEF T
  <2> QED BY <2>1, <2>2, <2>3, NaturalSet
<1>4. \A n \in 0..N : Within(halve[n], n)
  <2> HIDE DEF Within
  <2> QED BY <1>1, <1>3
<1> DEFINE at == halve[N].first
<1>5. at \in Nat /\ at >= 1 /\ halve[N].len = 0
  <2>1. halve[N] \in Window /\ Within(halve[N], N)
    BY <1>1, <1>2, <1>4
  <2>2. halve[N].first \in Nat /\ halve[N].len \in Nat
    BY <2>1 DEF Window
  <2> QED BY <1>1, <2>1, <2>2
<1>6. Found(r, s) => r \in Elements(s)
  BY <1>1, <1>2, <1>5 DEF Elements
<1>7. ASSUME \A j \in 1..(N - 1) : s[j] < s[j + 1], r \in Elements(s)
      PROVE  Found(r, s)
  <2>1. \A i, j \in 1..N : i <= j => s[i] <= s[j]
    <3> DEFINE U == {d \in Nat : \A i \in 1..N : i + d <= N => s[i] <= s[i + d]}
    <3>1. 0 \in U
      BY <1>1
    <3>2. \A d \in U : d + 1 \in U
      <4> TAKE d \in U
      <4> SUFFICES ASSUME NEW i \in 1..N, i + (d + 1) <= N
                   PROVE  s[i] <= s[i + (d + 1)]
        OBVIOUS
      <4>1. i + d \in 1..(N - 1) /\ (i + d) + 1 = i + (d + 1) /\ i + d <= N
            /\ i + d \in 1..N /\ i + (d + 1) \in 1..N
        BY <1>1
      <4>2. s[i] <= s[i + d] /\ s[i + d] < s[(i + d) + 1]
        BY <1>7, <4>1
      <4>3. s[i] \in Nat /\ s[i + d] \in Nat /\ s[i + (d + 1)] \in Nat
        BY <1>1, <4>1
      <4> QED BY <4>1, <4>2, <4>3
    <3>3. U = Nat
      <4>1. U \subseteq Nat
        OBVIOUS
      <4> HIDE DEF U
      <4> QED BY <3>1, <3>2, <4>1, NaturalSet
    <3> TAKE i, j \in 1..N
    <3> SUFFICES ASSUME i <= j PROVE s[i] <= s[j]
      OBVIOUS
    <3>4. j - i \in Nat /\ i + (j - i) = j /\ i + (j - i) <= N
      BY <1>1
    <3>5. j - i \in U
      BY <3>3, <3>4
    <3> QED BY <3>4, <3>5
  <2> DEFINE Splits(p) == /\ \A k \in 1..N : k < p.first => s[k] < r
                          /\ \A k \in 1..N : k >= p.first + p.len => r <= s[k]
             V == {n \in Nat : n <= N => Splits(halve[n])}
  <2>2. V = Nat
    <3>1. 0 \in V
      <4>1. halve[0].first = 1 /\ halve[0].len = N
        BY <1>2
      <4> QED BY <1>1, <4>1
    <3>2. \A n \in V : n + 1 \in V
      <4> TAKE n \in V
      <4> SUFFICES ASSUME n + 1 <= N PROVE Splits(halve[n + 1])
        OBVIOUS
      <4>1. n + 1 \in 1..N /\ (n + 1) - 1 = n /\ n <= N /\ n \in 0..N
        BY <1>1
      <4> DEFINE p == halve[n]
                 q == halve[n + 1]
                 half == p.len \div 2
      <4>2. q = Halved(r, s, p) /\ p \in Window /\ Splits(p) /\ Within(p, n)
        BY <1>2, <1>4, <4>1
      <4> HIDE DEF p, q
      <4>3. /\ p.first \in Nat /\ p.len \in Nat /\ half \in Nat /\ (p.len # 0 => half < p.len)
            /\ p.first >= 1 /\ p.first + p.len <= N + 1
        <5>1. p.first \in Nat /\ p.len \in Nat
          BY <4>2 DEF Window
        <5>2. half \in Nat /\ (p.len # 0 => half < p.len)
          BY <5>1
        <5>3. p.first >= 1 /\ p.first + p.len <= N + 1
          BY <4>2
        <5> QED BY <5>1, <5>2, <5>3
      <4>4. CASE p.len = 0
        BY <4>2, <4>4 DEF Halved, q
      <4>5. CASE p.len # 0 /\ s[p.first + half] < r
        <5>1. q.first = p.first + half + 1 /\ q.len = p.len - half - 1
          BY <4>2, <4>5 DEF Halved
        <5> HIDE DEF half
        <5>2. p.first + half \in 1..N /\ q.first + q.len = p.first + p.len
          <6>1. /\ p.first + half \in 1..N
                /\ (p.first + half + 1) + (p.len - half - 1) = p.first + p.len
            <7> DEFINE a == p.first
                       b == p.len
            <7>1. /\ a \in Nat /\ b \in Nat /\ half \in Nat /\ half < b
                  /\ a >= 1 /\ a + b <= N + 1
              BY <4>3, <4>5
            <7> HIDE DEF a, b
            <7>2. a + half \in 1..N /\ (a + half + 1) + (b - half - 1) = a + b
              BY <1>1, <7>1, HalfWithin
            <7> QED BY <7>2 DEF a, b
          <6> QED BY <5>1, <6>1
        <5>3. ASSUME NEW k \in 1..N, k < q.first PROVE s[k] < r
          <6>1. k <= p.first + half /\ s[k] \in Nat /\ s[p.first + half] \in Nat
            BY <1>1, <4>3, <5>1, <5>2, <5>3
          <6>2. s[k] <= s[p.first + half]
            BY <2>1, <5>2, <6>1
          <6> QED BY <4>5, <6>1, <6>2
        <5>4. \A k \in 1..N : k >= q.first + q.len => r <= s[k]
          BY <4>2, <5>2
        <5> QED BY <5>3, <5>4 DEF q
      <4>6. CASE p.len # 0 /\ ~ (s[p.first + half] < r)
        <5>1. q.first = p.first /\ q.len = half
          BY <4>2, <4>6 DEF Halved
        <5> HIDE DEF half
        <5>2. p.first + half \in 1..N
          BY <1>1, <4>3, <4>6, HalfWithin
        <5>3. ASSUME NEW k \in 1..N, k >= q.first + q.len PROVE r <= s[k]
          <6>1. p.first + half <= k /\ s[k] \in Nat /\ s[p.first + half] \in Nat
            BY <1>1, <5>1, <5>2, <5>3
          <6>2. s[p.first + half] <= s[k]
            BY <2>1, <5>2, <6>1
          <6> QED BY <4>6, <6>1, <6>2
        <5>4. \A k \in 1..N : k < q.first => s[k] < r
          BY <4>2, <5>1
        <5> QED BY <5>3, <5>4 DEF q
      <4> QED BY <4>4, <4>5, <4>6
    <3>3. V \subseteq Nat
      OBVIOUS
    <3> HIDE DEF V
    <3> QED BY <3>1, <3>2, <3>3, NaturalSet
  <2>3. Splits(halve[N])
    <3>1. N \in V
      BY <1>1, <2>2
    <3> QED BY <1>1, <3>1
  <2>4. PICK j \in 1..N : s[j] = r
    BY <1>1, <1>7 DEF Elements
  <2>5. j >= at
    BY <1>5, <2>3, <2>4
  <2>6. at \in 1..N
    BY <1>1, <1>5, <2>5
  <2>7. r <= s[at] /\ s[at] <= s[j] /\ s[at] \in Nat
    BY <1>1, <1>5, <2>1, <2>3, <2>5, <2>6
  <2> QED BY <1>2, <2>4, <2>6, <2>7
<1> QED BY <1>6, <1>7 DEF N

-----------------------------------------------------------------------------
(* The objective                                                           *)

\* A proper part of a set of resources that may be contained costs less.
LEMMA CheaperSubset ==
    ASSUME NEW S, NEW W, S \subseteq W, W \subseteq Containable, S # W
    PROVE  CostOf(S) < CostOf(W)
<1>1. PICK r \in W \ S : TRUE
  OBVIOUS
<1>2. r \in Resource /\ Cost[r] \in Nat /\ Cost[r] >= 1
  BY <1>1, TopologyAssumption DEF Canonical
<1>3. CostOf(S \cup {r}) = CostOf(S) + Cost[r]
  BY <1>1, <1>2, CostAdds
<1>4. CostOf(S \cup {r}) <= CostOf(W) /\ CostOf(W) \in Nat /\ CostOf(S) \in Nat
  BY <1>1, CostGrows
<1> QED BY <1>2, <1>3, <1>4

\* The order of two sets of one cost and size: the least resource of only one.
Before(S, T) == \E a \in S \ T : \A x \in Nat : x < a => (x \in S <=> x \in T)

\* The least resource of only one of two sets tells which comes before.
LEMMA LeastDifference ==
    ASSUME NEW S, NEW T, S \subseteq Nat, T \subseteq Nat, S # T
    PROVE  Least((S \ T) \cup (T \ S)) \in S <=> Before(S, T)
<1> DEFINE D == (S \ T) \cup (T \ S)
           l == Least(D)
<1>1. D # {} /\ D \subseteq Nat
  OBVIOUS
<1>2. l \in D /\ \A y \in D : l <= y
  <2> HIDE DEF D
  <2> QED BY <1>1, LeastOf
<1> HIDE DEF l
<1>3. ASSUME l \in S PROVE Before(S, T)
  <2>1. l \in S \ T
    BY <1>2, <1>3
  <2>2. \A x \in Nat : x < l => x \notin D
    BY <1>1, <1>2
  <2> QED BY <2>1, <2>2 DEF Before
<1>4. ASSUME Before(S, T) PROVE l \in S
  <2>1. PICK a \in S \ T : \A x \in Nat : x < a => (x \in S <=> x \in T)
    BY <1>4 DEF Before
  <2>2. l <= a /\ l \in Nat /\ a \in Nat
    BY <1>1, <1>2, <2>1
  <2>3. ~ (l < a)
    BY <1>2, <2>1, <2>2
  <2> QED BY <2>1, <2>2, <2>3
<1> QED BY <1>3, <1>4 DEF l

\* Of two different sets, one has the least resource of only one of them.
LEMMA BeforeTotal ==
    ASSUME NEW S, NEW T, S \subseteq Nat, T \subseteq Nat, S # T
    PROVE  Before(S, T) \/ Before(T, S)
<1> DEFINE D == (S \ T) \cup (T \ S)
<1>1. D # {} /\ D \subseteq Nat
  OBVIOUS
<1>2. PICK l \in D : \A y \in D : l <= y
  <2> HIDE DEF D
  <2> QED BY <1>1, LeastNatural
<1>3. \A x \in Nat : x < l => x \notin D
  BY <1>1, <1>2
<1> QED BY <1>2, <1>3 DEF Before

\* The order by that resource is transitive.
LEMMA BeforeTransitive ==
    ASSUME NEW S, NEW T, NEW U, S \subseteq Nat, T \subseteq Nat, U \subseteq Nat,
           Before(S, T), Before(T, U)
    PROVE  Before(S, U)
<1>1. PICK a \in S \ T : \A x \in Nat : x < a => (x \in S <=> x \in T)
  BY DEF Before
<1>2. PICK b \in T \ U : \A x \in Nat : x < b => (x \in T <=> x \in U)
  BY DEF Before
<1>3. a \in Nat /\ b \in Nat /\ a # b
  BY <1>1, <1>2
<1>4. CASE a < b
  BY <1>1, <1>2, <1>3, <1>4 DEF Before
<1>5. CASE b < a
  BY <1>1, <1>2, <1>3, <1>5 DEF Before
<1> QED BY <1>3, <1>4, <1>5

\* The objective compares costs, numbers and then that order of the sets; it is
\* a strict total order of the sets of resources.
LEMMA BetterIs ==
    ASSUME NEW S, NEW T, S \subseteq Resource, T \subseteq Resource
    PROVE  /\ Better(S, T) <=> \/ CostOf(S) < CostOf(T)
                               \/ /\ CostOf(S) = CostOf(T)
                                  /\ \/ Cardinality(S) < Cardinality(T)
                                     \/ /\ Cardinality(S) = Cardinality(T) /\ S # T
                                        /\ Before(S, T)
           /\ CostOf(S) \in Nat /\ CostOf(T) \in Nat
           /\ Cardinality(S) \in Nat /\ Cardinality(T) \in Nat
           /\ S \subseteq Nat /\ T \subseteq Nat
<1>1. Resource \subseteq Nat /\ IsFiniteSet(Resource)
  BY RoundsNatural
<1>2. S \subseteq Nat /\ T \subseteq Nat
  BY <1>1
<1>3. S # T => (Least((S \ T) \cup (T \ S)) \in S <=> Before(S, T))
  BY <1>2, LeastDifference
<1>4. CostOf(S) \in Nat /\ CostOf(T) \in Nat
  BY CostGrows
<1>5. Cardinality(S) \in Nat /\ Cardinality(T) \in Nat
  BY <1>1, FS_Subset, FS_CardinalityType
<1> QED BY <1>2, <1>3, <1>4, <1>5 DEF Better

\* Of two sets of resources, one is better.
LEMMA BetterTotal ==
    ASSUME NEW S, NEW T, S \subseteq Resource, T \subseteq Resource, S # T
    PROVE  Better(S, T) \/ Better(T, S)
<1> DEFINE s1 == CostOf(S)
           t1 == CostOf(T)
           s2 == Cardinality(S)
           t2 == Cardinality(T)
<1>1. /\ Better(S, T) <=> s1 < t1 \/ (s1 = t1 /\ (s2 < t2 \/ (s2 = t2 /\ S # T /\ Before(S, T))))
      /\ Better(T, S) <=> t1 < s1 \/ (t1 = s1 /\ (t2 < s2 \/ (t2 = s2 /\ T # S /\ Before(T, S))))
      /\ s1 \in Nat /\ t1 \in Nat /\ s2 \in Nat /\ t2 \in Nat
      /\ S \subseteq Nat /\ T \subseteq Nat
  BY BetterIs
<1>2. Before(S, T) \/ Before(T, S)
  BY <1>1, BeforeTotal
<1> HIDE DEF s1, t1, s2, t2
<1> QED BY <1>1, <1>2

\* Better is transitive.
LEMMA BetterTransitive ==
    ASSUME NEW S, NEW T, NEW U,
           S \subseteq Resource, T \subseteq Resource, U \subseteq Resource,
           Better(S, T), Better(T, U)
    PROVE  Better(S, U)
<1> DEFINE s1 == CostOf(S)
           t1 == CostOf(T)
           u1 == CostOf(U)
           s2 == Cardinality(S)
           t2 == Cardinality(T)
           u2 == Cardinality(U)
<1>1. /\ s1 < t1 \/ (s1 = t1 /\ (s2 < t2 \/ (s2 = t2 /\ S # T /\ Before(S, T))))
      /\ t1 < u1 \/ (t1 = u1 /\ (t2 < u2 \/ (t2 = u2 /\ T # U /\ Before(T, U))))
      /\ s1 \in Nat /\ t1 \in Nat /\ s2 \in Nat /\ t2 \in Nat /\ u1 \in Nat /\ u2 \in Nat
      /\ S \subseteq Nat /\ T \subseteq Nat /\ U \subseteq Nat
  BY BetterIs
<1>2. Better(S, U) <=> s1 < u1 \/ (s1 = u1 /\ (s2 < u2 \/ (s2 = u2 /\ S # U /\ Before(S, U))))
  BY BetterIs
<1>3. Before(S, T) /\ Before(T, U) => Before(S, U)
  BY <1>1, BeforeTransitive
<1>4. Before(S, U) => S # U
  BY DEF Before
<1> HIDE DEF s1, t1, s2, t2, u1, u2
<1> QED BY <1>1, <1>2, <1>3, <1>4

\* No set is better than itself.
LEMMA BetterIrreflexive ==
    ASSUME NEW S, S \subseteq Resource
    PROVE  ~ Better(S, S)
BY BetterIs

-----------------------------------------------------------------------------
(* The hitting set instance                                                *)

\* The witnesses a plan can be made for, whatever the evidence they rest on.
Witnessed ==
    {[cycle |-> [i \in DOMAIN h |-> From[h[i]]], hops |-> h, selectors |-> S] :
        h \in Loops, S \in SUBSET Selector}

LoopsInv ==
    /\ loops \in Seq(Witnessed)
    /\ policy.eligible \subseteq Containable /\ policy.nodes \in Nat

\* The cycle of a witness is that of the sources of its hops.
LEMMA WitnessedForm ==
    ASSUME NEW w \in Witnessed
    PROVE  /\ w.hops \in Loops /\ DOMAIN w.cycle = DOMAIN w.hops
           /\ Len(w.cycle) = Len(w.hops) /\ DOMAIN w.hops = 1..Len(w.hops)
           /\ Len(w.hops) \in Nat \ {0}
           /\ \A i \in DOMAIN w.hops : w.cycle[i] = From[w.hops[i]] /\ w.hops[i] \in Edge
           /\ w.cycle \in Seq(Nat) /\ w.cycle \in Seq(Resource)
<1>1. PICK h \in Loops, S \in SUBSET Selector :
         w = [cycle |-> [i \in DOMAIN h |-> From[h[i]]], hops |-> h, selectors |-> S]
  BY DEF Witnessed
<1>2. w.hops = h /\ w.cycle = [i \in DOMAIN h |-> From[h[i]]]
  BY <1>1
<1>3. /\ Len(h) \in Nat \ {0} /\ DOMAIN h = 1..Len(h)
      /\ \A i \in 1..Len(h) : h[i] \in Edge
  BY LoopForm, RoundsNatural
<1>4. \A e \in Edge : From[e] \in Nat /\ From[e] \in Resource
  BY TopologyAssumption, RoundsNatural DEF Canonical
<1>5. w.cycle \in [1..Len(h) -> Nat] /\ w.cycle \in [1..Len(h) -> Resource]
  BY <1>2, <1>3, <1>4
<1>6. w.cycle \in Seq(Nat) /\ w.cycle \in Seq(Resource) /\ Len(w.cycle) = Len(h)
  BY <1>3, <1>5
<1> QED BY <1>2, <1>3, <1>6

\* A hitting set instance is finite, and its options are eligible.
LEMMA InstanceFacts ==
    ASSUME LoopsInv
    PROVE  /\ DOMAIN loops = 1..Len(loops) /\ Len(loops) \in Nat
           /\ IsFiniteSet(DOMAIN loops)
           /\ \A i \in DOMAIN loops : /\ loops[i] \in Witnessed
                                      /\ Options(i) \subseteq policy.eligible
                                      /\ Cardinality(Options(i)) \in Nat
           /\ policy.eligible \subseteq Resource /\ Resource \subseteq Nat
           /\ IsFiniteSet(policy.eligible)
<1>1. /\ DOMAIN loops = 1..Len(loops) /\ Len(loops) \in Nat
      /\ \A i \in DOMAIN loops : loops[i] \in Witnessed
  BY DEF LoopsInv
<1>2. IsFiniteSet(DOMAIN loops)
  BY <1>1, FS_Interval
<1>3. policy.eligible \subseteq Resource /\ Resource \subseteq Nat /\ IsFiniteSet(Resource)
  <2>1. Resource \subseteq Nat /\ IsFiniteSet(Resource)
    BY RoundsNatural
  <2>2. Containable \subseteq Resource
    BY TopologyAssumption DEF Canonical
  <2> QED BY <2>1, <2>2 DEF LoopsInv
<1>4. IsFiniteSet(policy.eligible)
  BY <1>3, FS_Subset
<1>5. \A i : Options(i) \subseteq policy.eligible
  BY DEF Options
<1>6. \A i : Cardinality(Options(i)) \in Nat
  BY <1>4, <1>5, FS_Subset, FS_CardinalityType
<1> QED BY <1>1, <1>2, <1>3, <1>4, <1>5, <1>6

\* There is a set to branch on.
LEMMA BranchExists ==
    ASSUME LoopsInv, NEW S, Uncovered(S) # {}
    PROVE  BranchSet(S) \in Uncovered(S)
<1> DEFINE First(i, j) == \/ Cardinality(Options(i)) < Cardinality(Options(j))
                          \/ Cardinality(Options(i)) = Cardinality(Options(j)) /\ i <= j
           R == {p \in Uncovered(S) \X Uncovered(S) : First(p[1], p[2])}
<1>1. /\ Uncovered(S) \subseteq Nat /\ IsFiniteSet(Uncovered(S))
      /\ \A i \in Uncovered(S) : Cardinality(Options(i)) \in Nat
  <2>1. Uncovered(S) \subseteq DOMAIN loops
    BY DEF Uncovered
  <2> QED BY <2>1, InstanceFacts, FS_Subset
<1>2. \A x, y \in Uncovered(S) : <<x, y>> \in R <=> First(x, y)
  OBVIOUS
<1> HIDE DEF R
<1>3. \A x, y \in Uncovered(S) : x # y => <<x, y>> \in R \/ <<y, x>> \in R
  <2> TAKE x, y \in Uncovered(S)
  <2>1. First(x, y) \/ First(y, x)
    BY <1>1
  <2> QED BY <1>2, <2>1
<1>4. \A x, y, z \in Uncovered(S) : <<x, y>> \in R /\ <<y, z>> \in R => <<x, z>> \in R
  <2> TAKE x, y, z \in Uncovered(S)
  <2>1. First(x, y) /\ First(y, z) => First(x, z)
    BY <1>1
  <2> HIDE DEF First
  <2> QED BY <1>2, <2>1
<1>5. PICK x \in Uncovered(S) : \A y \in Uncovered(S) \ {x} : <<x, y>> \in R
  <2> DEFINE Us == Uncovered(S)
  <2>1. /\ IsFiniteSet(Us) /\ Us # {}
        /\ \A x, y \in Us : x # y => <<x, y>> \in R \/ <<y, x>> \in R
        /\ \A x, y, z \in Us : <<x, y>> \in R /\ <<y, z>> \in R => <<x, z>> \in R
    BY <1>1, <1>3, <1>4
  <2> HIDE DEF Us
  <2>2. \E x \in Us : \A y \in Us \ {x} : <<x, y>> \in R
    BY <2>1, FiniteMinimum
  <2> QED BY <2>2 DEF Us
<1>6. First(x, x)
  BY <1>1
<1>7. \A y \in Uncovered(S) : First(x, y)
  <2> HIDE DEF First
  <2> QED BY <1>2, <1>5, <1>6
<1> QED BY <1>7 DEF BranchSet

\* To hit every loop with eligible resources is to leave nothing uncovered.
LEMMA CoveredHits ==
    ASSUME NEW S, S \subseteq policy.eligible
    PROVE  Hits(S) <=> Uncovered(S) = {}
BY DEF Hits, Uncovered, Options

-----------------------------------------------------------------------------
(* The greedy recommendation                                               *)

OpenOf(S) == UNION {Options(i) : i \in Uncovered(S)}

GreedyStep(S) ==
    IF OpenOf(S) = {} THEN S
    ELSE S \cup {CHOOSE r \in OpenOf(S) : \A q \in OpenOf(S) : Greedier(r, q, S)}

\* A greedy step adds an eligible resource that was not chosen.
LEMMA GreedyStepAdds ==
    ASSUME LoopsInv, NEW S, S \subseteq policy.eligible
    PROVE  /\ GreedyStep(S) \subseteq policy.eligible
           /\ \/ OpenOf(S) = {} /\ GreedyStep(S) = S
              \/ \E r \in policy.eligible \ S : GreedyStep(S) = S \cup {r}
<1> DEFINE Os == OpenOf(S)
           R == {p \in Os \X Os : Greedier(p[1], p[2], S)}
<1>1. /\ Os \subseteq policy.eligible /\ Os \cap S = {} /\ IsFiniteSet(Os)
      /\ \A r \in Os : r \in Nat /\ Cost[r] \in Nat
  <2>1. Os \subseteq policy.eligible /\ Os \cap S = {}
    BY DEF OpenOf, Options, Uncovered
  <2>2. IsFiniteSet(Os) /\ \A r \in Os : r \in Nat /\ r \in Resource
    BY <2>1, InstanceFacts, FS_Subset
  <2>3. \A r \in Resource : Cost[r] \in Nat
    BY TopologyAssumption DEF Canonical
  <2> QED BY <2>1, <2>2, <2>3
<1>2. \A r : Gain(r, S) \in Nat
  <2> TAKE r
  <2>1. {i \in Uncovered(S) : r \in Options(i)} \subseteq DOMAIN loops
    BY DEF Uncovered
  <2>2. IsFiniteSet({i \in Uncovered(S) : r \in Options(i)})
    BY <2>1, InstanceFacts, FS_Subset
  <2> QED BY <2>2, FS_CardinalityType DEF Gain
<1>3. CASE Os = {}
  BY <1>3 DEF GreedyStep
<1>4. CASE Os # {}
  <2>1. \A x, y \in Os : <<x, y>> \in R <=> Greedier(x, y, S)
    OBVIOUS
  <2> HIDE DEF R
  <2>2. \A x, y \in Os : x # y => <<x, y>> \in R \/ <<y, x>> \in R
    <3> TAKE x, y \in Os
    <3>1. Greedier(x, y, S) \/ Greedier(y, x, S)
      BY <1>1, <1>2 DEF Greedier
    <3> QED BY <2>1, <3>1
  <2>3. \A x, y, z \in Os : <<x, y>> \in R /\ <<y, z>> \in R => <<x, z>> \in R
    <3> TAKE x, y, z \in Os
    <3>1. /\ Gain(x, S) \in Nat /\ Gain(y, S) \in Nat /\ Gain(z, S) \in Nat
          /\ Cost[x] \in Nat /\ Cost[y] \in Nat /\ Cost[z] \in Nat
          /\ x \in Nat /\ y \in Nat /\ z \in Nat
      BY <1>1, <1>2
    <3>2. Greedier(x, y, S) /\ Greedier(y, z, S) => Greedier(x, z, S)
      <4> HIDE DEF Os
      <4> QED BY <3>1 DEF Greedier
    <3> HIDE DEF Os
    <3> QED BY <2>1, <3>2
  <2>4. PICK x \in Os : \A y \in Os \ {x} : <<x, y>> \in R
    <3> HIDE DEF Os
    <3> QED BY <1>1, <1>4, <2>2, <2>3, FiniteMinimum
  <2>5. Greedier(x, x, S)
    BY <1>1, <1>2 DEF Greedier
  <2>6. \A y \in Os : Greedier(x, y, S)
    <3> HIDE DEF Os
    <3> QED BY <2>1, <2>4, <2>5
  <2> DEFINE g == CHOOSE r \in Os : \A q \in Os : Greedier(r, q, S)
  <2>7. g \in Os
    <3> HIDE DEF Os
    <3> QED BY <2>6
  <2>8. GreedyStep(S) = S \cup {g}
    BY <1>4 DEF GreedyStep
  <2> HIDE DEF g
  <2> QED BY <1>1, <2>7, <2>8
<1> QED BY <1>3, <1>4

\* The recommendation is the end of its steps.
LEMMA GreedyDefined ==
    ASSUME LoopsInv
    PROVE  \E step \in [0..Rounds -> SUBSET policy.eligible] :
              /\ step[0] = {}
              /\ \A n \in 1..Rounds : step[n] = GreedyStep(step[n - 1])
              /\ Greedy = step[Rounds]
<1> DEFINE Set == SUBSET policy.eligible
           c == {}
           IsStep(g) ==
             g = [n \in 0..Rounds |-> IF n = 0 THEN {} ELSE GreedyStep(g[n - 1])]
           F == [n \in Nat |-> [S \in Set |-> GreedyStep(S)]]
           step == CHOOSE g : IsStep(g)
<1>1. Rounds \in Nat
  BY RoundsNatural
<1>2. Maps(F, Set) /\ c \in Set
  BY GreedyStepAdds DEF Maps
<1>3. PICK g : Iterates(g, Set, c, F, Rounds)
  <2> HIDE DEF F, Set, c
  <2> QED BY <1>1, <1>2, Recursion
<1>4. IsStep(g)
  <2>1. \A n \in 0..Rounds : g[n] = IF n = 0 THEN {} ELSE GreedyStep(g[n - 1])
    <3> TAKE n \in 0..Rounds
    <3>1. CASE n = 0
      BY <1>3, <3>1 DEF Iterates
    <3>2. CASE n # 0
      <4>1. n \in 1..Rounds /\ n - 1 \in 0..Rounds /\ n \in Nat
        BY <1>1, <3>2
      <4>2. g[n - 1] \in Set /\ g[n] = F[n][g[n - 1]]
        BY <1>3, <4>1 DEF Iterates
      <4> QED BY <3>2, <4>1, <4>2
    <3> QED BY <3>1, <3>2
  <2>2. g = [n \in 0..Rounds |-> g[n]]
    BY <1>3 DEF Iterates
  <2> QED BY <2>1, <2>2
<1>5. IsStep(step)
  <2> HIDE DEF IsStep
  <2> QED BY <1>4
<1>6. Greedy = step[Rounds]
  BY DEF Greedy, GreedyStep, OpenOf, Rounds
<1> HIDE DEF step
<1>7. /\ step[0] = {} /\ step = [n \in 0..Rounds |-> step[n]]
      /\ \A n \in 1..Rounds : step[n] = GreedyStep(step[n - 1])
  <2>1. \A n \in 0..Rounds : step[n] = IF n = 0 THEN {} ELSE GreedyStep(step[n - 1])
    BY <1>5
  <2>2. step = [n \in 0..Rounds |-> step[n]]
    BY <1>5
  <2>3. 0 \in 0..Rounds /\ \A n \in 1..Rounds : n \in 0..Rounds /\ n # 0
    BY <1>1
  <2> QED BY <2>1, <2>2, <2>3
<1>8. \A n \in 0..Rounds : step[n] \in Set
  <2> DEFINE T == {n \in Nat : n <= Rounds => step[n] \in Set}
  <2>1. 0 \in T
    BY <1>2, <1>7
  <2>2. \A n \in T : n + 1 \in T
    <3> TAKE n \in T
    <3> SUFFICES ASSUME n + 1 <= Rounds PROVE step[n + 1] \in Set
      OBVIOUS
    <3>1. n + 1 \in 1..Rounds /\ (n + 1) - 1 = n /\ n <= Rounds
      BY <1>1
    <3>2. step[n + 1] = GreedyStep(step[n]) /\ step[n] \in Set
      BY <1>7, <3>1
    <3> QED BY <3>2, GreedyStepAdds
  <2>3. T \subseteq Nat
    OBVIOUS
  <2>4. T = Nat
    <3> HIDE DEF T
    <3> QED BY <2>1, <2>2, <2>3, NaturalSet
  <2> QED BY <1>1, <2>4
<1>9. step \in [0..Rounds -> Set]
  BY <1>7, <1>8
<1> QED BY <1>6, <1>7, <1>9

\* The recommendation breaks every loop there is an eligible resource for.
LEMMA GreedyHits ==
    ASSUME LoopsInv, Unhittable = {}
    PROVE  Greedy \subseteq policy.eligible /\ Hits(Greedy)
<1>1. PICK step \in [0..Rounds -> SUBSET policy.eligible] :
              /\ step[0] = {}
              /\ \A n \in 1..Rounds : step[n] = GreedyStep(step[n - 1])
              /\ Greedy = step[Rounds]
  BY GreedyDefined
<1>2. Rounds \in Nat /\ IsFiniteSet(Resource) /\ Rounds = Cardinality(Resource)
  BY RoundsNatural DEF Rounds
<1>3. policy.eligible \subseteq Resource /\ IsFiniteSet(policy.eligible)
  BY InstanceFacts
<1>4. \A S : OpenOf(S) = {} <=> Uncovered(S) = {}
  BY DEF OpenOf, Unhittable, Uncovered
<1> DEFINE T == {n \in Nat : n <= Rounds =>
                   Uncovered(step[n]) = {} \/ Cardinality(step[n]) = n}
<1>5. T = Nat
  <2>1. 0 \in T
    BY <1>1, FS_EmptySet
  <2>2. \A n \in T : n + 1 \in T
    <3> TAKE n \in T
    <3> SUFFICES ASSUME n + 1 <= Rounds
                 PROVE  Uncovered(step[n + 1]) = {} \/ Cardinality(step[n + 1]) = n + 1
      OBVIOUS
    <3>1. n + 1 \in 1..Rounds /\ (n + 1) - 1 = n /\ n <= Rounds /\ n \in 0..Rounds
      BY <1>2
    <3>2. /\ step[n] \subseteq policy.eligible /\ step[n + 1] = GreedyStep(step[n])
          /\ Uncovered(step[n]) = {} \/ Cardinality(step[n]) = n
      BY <1>1, <3>1
    <3>3. CASE OpenOf(step[n]) = {} /\ GreedyStep(step[n]) = step[n]
      BY <1>4, <3>2, <3>3
    <3>4. CASE \E r \in policy.eligible \ step[n] : GreedyStep(step[n]) = step[n] \cup {r}
      <4>1. PICK r \in policy.eligible \ step[n] : step[n + 1] = step[n] \cup {r}
        BY <3>2, <3>4
      <4>2. IsFiniteSet(step[n])
        BY <1>3, <3>2, FS_Subset
      <4>3. Cardinality(step[n + 1]) = Cardinality(step[n]) + 1
        BY <4>1, <4>2, FS_AddElement
      <4>4. Uncovered(step[n]) = {} => Uncovered(step[n + 1]) = {}
        BY <4>1 DEF Uncovered
      <4> QED BY <3>2, <4>3, <4>4
    <3> QED BY <3>2, <3>3, <3>4, GreedyStepAdds
  <2>3. T \subseteq Nat
    OBVIOUS
  <2> HIDE DEF T
  <2> QED BY <2>1, <2>2, <2>3, NaturalSet
<1>6. Greedy \subseteq policy.eligible
  BY <1>1, <1>2
<1>7. Uncovered(Greedy) = {} \/ Cardinality(Greedy) = Rounds
  <2>1. Rounds \in T /\ Rounds <= Rounds
    <3> HIDE DEF T
    <3> QED BY <1>2, <1>5
  <2> QED BY <1>1, <2>1
<1>8. Cardinality(Greedy) = Rounds => Greedy = Resource
  BY <1>2, <1>3, <1>6, FS_Subset
<1>9. Greedy = Resource => Uncovered(Greedy) = {}
  <2>1. \A i \in DOMAIN loops : Options(i) # {} /\ Options(i) \subseteq Resource
    BY <1>3, InstanceFacts DEF Unhittable
  <2> QED BY <2>1 DEF Uncovered
<1> QED BY <1>6, <1>7, <1>8, <1>9, CoveredHits

-----------------------------------------------------------------------------
(* The inductive invariant of the search                                   *)

\* The resources chosen in the branches outside the d-th frame.
Outside(d) == {chosen[i] : i \in 1..(d - 1)}

\* The search may still come to a set: it extends what is chosen at a branch
\* that has an option of the set yet to try.
Awaits(S) ==
    \/ stage = "enter" /\ Elements(chosen) \subseteq S
    \/ \E d \in 1..Len(frames) : Outside(d) \subseteq S /\ frames[d] \cap S # {}

\* The incumbent is no worse.
Settled(S) == best.have /\ ~ Better(S, best.targets)

Hitting == {S \in SUBSET policy.eligible : Uncovered(S) = {}}

FramesInv ==
    /\ frames \in Seq(SUBSET policy.eligible) /\ chosen \in Seq(policy.eligible)
    /\ stage = "enter" => Len(chosen) = Len(frames)
    /\ stage = "branch" => Len(frames) = Len(chosen) + 1
    /\ stage \in {"enter", "branch"} =>
          \A d \in 1..Len(frames) : frames[d] \cap Outside(d) = {}

IncumbentInv ==
    \/ best = None
    \/ /\ best = [have |-> TRUE, targets |-> best.targets]
       /\ best.targets \in Hitting

StageInv ==
    /\ stage \in {"idle", "enter", "branch", "solved", "planned"}
    /\ nodes \in Nat /\ nodes <= policy.nodes + 1
    /\ stage = "idle" => frames = <<>> /\ chosen = <<>> /\ nodes = 0 /\ best = None
    /\ stage \in {"enter", "branch"} => nodes <= policy.nodes
    /\ stage \in {"enter", "branch", "solved"} => loops # <<>>
    /\ nodes > 0 \/ stage = "branch" => Unhittable = {}
    /\ stage # "planned" => plan = Unplanned

\* No set that hits every loop is lost.
SearchInv ==
    /\ stage \in {"enter", "branch"} /\ Unhittable = {} =>
          \A S \in Hitting : Awaits(S) \/ Settled(S)
    /\ stage = "solved" /\ nodes <= policy.nodes /\ Unhittable = {} =>
          \A S \in Hitting : Settled(S)

PlannerInv ==
    LoopsInv /\ FramesInv /\ IncumbentInv /\ StageInv /\ SearchInv /\ PlanIsHonest

\* All but the last element of a sequence.
LEMMA FrontOf ==
    ASSUME NEW S, NEW s \in Seq(S), s # <<>>
    PROVE  /\ Len(s) \in Nat \ {0} /\ SubSeq(s, 1, Len(s) - 1) \in Seq(S)
           /\ Len(SubSeq(s, 1, Len(s) - 1)) = Len(s) - 1
           /\ \A i \in 1..(Len(s) - 1) : SubSeq(s, 1, Len(s) - 1)[i] = s[i]
<1> DEFINE n == Len(s)
           t == SubSeq(s, 1, n - 1)
<1>1. n \in Nat \ {0} /\ \A i \in 1..(n - 1) : s[i] \in S
  OBVIOUS
<1> HIDE DEF n
<1>2. /\ t \in Seq(S) /\ Len(t) = IF 1 <= n - 1 THEN (n - 1) - 1 + 1 ELSE 0
      /\ \A i \in 1..((n - 1) - 1 + 1) : t[i] = s[1 + i - 1]
  BY <1>1, SubSeqProperties
<1>3. ((n - 1) - 1 + 1 = n - 1) /\ \A i \in 1..(n - 1) : 1 + i - 1 = i
  BY <1>1
<1>4. (1 <= n - 1) \/ (~ (1 <= n - 1) /\ n - 1 = 0)
  BY <1>1
<1> HIDE DEF t
<1>5. Len(t) = n - 1 /\ \A i \in 1..(n - 1) : t[i] = s[i]
  BY <1>2, <1>3, <1>4
<1> QED BY <1>1, <1>2, <1>5 DEF n, t

\* What is computed from the instance stays with it.
LEMMA SameInstance ==
    ASSUME UNCHANGED <<loops, policy>>
    PROVE  /\ \A i : Options(i)' = Options(i)
           /\ \A S : Uncovered(S)' = Uncovered(S)
           /\ Unhittable' = Unhittable /\ Hitting' = Hitting
           /\ LoopsInv => LoopsInv'
<1>1. loops' = loops /\ policy' = policy
  OBVIOUS
<1>2. \A i : Options(i)' = Options(i)
  BY <1>1 DEF Options
<1>3. /\ \A S : Uncovered(S)' = Uncovered(S)
      /\ Unhittable' = Unhittable
  BY <1>1, <1>2 DEF Uncovered, Unhittable
<1>4. Hitting' = Hitting
  BY <1>1, <1>3 DEF Hitting
<1>5. LoopsInv => LoopsInv'
  BY <1>1 DEF LoopsInv, Witnessed
<1> QED BY <1>2, <1>3, <1>4, <1>5

\* Where there is no plan, or one that is not required, there is nothing to be
\* dishonest about.
LEMMA NoPlanIsHonest ==
    /\ plan = Unplanned /\ stage # "planned" => PlanIsHonest
    /\ plan = [Unplanned EXCEPT !.outcome = "NotRequired"] /\ nodes = 0 /\ policy.nodes \in Nat
          => PlanIsHonest
<1> SUFFICES ASSUME \/ plan = Unplanned /\ stage # "planned"
                    \/ /\ plan = [Unplanned EXCEPT !.outcome = "NotRequired"]
                       /\ nodes = 0 /\ policy.nodes \in Nat
             PROVE  PlanIsHonest
  OBVIOUS
<1>1. plan.outcome \in {"None", "NotRequired"} /\ plan.targets = {}
  BY DEF Unplanned
<1>2. OptimalIsBest /\ InfeasibleIsCertain
  BY <1>1 DEF OptimalIsBest, InfeasibleIsCertain
<1>3. CutShortStillHits
  BY DEF CutShortStillHits
<1>4. \A e : Shadow(e) = Admitted[e]
  BY <1>1 DEF Shadow
<1>5. OnlyLoopsAreCut
  BY <1>4 DEF OnlyLoopsAreCut
<1>6. LoopsInOrderAreBroken
  BY <1>1 DEF LoopsInOrderAreBroken, Affirmative
<1> QED BY <1>2, <1>3, <1>5, <1>6 DEF PlanIsHonest

\* The same after a step.
LEMMA NoPlanStaysHonest ==
    ASSUME \/ plan' = Unplanned /\ stage' # "planned"
           \/ /\ plan' = [Unplanned EXCEPT !.outcome = "NotRequired"]
              /\ nodes' = 0 /\ policy'.nodes \in Nat
    PROVE  PlanIsHonest'
<1>1. (/\ plan = Unplanned /\ stage # "planned" => PlanIsHonest
       /\ plan = [Unplanned EXCEPT !.outcome = "NotRequired"] /\ nodes = 0 /\ policy.nodes \in Nat
             => PlanIsHonest)'
  BY NoPlanIsHonest, PTL
<1>2. Unplanned' = Unplanned
  BY DEF Unplanned
<1> QED BY <1>1, <1>2

\* The invariant holds before a plan is asked for.
LEMMA PlanIdleInv == PlanIdle => PlannerInv
<1> SUFFICES ASSUME PlanIdle PROVE PlannerInv
  OBVIOUS
<1>1. LoopsInv
  BY DEF PlanIdle, LoopsInv
<1>2. FramesInv /\ IncumbentInv /\ SearchInv
  BY DEF PlanIdle, FramesInv, IncumbentInv, SearchInv
<1>3. StageInv
  BY DEF PlanIdle, StageInv
<1>4. PlanIsHonest
  BY NoPlanIsHonest DEF PlanIdle
<1> QED BY <1>1, <1>2, <1>3, <1>4 DEF PlannerInv

\* A plan is asked for witnesses of the assessment only.
LEMMA BeginPlanKeeps ==
    ASSUME PlannerInv, NEW p \in Policy, NEW ws \in Seq(Witnessed), BeginPlan(ws, p)
    PROVE  PlannerInv'
<1>1. /\ stage = "idle" /\ loops' = ws /\ policy' = p
      /\ frames' = <<>> /\ chosen' = <<>> /\ nodes' = 0 /\ best' = None
      /\ plan = Unplanned
  BY DEF BeginPlan, PlannerInv, StageInv
<1>2. LoopsInv'
  BY <1>1, PolicyAssumption DEF LoopsInv, Witnessed
<1>3. CASE ws = <<>>
  <2>1. stage' = "planned" /\ plan' = [Unplanned EXCEPT !.outcome = "NotRequired"]
    BY <1>3 DEF BeginPlan
  <2>2. FramesInv' /\ IncumbentInv'
    BY <1>1, <2>1 DEF FramesInv, IncumbentInv
  <2>3. StageInv'
    BY <1>1, <1>2, <1>3, <2>1 DEF StageInv, LoopsInv
  <2>4. SearchInv'
    BY <1>1, <1>3, <2>1 DEF SearchInv
  <2>5. PlanIsHonest'
    BY <1>1, <1>2, <2>1, NoPlanStaysHonest DEF LoopsInv
  <2> QED BY <1>2, <2>2, <2>3, <2>4, <2>5 DEF PlannerInv
<1>4. CASE ws # <<>>
  <2>1. stage' = "enter" /\ plan' = plan
    BY <1>4 DEF BeginPlan
  <2>2. FramesInv' /\ IncumbentInv'
    BY <1>1, <2>1 DEF FramesInv, IncumbentInv
  <2>3. StageInv'
    BY <1>1, <1>2, <1>4, <2>1 DEF StageInv, LoopsInv
  <2>4. SearchInv'
    <3>1. Elements(chosen') = {}
      BY <1>1 DEF Elements
    <3> QED BY <1>1, <2>1, <3>1 DEF SearchInv, Awaits
  <2>5. PlanIsHonest'
    BY <1>1, <2>1, NoPlanStaysHonest
  <2> QED BY <1>2, <2>2, <2>3, <2>4, <2>5 DEF PlannerInv
<1> QED BY <1>3, <1>4

\* An infeasible instance is not searched.
LEMMA NothingHitsKeeps == PlannerInv /\ NothingHits => PlannerInv'
<1> SUFFICES ASSUME PlannerInv, NothingHits PROVE PlannerInv'
  OBVIOUS
<1>1. /\ stage = "enter" /\ Unhittable # {} /\ stage' = "solved"
      /\ UNCHANGED <<loops, policy, frames, chosen, nodes, best, plan>>
  BY DEF NothingHits
<1>2. Unhittable' = Unhittable /\ Hitting' = Hitting /\ LoopsInv'
  BY <1>1, SameInstance DEF PlannerInv
<1>3. FramesInv' /\ IncumbentInv'
  BY <1>1, <1>2 DEF PlannerInv, FramesInv, IncumbentInv
<1>4. StageInv'
  BY <1>1, <1>2 DEF PlannerInv, StageInv
<1>5. SearchInv'
  BY <1>1, <1>2 DEF SearchInv
<1>6. PlanIsHonest'
  BY <1>1, NoPlanStaysHonest DEF PlannerInv, StageInv
<1> QED BY <1>2, <1>3, <1>4, <1>5, <1>6 DEF PlannerInv

\* The node that exceeds the budget is counted and ends the search.
LEMMA ExhaustKeeps == PlannerInv /\ Exhaust => PlannerInv'
<1> SUFFICES ASSUME PlannerInv, Exhaust PROVE PlannerInv'
  OBVIOUS
<1>1. /\ stage = "enter" /\ Unhittable = {} /\ nodes' = nodes + 1 /\ nodes' > policy.nodes
      /\ stage' = "solved" /\ UNCHANGED <<loops, policy, frames, chosen, best, plan>>
  BY DEF Exhaust, Enter
<1>2. Unhittable' = Unhittable /\ Hitting' = Hitting /\ LoopsInv'
  BY <1>1, SameInstance DEF PlannerInv
<1>3. FramesInv' /\ IncumbentInv'
  BY <1>1, <1>2 DEF PlannerInv, FramesInv, IncumbentInv
<1>4. StageInv'
  BY <1>1, <1>2 DEF PlannerInv, StageInv, LoopsInv
<1>5. SearchInv'
  <2>1. nodes' \in Nat /\ policy.nodes \in Nat /\ policy' = policy
    BY <1>1 DEF PlannerInv, StageInv, LoopsInv
  <2>2. ~ (nodes' <= policy'.nodes)
    BY <1>1, <2>1
  <2> QED BY <1>1, <2>2 DEF SearchInv
<1>6. PlanIsHonest'
  BY <1>1, NoPlanStaysHonest DEF PlannerInv, StageInv
<1> QED BY <1>2, <1>3, <1>4, <1>5, <1>6 DEF PlannerInv

\* A set that has all that is chosen is no better once the choice is scored.
LEMMA LeafSettles ==
    ASSUME PlannerInv, Leaf, NEW S \in Hitting, Elements(chosen) \subseteq S \/ Settled(S)
    PROVE  Settled(S)'
<1> DEFINE C == Elements(chosen)
           B == best.targets
<1>1. C \subseteq policy.eligible
  BY DEF PlannerInv, FramesInv, Elements
<1>2. policy.eligible \subseteq Resource /\ policy.eligible \subseteq Containable
  BY InstanceFacts DEF PlannerInv, LoopsInv
<1>3. S \subseteq policy.eligible
  BY DEF Hitting
<1>4. ~ best.have \/ B \subseteq policy.eligible
  BY DEF PlannerInv, IncumbentInv, None, Hitting
<1>5. best' = IF ~ best.have \/ Better(C, B) THEN [have |-> TRUE, targets |-> C] ELSE best
  BY DEF Leaf
<1>6. ASSUME C \subseteq S PROVE ~ Better(S, C)
  <2>1. CASE S = C
    BY <1>1, <1>2, <2>1, BetterIrreflexive
  <2>2. CASE S # C
    <3>1. CostOf(C) < CostOf(S)
      BY <1>2, <1>3, <1>6, <2>2, CheaperSubset
    <3>2. /\ CostOf(C) \in Nat /\ CostOf(S) \in Nat
          /\ Better(S, C) => CostOf(S) <= CostOf(C)
      BY <1>1, <1>2, <1>3, BetterIs
    <3> HIDE DEF C
    <3> QED BY <3>1, <3>2
  <2> QED BY <2>1, <2>2
<1> HIDE DEF C
<1>7. CASE ~ best.have
  <2>1. best'.have /\ best'.targets = C
    BY <1>5, <1>7
  <2>2. C \subseteq S
    BY <1>7 DEF Settled, C
  <2> QED BY <1>6, <2>1, <2>2 DEF Settled
<1>8. CASE best.have /\ Better(C, B)
  <2>1. best'.have /\ best'.targets = C
    BY <1>5, <1>8
  <2>2. ASSUME Settled(S) PROVE ~ Better(S, C)
    <3>1. ~ Better(S, B)
      BY <2>2 DEF Settled
    <3>2. S \subseteq Resource /\ C \subseteq Resource /\ B \subseteq Resource
      BY <1>1, <1>2, <1>3, <1>4, <1>8
    <3> QED BY <1>8, <3>1, <3>2, BetterTransitive
  <2> QED BY <1>6, <2>1, <2>2 DEF Settled, C
<1>9. CASE best.have /\ ~ Better(C, B)
  <2>1. best' = best
    BY <1>5, <1>9
  <2>2. ASSUME C \subseteq S PROVE ~ Better(S, B)
    <3>1. SUFFICES ASSUME Better(S, B) PROVE FALSE
      OBVIOUS
    <3>2. S \subseteq Resource /\ C \subseteq Resource /\ B \subseteq Resource
      BY <1>1, <1>2, <1>3, <1>4, <1>9
    <3>3. C # S
      BY <1>9, <3>1
    <3>4. Better(C, S)
      BY <1>6, <2>2, <3>2, <3>3, BetterTotal
    <3> QED BY <1>9, <3>1, <3>2, <3>4, BetterTransitive
  <2> QED BY <1>9, <2>1, <2>2 DEF Settled, C
<1> QED BY <1>7, <1>8, <1>9

\* A leaf replaces the incumbent only by a better one.
LEMMA LeafKeeps == PlannerInv /\ Leaf => PlannerInv'
<1> SUFFICES ASSUME PlannerInv, Leaf PROVE PlannerInv'
  OBVIOUS
<1> DEFINE C == Elements(chosen)
           n == Len(chosen)
<1>1. /\ stage = "enter" /\ Unhittable = {} /\ nodes' = nodes + 1 /\ nodes' <= policy.nodes
      /\ Uncovered(C) = {} /\ chosen' = SubSeq(chosen, 1, n - 1)
      /\ best' = IF ~ best.have \/ Better(C, best.targets)
                 THEN [have |-> TRUE, targets |-> C] ELSE best
      /\ stage' = "branch" /\ UNCHANGED <<loops, policy, frames, plan>>
  BY DEF Leaf, Enter
<1>2. /\ Unhittable' = Unhittable /\ Hitting' = Hitting /\ LoopsInv'
      /\ \A S : Uncovered(S)' = Uncovered(S)
  BY <1>1, SameInstance DEF PlannerInv
<1>3. /\ frames \in Seq(SUBSET policy.eligible) /\ chosen \in Seq(policy.eligible)
      /\ n = Len(frames) /\ \A d \in 1..Len(frames) : frames[d] \cap Outside(d) = {}
  BY <1>1 DEF PlannerInv, FramesInv
<1>4. chosen # <<>>
  <2>1. loops # <<>> /\ Len(loops) \in Nat /\ DOMAIN loops = 1..Len(loops)
    BY <1>1, InstanceFacts DEF PlannerInv, StageInv
  <2>2. 1 \in DOMAIN loops
    <3>1. loops \in Seq(Witnessed)
      BY DEF PlannerInv, LoopsInv
    <3> QED BY <2>1, <3>1
  <2>3. C # {}
    BY <1>1, <2>2 DEF Uncovered
  <2> QED BY <2>3 DEF Elements
<1>5. /\ n \in Nat \ {0} /\ chosen' \in Seq(policy.eligible) /\ Len(chosen') = n - 1
      /\ \A i \in 1..(n - 1) : chosen'[i] = chosen[i]
  BY <1>1, <1>3, <1>4, FrontOf
<1>6. \A d \in 1..n : Outside(d)' = Outside(d)
  <2> TAKE d \in 1..n
  <2>1. \A i \in 1..(d - 1) : i \in 1..(n - 1)
    BY <1>5
  <2> QED BY <1>5, <2>1 DEF Outside
<1>7. FramesInv'
  <2>1. Len(frames) = Len(chosen') + 1
    BY <1>3, <1>5
  <2>2. \A d \in 1..Len(frames') : frames'[d] \cap Outside(d)' = {}
    BY <1>1, <1>3, <1>6
  <2> QED BY <1>1, <1>3, <1>5, <2>1, <2>2 DEF FramesInv
<1>8. IncumbentInv'
  <2>1. C \subseteq policy.eligible
    BY <1>3 DEF Elements
  <2>2. C \in Hitting
    BY <1>1, <2>1 DEF Hitting
  <2>3. IncumbentInv
    BY DEF PlannerInv
  <2>4. CASE best' = [have |-> TRUE, targets |-> C]
    <3>1. best'.targets = C
      BY <2>4
    <3> QED BY <1>2, <2>2, <2>4, <3>1 DEF IncumbentInv
  <2>5. CASE best' = best
    BY <1>2, <2>3, <2>5 DEF IncumbentInv, None
  <2> QED BY <1>1, <2>4, <2>5
<1>9. StageInv'
  <2>1. nodes' \in Nat /\ nodes' <= policy'.nodes + 1 /\ nodes' <= policy'.nodes
    BY <1>1 DEF PlannerInv, StageInv, LoopsInv
  <2> QED BY <1>1, <1>2, <2>1 DEF PlannerInv, StageInv
<1>10. SearchInv'
  <2> SUFFICES ASSUME NEW S \in Hitting PROVE Awaits(S)' \/ Settled(S)'
    BY <1>1, <1>2 DEF SearchInv
  <2>1. Awaits(S) \/ Settled(S)
    BY <1>1 DEF PlannerInv, SearchInv
  <2>2. CASE C \subseteq S \/ Settled(S)
    BY <2>2, LeafSettles
  <2>3. CASE \E d \in 1..Len(frames) : Outside(d) \subseteq S /\ frames[d] \cap S # {}
    BY <1>1, <1>3, <1>6, <2>3 DEF Awaits
  <2> QED BY <2>1, <2>2, <2>3 DEF Awaits
<1>11. PlanIsHonest'
  BY <1>1, NoPlanStaysHonest DEF PlannerInv, StageInv
<1> QED BY <1>2, <1>7, <1>8, <1>9, <1>10, <1>11 DEF PlannerInv

\* Every set that hits the loops has one of the options of the new branch.
LEMMA BranchKeeps == PlannerInv /\ Branch => PlannerInv'
<1> SUFFICES ASSUME PlannerInv, Branch PROVE PlannerInv'
  OBVIOUS
<1> DEFINE C == Elements(chosen)
           n == Len(chosen)
           options == Options(BranchSet(C))
<1>1. /\ stage = "enter" /\ Unhittable = {} /\ nodes' = nodes + 1 /\ nodes' <= policy.nodes
      /\ Uncovered(C) # {} /\ frames' = Append(frames, options)
      /\ stage' = "branch" /\ UNCHANGED <<loops, policy, chosen, best, plan>>
  BY DEF Branch, Enter
<1>2. /\ Unhittable' = Unhittable /\ Hitting' = Hitting /\ LoopsInv'
  BY <1>1, SameInstance DEF PlannerInv
<1>3. /\ frames \in Seq(SUBSET policy.eligible) /\ chosen \in Seq(policy.eligible)
      /\ n = Len(frames) /\ n \in Nat /\ DOMAIN chosen = 1..n
      /\ \A d \in 1..Len(frames) : frames[d] \cap Outside(d) = {}
  BY <1>1 DEF PlannerInv, FramesInv
<1>4. BranchSet(C) \in Uncovered(C)
  BY <1>1, BranchExists DEF PlannerInv
<1>5. options \subseteq policy.eligible /\ options \cap C = {}
  BY <1>4 DEF Options, Uncovered
<1>6. \A S \in Hitting : options \cap S # {}
  BY <1>4 DEF Hitting, Uncovered
<1> HIDE DEF options
<1>7. /\ frames' \in Seq(SUBSET policy.eligible) /\ Len(frames') = n + 1
      /\ frames'[n + 1] = options /\ \A d \in 1..n : frames'[d] = frames[d]
  BY <1>1, <1>3, <1>5, AppendProperties
<1>8. /\ \A d : Outside(d)' = Outside(d)
      /\ Outside(n + 1) = C
  <2>1. \A d : Outside(d)' = Outside(d)
    BY <1>1 DEF Outside
  <2>2. (n + 1) - 1 = n
    BY <1>3
  <2> QED BY <1>3, <2>1, <2>2 DEF Outside, Elements
<1>9. FramesInv'
  <2>1. \A d \in 1..Len(frames') : frames'[d] \cap Outside(d)' = {}
    <3> TAKE d \in 1..Len(frames')
    <3>1. d \in 1..n \/ d = n + 1
      BY <1>3, <1>7
    <3> QED BY <1>3, <1>5, <1>7, <1>8, <3>1
  <2> QED BY <1>1, <1>3, <1>7, <2>1 DEF FramesInv
<1>10. IncumbentInv'
  BY <1>1, <1>2 DEF PlannerInv, IncumbentInv, None
<1>11. StageInv'
  <2>1. nodes' \in Nat /\ nodes' <= policy'.nodes + 1 /\ nodes' <= policy'.nodes
    BY <1>1 DEF PlannerInv, StageInv, LoopsInv
  <2> QED BY <1>1, <1>2, <2>1 DEF PlannerInv, StageInv
<1>12. SearchInv'
  <2> SUFFICES ASSUME NEW S \in Hitting PROVE Awaits(S)' \/ Settled(S)'
    BY <1>1, <1>2 DEF SearchInv
  <2>1. Awaits(S) \/ Settled(S)
    BY <1>1 DEF PlannerInv, SearchInv
  <2>2. CASE C \subseteq S
    <3>1. n + 1 \in 1..Len(frames')
      BY <1>3, <1>7
    <3>2. Outside(n + 1) \subseteq S /\ frames'[n + 1] \cap S # {}
      BY <1>6, <1>7, <1>8, <2>2
    <3> HIDE DEF n
    <3>3. \E d \in 1..Len(frames') : Outside(d) \subseteq S /\ frames'[d] \cap S # {}
      BY <3>1, <3>2
    <3> QED BY <1>8, <3>3 DEF Awaits
  <2>3. CASE \E d \in 1..Len(frames) : Outside(d) \subseteq S /\ frames[d] \cap S # {}
    <3>1. PICK d \in 1..n : Outside(d) \subseteq S /\ frames[d] \cap S # {}
      BY <1>3, <2>3
    <3>2. d \in 1..Len(frames')
      BY <1>3, <1>7
    <3> QED BY <1>7, <1>8, <3>1, <3>2 DEF Awaits
  <2>4. CASE Settled(S)
    BY <1>1, <2>4 DEF Settled
  <2> QED BY <2>1, <2>2, <2>3, <2>4 DEF Awaits
<1>13. PlanIsHonest'
  BY <1>1, NoPlanStaysHonest DEF PlannerInv, StageInv
<1> QED BY <1>2, <1>9, <1>10, <1>11, <1>12, <1>13 DEF PlannerInv

\* An option that is tried is chosen, or pruned by its cost.
LEMMA TryKeeps == PlannerInv /\ Try => PlannerInv'
<1> SUFFICES ASSUME PlannerInv, Try PROVE PlannerInv'
  OBVIOUS
<1> DEFINE C == Elements(chosen)
           n == Len(frames)
           r == Least(frames[n])
           left == frames[n] \ {r}
<1>1. /\ stage = "branch" /\ frames # <<>> /\ frames[n] # {}
      /\ frames' = [frames EXCEPT ![n] = left]
      /\ IF Pruned(C, r) THEN chosen' = chosen /\ stage' = stage
         ELSE chosen' = Append(chosen, r) /\ stage' = "enter"
      /\ UNCHANGED <<loops, policy, nodes, best, plan>>
  BY DEF Try
<1>2. /\ Unhittable' = Unhittable /\ Hitting' = Hitting /\ LoopsInv'
  BY <1>1, SameInstance DEF PlannerInv
<1>3. /\ frames \in Seq(SUBSET policy.eligible) /\ chosen \in Seq(policy.eligible)
      /\ n = Len(chosen) + 1 /\ n \in Nat \ {0} /\ DOMAIN chosen = 1..Len(chosen)
      /\ Len(chosen) \in Nat
      /\ \A d \in 1..n : frames[d] \cap Outside(d) = {}
  BY <1>1 DEF PlannerInv, FramesInv
<1>4. frames[n] \subseteq policy.eligible /\ policy.eligible \subseteq Nat
      /\ policy.eligible \subseteq Resource
  BY <1>3, InstanceFacts DEF PlannerInv
<1>5. r \in frames[n] /\ r \in policy.eligible
  BY <1>1, <1>4, LeastOf
<1>6. Outside(n) = C
  BY <1>3 DEF Outside, Elements
<1>7. r \notin C
  BY <1>3, <1>5, <1>6
<1> HIDE DEF r
<1>8. /\ frames' \in Seq(SUBSET policy.eligible) /\ Len(frames') = n
      /\ \A d \in 1..n : frames'[d] = IF d = n THEN left ELSE frames[d]
  <2>1. left \in SUBSET policy.eligible
    BY <1>4
  <2> HIDE DEF left
  <2>2. n \in 1..Len(frames)
    BY <1>3
  <2>3. frames' = [frames EXCEPT ![n] = left]
    BY <1>1
  <2> DEFINE V == SUBSET policy.eligible
  <2>4. left \in V /\ frames \in Seq(V)
    BY <1>3, <2>1
  <2> HIDE DEF V, n
  <2>5. /\ [frames EXCEPT ![n] = left] \in Seq(V)
        /\ Len([frames EXCEPT ![n] = left]) = Len(frames)
        /\ \A i \in 1..Len(frames) :
              [frames EXCEPT ![n] = left][i] = IF i = n THEN left ELSE frames[i]
    BY <2>2, <2>4, ExceptSeq
  <2> QED BY <2>3, <2>5 DEF V, n
<1>9. /\ chosen' \in Seq(policy.eligible) /\ Len(chosen') \in {n - 1, n}
      /\ \A i \in 1..(n - 1) : chosen'[i] = chosen[i]
      /\ stage' = "enter" => Len(chosen') = n /\ Elements(chosen') = C \cup {r}
      /\ stage' = "branch" => Len(chosen') = n - 1
      /\ stage' \in {"enter", "branch"}
  <2>1. CASE Pruned(C, r)
    <3>1. chosen' = chosen /\ stage' = "branch"
      BY <1>1, <2>1
    <3>2. Len(chosen) = n - 1 /\ n - 1 \in {n - 1, n}
      BY <1>3
    <3> HIDE DEF n
    <3> QED BY <1>3, <3>1, <3>2
  <2>2. CASE ~ Pruned(C, r)
    <3>1. chosen' = Append(chosen, r) /\ stage' = "enter"
      BY <1>1, <2>2
    <3>2. /\ Append(chosen, r) \in Seq(policy.eligible)
          /\ Len(Append(chosen, r)) = Len(chosen) + 1
          /\ \A i \in 1..Len(chosen) : Append(chosen, r)[i] = chosen[i]
          /\ Append(chosen, r)[Len(chosen) + 1] = r
      BY <1>3, <1>5, AppendProperties
    <3>3. Len(chosen) = n - 1 /\ DOMAIN chosen' = 1..(Len(chosen) + 1)
      BY <1>3, <3>1, <3>2
    <3>4. Elements(chosen') = C \cup {r}
      <4>1. \A i \in 1..(Len(chosen) + 1) : i \in 1..Len(chosen) \/ i = Len(chosen) + 1
        BY <1>3
      <4>2. Len(chosen) + 1 \in 1..(Len(chosen) + 1)
            /\ \A i \in 1..Len(chosen) : i \in 1..(Len(chosen) + 1)
        BY <1>3
      <4> QED BY <1>3, <3>1, <3>2, <3>3, <4>1, <4>2 DEF Elements
    <3> QED BY <1>3, <3>1, <3>2, <3>3, <3>4
  <2> QED BY <2>1, <2>2
<1>10. \A d \in 1..n : Outside(d)' = Outside(d)
  <2> TAKE d \in 1..n
  <2>1. \A i \in 1..(d - 1) : i \in 1..(n - 1)
    BY <1>3
  <2> QED BY <1>9, <2>1 DEF Outside
<1>11. FramesInv'
  <2>1. \A d \in 1..n : frames'[d] \cap Outside(d)' = {}
    BY <1>3, <1>8, <1>10
  <2>2. stage' = "branch" => n = Len(chosen') + 1
    BY <1>3, <1>9
  <2> QED BY <1>1, <1>8, <1>9, <2>1, <2>2 DEF FramesInv
<1>12. IncumbentInv'
  BY <1>1, <1>2 DEF PlannerInv, IncumbentInv, None
<1>13. StageInv'
  BY <1>1, <1>2, <1>9 DEF PlannerInv, StageInv
<1>14. SearchInv'
  <2> SUFFICES ASSUME Unhittable = {}, NEW S \in Hitting PROVE Awaits(S)' \/ Settled(S)'
    BY <1>1, <1>2, <1>9 DEF SearchInv
  <2>1. Awaits(S) \/ Settled(S)
    BY <1>1 DEF PlannerInv, SearchInv
  <2>2. CASE Settled(S)
    BY <1>1, <2>2 DEF Settled
  <2>3. CASE \E d \in 1..n : Outside(d) \subseteq S /\ frames[d] \cap S # {}
    <3>1. PICK d \in 1..n : Outside(d) \subseteq S /\ frames[d] \cap S # {}
      BY <2>3
    <3>2. CASE frames'[d] \cap S # {}
      BY <1>8, <1>10, <3>1, <3>2 DEF Awaits
    <3>3. CASE frames'[d] \cap S = {}
      <4>1. d = n /\ r \in S /\ C \subseteq S
        BY <1>6, <1>8, <3>1, <3>3
      <4>2. CASE Pruned(C, r)
        <5>1. best.have /\ CostOf(C) + Cost[r] > CostOf(best.targets)
          BY <4>2 DEF Pruned
        <5>2. CostOf(C \cup {r}) = CostOf(C) + Cost[r]
          BY <1>4, <1>5, <1>7, CostAdds
        <5>3. /\ CostOf(C \cup {r}) <= CostOf(S) /\ CostOf(S) \in Nat
              /\ CostOf(C \cup {r}) \in Nat
          BY <4>1, CostGrows
        <5>4. best.targets \subseteq Resource /\ S \subseteq Resource
          BY <1>4, <5>1 DEF PlannerInv, IncumbentInv, None, Hitting
        <5>5. CostOf(best.targets) \in Nat
              /\ (Better(S, best.targets) => CostOf(S) <= CostOf(best.targets))
          BY <5>4, BetterIs
        <5>6. ~ Better(S, best.targets)
          BY <5>1, <5>2, <5>3, <5>5
        <5> QED BY <1>1, <5>1, <5>6 DEF Settled
      <4>3. CASE ~ Pruned(C, r)
        <5>1. stage' = "enter" /\ Elements(chosen') = C \cup {r}
          BY <1>1, <1>9, <4>3
        <5> QED BY <4>1, <5>1 DEF Awaits
      <4> QED BY <4>2, <4>3
    <3> QED BY <3>2, <3>3
  <2> QED BY <1>1, <2>1, <2>2, <2>3 DEF Awaits
<1>15. PlanIsHonest'
  BY <1>1, <1>9, NoPlanStaysHonest DEF PlannerInv, StageInv
<1> QED BY <1>2, <1>11, <1>12, <1>13, <1>14, <1>15 DEF PlannerInv

\* A branch without options left has no set waiting at it.
LEMMA ReturnKeeps == PlannerInv /\ Return => PlannerInv'
<1> SUFFICES ASSUME PlannerInv, Return PROVE PlannerInv'
  OBVIOUS
<1> DEFINE n == Len(frames)
<1>1. /\ stage = "branch" /\ frames # <<>> /\ frames[n] = {}
      /\ frames' = SubSeq(frames, 1, n - 1)
      /\ IF chosen = <<>> THEN stage' = "solved" /\ chosen' = chosen
         ELSE chosen' = SubSeq(chosen, 1, Len(chosen) - 1) /\ stage' = stage
      /\ UNCHANGED <<loops, policy, nodes, best, plan>>
  BY DEF Return
<1>2. /\ Unhittable' = Unhittable /\ Hitting' = Hitting /\ LoopsInv'
  BY <1>1, SameInstance DEF PlannerInv
<1>3. /\ frames \in Seq(SUBSET policy.eligible) /\ chosen \in Seq(policy.eligible)
      /\ n = Len(chosen) + 1 /\ n \in Nat \ {0} /\ Len(chosen) \in Nat
      /\ \A d \in 1..n : frames[d] \cap Outside(d) = {}
  BY <1>1 DEF PlannerInv, FramesInv
<1>4. /\ frames' \in Seq(SUBSET policy.eligible) /\ Len(frames') = n - 1
      /\ \A d \in 1..(n - 1) : frames'[d] = frames[d]
  BY <1>1, <1>3, FrontOf
<1>5. IncumbentInv' /\ PlanIsHonest'
  <2>1. IncumbentInv'
    BY <1>1, <1>2 DEF PlannerInv, IncumbentInv, None
  <2>2. stage' # "planned" /\ plan' = Unplanned
    BY <1>1 DEF PlannerInv, StageInv
  <2> QED BY <2>1, <2>2, NoPlanStaysHonest
<1>6. \A S : Settled(S)' = Settled(S)
  BY <1>1 DEF Settled
<1>7. CASE chosen = <<>>
  <2>1. stage' = "solved" /\ chosen' = chosen
    BY <1>1, <1>7
  <2>2. n = 1
    BY <1>3, <1>7
  <2>3. FramesInv'
    BY <1>1, <1>3, <1>4, <2>1 DEF FramesInv
  <2>4. StageInv'
    BY <1>1, <1>2, <2>1 DEF PlannerInv, StageInv
  <2>5. SearchInv'
    <3> SUFFICES ASSUME Unhittable = {}, NEW S \in Hitting PROVE Settled(S)
      BY <1>2, <1>6, <2>1 DEF SearchInv
    <3>1. ~ Awaits(S)
      BY <1>1, <2>2 DEF Awaits
    <3> QED BY <1>1, <3>1 DEF PlannerInv, SearchInv
  <2> QED BY <1>2, <1>5, <2>3, <2>4, <2>5 DEF PlannerInv
<1>8. CASE chosen # <<>>
  <2>1. stage' = "branch" /\ chosen' = SubSeq(chosen, 1, Len(chosen) - 1)
    BY <1>1, <1>8
  <2>2. /\ chosen' \in Seq(policy.eligible) /\ Len(chosen') = n - 2 /\ n - 2 \in Nat
        /\ \A i \in 1..(n - 2) : chosen'[i] = chosen[i]
    <3>1. /\ Len(chosen) \in Nat \ {0} /\ chosen' \in Seq(policy.eligible)
          /\ Len(chosen') = Len(chosen) - 1
          /\ \A i \in 1..(Len(chosen) - 1) : chosen'[i] = chosen[i]
      BY <1>3, <1>8, <2>1, FrontOf
    <3>2. Len(chosen) - 1 = n - 2 /\ n - 2 \in Nat
      BY <1>3, <3>1
    <3> QED BY <3>1, <3>2
  <2>3. \A d \in 1..(n - 1) : Outside(d)' = Outside(d)
    <3> TAKE d \in 1..(n - 1)
    <3>1. \A i \in 1..(d - 1) : i \in 1..(n - 2)
      BY <1>3
    <3> QED BY <2>2, <3>1 DEF Outside
  <2>4. FramesInv'
    <3>1. Len(frames') = Len(chosen') + 1
      BY <1>3, <1>4, <2>2
    <3>2. \A d \in 1..Len(frames') : frames'[d] \cap Outside(d)' = {}
      BY <1>3, <1>4, <2>3
    <3> QED BY <1>1, <1>4, <2>1, <2>2, <3>1, <3>2 DEF FramesInv
  <2>5. StageInv'
    BY <1>1, <1>2, <2>1 DEF PlannerInv, StageInv
  <2>6. SearchInv'
    <3> SUFFICES ASSUME Unhittable = {}, NEW S \in Hitting PROVE Awaits(S)' \/ Settled(S)
      BY <1>2, <1>6, <2>1 DEF SearchInv
    <3>1. Awaits(S) \/ Settled(S)
      BY <1>1 DEF PlannerInv, SearchInv
    <3>2. ASSUME Awaits(S) PROVE Awaits(S)'
      <4>1. PICK d \in 1..n : Outside(d) \subseteq S /\ frames[d] \cap S # {}
        BY <1>1, <3>2 DEF Awaits
      <4>2. d \in 1..(n - 1)
        BY <1>1, <1>3, <4>1
      <4>3. Outside(d)' \subseteq S /\ frames'[d] \cap S # {} /\ d \in 1..Len(frames')
        BY <1>4, <2>3, <4>1, <4>2
      <4> QED BY <4>3 DEF Awaits
    <3> QED BY <3>1, <3>2
  <2> QED BY <1>2, <1>5, <2>4, <2>5, <2>6 DEF PlannerInv
<1> QED BY <1>7, <1>8

-----------------------------------------------------------------------------
(* The plan that is made                                                   *)

\* What a plan made at the end of a search says of the set it contains and of
\* its advice.
LEMMA MadePlanIs ==
    ASSUME PlannerInv, stage = "solved"
    PROVE  \E T \in SUBSET policy.eligible :
              /\ MadePlan.targets = {Target(r) : r \in T}
              /\ MadePlan.outcome = "PlanOptimal" => \A S \in Hitting : ~ Better(S, T)
              /\ MadePlan.outcome \in {"PlanOptimal", "PlanFeasible"} => T \in Hitting
              /\ MadePlan.outcome = "ProvenInfeasible" => Unhittable # {}
              /\ nodes > policy.nodes => /\ MadePlan.advice \subseteq policy.eligible
                                         /\ Hits(MadePlan.advice)
<1> DEFINE out == Solution
           T == IF out = "ProvenInfeasible" THEN {} ELSE best.targets
           advice == IF out \in {"PlanFeasible", "SearchLimitReached"} THEN Greedy ELSE {}
           within == /\ out \in {"PlanOptimal", "PlanFeasible"}
                     /\ Cardinality(T) <= policy.targets
                     /\ CostOf(T) <= policy.cost
           made == [outcome |-> out, targets |-> {Target(r) : r \in T},
                    within |-> within, advice |-> advice]
           refused == [Refused EXCEPT !.advice = advice]
<1>1. MadePlan = IF Accepted(out, T) THEN made ELSE refused
  BY DEF MadePlan
<1>2. LoopsInv /\ nodes \in Nat /\ policy.nodes \in Nat
  BY DEF PlannerInv, StageInv, LoopsInv
<1>3. T \in SUBSET policy.eligible /\ (best.have => best.targets \in Hitting)
  BY DEF PlannerInv, IncumbentInv, None, Hitting
<1>4. /\ out = "ProvenInfeasible" => Unhittable # {}
      /\ out \in {"PlanOptimal", "PlanFeasible"} => best.have /\ T = best.targets
      /\ out = "PlanOptimal" => Unhittable = {} /\ ~ (nodes > policy.nodes)
      /\ out \in {"PlanFeasible", "SearchLimitReached"} \/ ~ (nodes > policy.nodes)
         \/ Unhittable # {}
      /\ out \in {"PlanFeasible", "SearchLimitReached"} => Unhittable = {}
  BY DEF Solution
<1>5. out = "PlanOptimal" => \A S \in Hitting : ~ Better(S, T)
  <2> SUFFICES ASSUME out = "PlanOptimal", NEW S \in Hitting PROVE ~ Better(S, T)
    OBVIOUS
  <2>1. nodes <= policy.nodes /\ Unhittable = {} /\ T = best.targets
    BY <1>2, <1>4
  <2> QED BY <2>1 DEF PlannerInv, SearchInv, Settled
<1>6. nodes > policy.nodes => advice \subseteq policy.eligible /\ Hits(advice)
  <2> SUFFICES ASSUME nodes > policy.nodes
               PROVE  advice \subseteq policy.eligible /\ Hits(advice)
    OBVIOUS
  <2>1. Unhittable = {}
    BY <1>2 DEF PlannerInv, StageInv
  <2>2. advice = Greedy
    BY <1>4, <2>1
  <2> QED BY <1>2, <2>1, <2>2, GreedyHits
<1>7. out \in {"PlanOptimal", "PlanFeasible"} => T \in Hitting
  BY <1>3, <1>4
<1> HIDE DEF out, T, advice, within
<1>8. CASE Accepted(out, T)
  <2>1. MadePlan.outcome = out /\ MadePlan.advice = advice
        /\ MadePlan.targets = {Target(r) : r \in T}
    BY <1>1, <1>8
  <2> QED BY <1>3, <1>4, <1>5, <1>6, <1>7, <2>1
<1>9. CASE ~ Accepted(out, T)
  <2>1. /\ MadePlan.outcome = "Invalid" /\ MadePlan.advice = advice
        /\ MadePlan.targets = {Target(r) : r \in {}}
    BY <1>1, <1>9 DEF Refused
  <2> QED BY <1>6, <2>1
<1> QED BY <1>8, <1>9

\* The plan that is made is honest.
LEMMA MakePlanKeeps == PlannerInv /\ MakePlan => PlannerInv'
<1> SUFFICES ASSUME PlannerInv, MakePlan PROVE PlannerInv'
  OBVIOUS
<1> DEFINE P == MadePlan
<1>1. /\ stage = "solved" /\ stage' = "planned" /\ plan' = P
      /\ UNCHANGED <<loops, policy, frames, chosen, nodes, best>>
  BY DEF MakePlan
<1>2. PICK T \in SUBSET policy.eligible :
              /\ P.targets = {Target(r) : r \in T}
              /\ P.outcome = "PlanOptimal" => \A S \in Hitting : ~ Better(S, T)
              /\ P.outcome \in {"PlanOptimal", "PlanFeasible"} => T \in Hitting
              /\ P.outcome = "ProvenInfeasible" => Unhittable # {}
              /\ nodes > policy.nodes => /\ P.advice \subseteq policy.eligible
                                         /\ Hits(P.advice)
  BY <1>1, MadePlanIs
<1> HIDE DEF P
<1>3. LoopsInv /\ Unhittable' = Unhittable /\ Hitting' = Hitting /\ LoopsInv'
  BY <1>1, SameInstance DEF PlannerInv
<1>4. /\ DOMAIN loops = 1..Len(loops)
      /\ \A i \in DOMAIN loops : loops[i] \in Witnessed
      /\ T \subseteq Resource /\ T \subseteq Nat
  BY <1>3, InstanceFacts
<1>5. \A i \in DOMAIN loops : /\ loops[i].cycle \in Seq(Nat)
                              /\ DOMAIN loops[i].cycle = DOMAIN loops[i].hops
                              /\ DOMAIN loops[i].hops = 1..Len(loops[i].hops)
                              /\ Len(loops[i].cycle) = Len(loops[i].hops)
                              /\ \A j \in DOMAIN loops[i].hops :
                                   loops[i].cycle[j] = From[loops[i].hops[j]]
  BY <1>4, WitnessedForm
<1>6. Targeted' = T
  <2>1. \A r : Target(r).resource = r
    BY DEF Target
  <2> QED BY <1>1, <1>2, <2>1 DEF Targeted
<1>7. OptimalIsBest'
  <2> SUFFICES ASSUME P.outcome = "PlanOptimal"
               PROVE  /\ T \subseteq policy.eligible
                      /\ \A i \in DOMAIN loops : Elements(loops[i].cycle) \cap T # {}
                      /\ \A S \in SUBSET policy.eligible :
                           (\A i \in DOMAIN loops : Elements(loops[i].cycle) \cap S # {})
                             => ~ Better(S, T)
    BY <1>1, <1>6 DEF OptimalIsBest, Hits
  <2>1. T \in Hitting /\ \A S \in Hitting : ~ Better(S, T)
    BY <1>2
  <2>2. Hits(T)
    BY <2>1, CoveredHits DEF Hitting
  <2>3. \A S \in SUBSET policy.eligible : Hits(S) => S \in Hitting
    BY CoveredHits DEF Hitting
  <2> QED BY <2>1, <2>2, <2>3 DEF Hits
<1>8. CutShortStillHits'
  <2> SUFFICES ASSUME nodes > policy.nodes
               PROVE  /\ P.advice \subseteq policy.eligible
                      /\ \A i \in DOMAIN loops : Elements(loops[i].cycle) \cap P.advice # {}
                      /\ P.outcome \in {"PlanOptimal", "PlanFeasible"} =>
                           /\ T \subseteq policy.eligible
                           /\ \A i \in DOMAIN loops : Elements(loops[i].cycle) \cap T # {}
    BY <1>1, <1>6 DEF CutShortStillHits, Hits, Affirmative
  <2>1. P.outcome \in {"PlanOptimal", "PlanFeasible"} => Hits(T)
    BY <1>2, CoveredHits DEF Hitting
  <2> QED BY <1>2, <2>1 DEF Hits
<1>9. InfeasibleIsCertain'
  <2>1. Unhittable # {} =>
          \E i \in DOMAIN loops : Elements(loops[i].cycle) \cap policy.eligible = {}
    BY DEF Unhittable, Options
  <2> QED BY <1>1, <1>2, <2>1 DEF InfeasibleIsCertain
<1>10. \A e : Shadow(e)' = Admitted[e] \ UNION {t.selectors : t \in {u \in P.targets : e \in u.hops}}
  BY <1>1 DEF Shadow
<1>11. OnlyLoopsAreCut'
  <2> SUFFICES ASSUME NEW e \in Edge, NEW s \in Admitted[e], s \notin Shadow(e)'
               PROVE  \E r \in T \cap {From[e], To[e]} :
                         /\ \E i \in DOMAIN loops : e \in Elements(loops[i].hops)
                         /\ \E i \in DOMAIN loops :
                               s \in loops[i].selectors /\ r \in Elements(loops[i].cycle)
    BY <1>1, <1>6 DEF OnlyLoopsAreCut
  <2>1. PICK t \in P.targets : e \in t.hops /\ s \in t.selectors
    BY <1>10
  <2>2. PICK r \in T : t = Target(r)
    BY <1>2
  <2>3. PICK i \in Implicated(r) : e \in HopsAt(r, i)
    BY <2>1, <2>2 DEF Target
  <2>4. PICK j \in Implicated(r) : s \in loops[j].selectors
    BY <2>1, <2>2 DEF Target
  <2>5. e \in Elements(loops[i].hops) /\ r \in {From[e], To[e]} /\ i \in DOMAIN loops
    BY <2>3 DEF HopsAt, Implicated
  <2>6. j \in DOMAIN loops /\ r \in Elements(loops[j].cycle)
    BY <1>4, <1>5, FoundIsThere DEF Implicated
  <2> QED BY <2>4, <2>5, <2>6
<1>12. LoopsInOrderAreBroken'
  <2> SUFFICES ASSUME P.outcome \in {"PlanOptimal", "PlanFeasible"},
                      NEW i \in DOMAIN loops,
                      \A j \in 1..(Len(loops[i].cycle) - 1) :
                         loops[i].cycle[j] < loops[i].cycle[j + 1],
                      NEW s \in loops[i].selectors
               PROVE  \E e \in Elements(loops[i].hops) : s \notin Shadow(e)'
    BY <1>1 DEF LoopsInOrderAreBroken, Affirmative
  <2>1. Hits(T)
    BY <1>2, CoveredHits DEF Hitting
  <2>2. PICK r \in T : r \in Elements(loops[i].cycle)
    BY <2>1 DEF Hits
  <2>3. PICK j \in DOMAIN loops[i].cycle : r = loops[i].cycle[j]
    BY <2>2 DEF Elements
  <2>4. PICK e \in Elements(loops[i].hops) : From[e] = r
    <3>1. /\ loops[i].hops[j] \in Elements(loops[i].hops)
          /\ From[loops[i].hops[j]] = r
      BY <1>5, <2>3 DEF Elements
    <3> QED BY <3>1
  <2>5. i \in Implicated(r)
    BY <1>4, <1>5, <2>2, FoundIsThere DEF Implicated
  <2>6. s \in Target(r).selectors /\ e \in Target(r).hops
    BY <2>4, <2>5 DEF Target, HopsAt
  <2>7. Target(r) \in P.targets
    BY <1>2
  <2>8. s \notin Shadow(e)'
    <3>1. s \in UNION {t.selectors : t \in {u \in P.targets : e \in u.hops}}
      BY <2>6, <2>7
    <3> QED BY <1>10, <3>1
  <2> QED BY <2>4, <2>8
<1>13. FramesInv' /\ IncumbentInv'
  BY <1>1, <1>3 DEF PlannerInv, FramesInv, IncumbentInv, None
<1>14. StageInv' /\ SearchInv'
  BY <1>1, <1>3 DEF PlannerInv, StageInv, SearchInv
<1> QED BY <1>3, <1>7, <1>8, <1>9, <1>11, <1>12, <1>13, <1>14 DEF PlannerInv, PlanIsHonest

-----------------------------------------------------------------------------
(* The invariant of the planner                                            *)

\* Nothing happens while loops are detected.
LEMMA PlanStutterKeeps == PlannerInv /\ UNCHANGED planVars => PlannerInv'
<1> SUFFICES ASSUME PlannerInv, UNCHANGED planVars PROVE PlannerInv'
  OBVIOUS
<1>1. UNCHANGED <<loops, policy, stage, frames, chosen, nodes, best, plan>>
  BY DEF planVars
<1>2. Unhittable' = Unhittable /\ Hitting' = Hitting /\ LoopsInv'
  BY <1>1, SameInstance DEF PlannerInv
<1>3. FramesInv' /\ IncumbentInv'
  <2>1. \A d : Outside(d)' = Outside(d)
    BY <1>1 DEF Outside
  <2> QED BY <1>1, <1>2, <2>1 DEF PlannerInv, FramesInv, IncumbentInv, None
<1>4. StageInv'
  BY <1>1, <1>2 DEF PlannerInv, StageInv
<1>5. SearchInv'
  <2>1. \A S : Awaits(S)' = Awaits(S) /\ Settled(S)' = Settled(S)
    BY <1>1 DEF Awaits, Outside, Settled
  <2>2. SearchInv
    BY DEF PlannerInv
  <2> QED BY <1>1, <1>2, <2>1, <2>2 DEF SearchInv
<1>6. PlanIsHonest'
  <2>1. PlanIsHonest
    BY DEF PlannerInv
  <2>2. (\A S : Hits(S)' = Hits(S)) /\ (\A e : Shadow(e)' = Shadow(e))
        /\ Targeted' = Targeted /\ Affirmative' = Affirmative
    BY <1>1 DEF Hits, Shadow, Targeted, Affirmative
  <2>3. OptimalIsBest'
    BY <1>1, <2>1, <2>2 DEF PlanIsHonest, OptimalIsBest, Hits
  <2>4. CutShortStillHits'
    BY <1>1, <2>1, <2>2 DEF PlanIsHonest, CutShortStillHits, Hits
  <2>5. InfeasibleIsCertain'
    BY <1>1, <2>1 DEF PlanIsHonest, InfeasibleIsCertain
  <2>6. OnlyLoopsAreCut'
    BY <1>1, <2>1, <2>2 DEF PlanIsHonest, OnlyLoopsAreCut
  <2>7. LoopsInOrderAreBroken'
    BY <1>1, <2>1, <2>2 DEF PlanIsHonest, LoopsInOrderAreBroken
  <2> QED BY <2>3, <2>4, <2>5, <2>6, <2>7 DEF PlanIsHonest
<1> QED BY <1>2, <1>3, <1>4, <1>5, <1>6 DEF PlannerInv

\* The witnesses of an assessment are what a plan may be made for.
LEMMA WitnessesArePlanned ==
    ASSUME DetectorInv
    PROVE  witnesses \in Seq(Witnessed)
<1> DEFINE Checked == {w \in Listable : Certain(w.hops)}
<1>1. witnesses \in Seq(Checked)
  BY DEF DetectorInv, ListInv
<1>2. Candidates \subseteq Selector
  BY QuestionFacts DEF DetectorInv
<1>3. Checked \subseteq Witnessed
  <2> SUFFICES ASSUME NEW w \in Listable PROVE w \in Witnessed
    OBVIOUS
  <2>1. PICK h \in Proven : w = WitnessOf(h)
    BY DEF Listable
  <2>2. h \in Loops /\ Carried(h, 0) \in SUBSET Selector
    BY <1>2 DEF Proven, Carried
  <2>3. PICK S \in SUBSET Selector : S = Carried(h, 0)
    BY <2>2
  <2>4. w = [cycle |-> [i \in DOMAIN h |-> From[h[i]]], hops |-> h, selectors |-> S]
    BY <2>1, <2>3, Zenon DEF WitnessOf
  <2> DEFINE F(g, A) == [cycle |-> [i \in DOMAIN g |-> From[g[i]]], hops |-> g, selectors |-> A]
  <2>5. w = F(h, S) /\ Witnessed = {F(g, A) : g \in Loops, A \in SUBSET Selector}
    BY <2>4 DEF Witnessed
  <2> HIDE DEF F
  <2> QED BY <2>2, <2>5
<1> HIDE DEF Checked
<1> QED BY <1>1, <1>3

\* Whatever the topology, the evidence, the limits and the policy.
THEOREM PlannerIsInvariant == Spec => []PlannerInv
<1>1. Init => PlannerInv
  BY PlanIdleInv DEF Init
<1>2. DetectorInv /\ PlannerInv /\ [Next]_vars => PlannerInv'
  <2> SUFFICES ASSUME DetectorInv, PlannerInv, [Next]_vars PROVE PlannerInv'
    OBVIOUS
  <2>1. CASE Assess \/ UNCHANGED vars
    <3>1. UNCHANGED planVars
      BY <2>1 DEF Assess, vars
    <3> QED BY <3>1, PlanStutterKeeps
  <2>2. CASE PlanContainment
    <3>1. PICK p \in Policy : BeginPlan(witnesses, p)
      BY <2>2 DEF PlanContainment
    <3>2. witnesses \in Seq(Witnessed)
      BY WitnessesArePlanned
    <3> QED BY <3>1, <3>2, BeginPlanKeeps
  <2>3. CASE Plan
    BY <2>3, NothingHitsKeeps, ExhaustKeeps, LeafKeeps, BranchKeeps, TryKeeps, ReturnKeeps,
       MakePlanKeeps DEF Plan, PlanStep
  <2> QED BY <2>1, <2>2, <2>3 DEF Next
<1> QED BY <1>1, <1>2, DetectorIsInvariant, PTL DEF Spec

-----------------------------------------------------------------------------
(* What a plan says                                                        *)

\* A plan says no more than was searched and does what it says: an optimum is
\* one by the objective of the reference solver though branches were pruned, a
\* search that was cut short still leaves a set that hits every loop, nothing
\* is called impossible that is not, and the shadow definition cuts only loops
\* and every loop in order (containment.cpp:128-330, 590-760).
THEOREM PlanIsAlwaysHonest == Spec => []PlanIsHonest
<1>1. PlannerInv => PlanIsHonest
  BY DEF PlannerInv
<1> QED BY <1>1, PlannerIsInvariant, PTL

\* Every variable of the detector and of the planner is well typed, the search
\* is one choice deep per branch, and its incumbent hits every loop.
THEOREM AnalysisIsAlwaysTyped == Spec => []TypeOK
<1>1. PlannerInv => PlannerTypeOK
  <2> SUFFICES ASSUME PlannerInv PROVE PlannerTypeOK
    OBVIOUS
  <2>1. /\ stage \in {"idle", "enter", "branch", "solved", "planned"}
        /\ policy.eligible \subseteq Containable /\ nodes <= policy.nodes + 1
    BY DEF PlannerInv, StageInv, LoopsInv
  <2>2. /\ stage = "enter" => Len(chosen) = Len(frames)
        /\ stage = "branch" => Len(frames) = Len(chosen) + 1
    BY DEF PlannerInv, FramesInv
  <2>3. Elements(chosen) \subseteq policy.eligible
    BY DEF PlannerInv, FramesInv, Elements
  <2>4. best.have => best.targets \subseteq policy.eligible /\ Hits(best.targets)
    BY CoveredHits DEF PlannerInv, IncumbentInv, None, Hitting
  <2> QED BY <2>1, <2>2, <2>3, <2>4 DEF PlannerTypeOK
<1> QED BY <1>1, PlannerIsInvariant, DetectorIsAlwaysTyped, PTL DEF TypeOK

=============================================================================
