-------------------------- MODULE Evidence_proofs --------------------------
(***************************************************************************)
(* Proofs about the evidence ledger, for any number of hops, producers,    *)
(* observations and any bounds.                                            *)
(*                                                                         *)
(* A resolution sees only what is retained, so the invariant relates what  *)
(* is retained to what was claimed: whenever any statement of an author    *)
(* about a hop is retained, the author's newest one is retained as well.   *)
(* Eviction keeps this because it removes a prefix of the canonical order, *)
(* and submission because sequences only rise.                             *)
(***************************************************************************)
EXTENDS Evidence, FiniteSetTheorems, TLAPS

\* Sequences never exceed what their author reached, and name one statement.
SequencesRise ==
    /\ high \in [Producer \X Incarnation -> Nat]
    /\ observations \subseteq Observation /\ IsFiniteSet(observations)
    /\ \A o \in observations \cup claims :
          o.sequence <= high[Author(o)]
    /\ \A o, p \in observations :
          SameAuthor(o, p) /\ o.sequence = p.sequence => o = p

\* One claim for each author and hop, and no more than was said.
OneClaim ==
    /\ claims \subseteq Observation
    /\ \A c, d \in claims : c.edge = d.edge /\ SameAuthor(c, d) => c = d

\* The newest statement outlives the older ones of its author.
NewestIsRetained ==
    \A o \in observations : \E c \in claims \cap observations :
        c.edge = o.edge /\ SameAuthor(c, o) /\ o.sequence <= c.sequence

\* Claims are lost to eviction only.
ClaimsAreRetained == \A c \in claims : c.edge \in lossy \/ c \in observations

Inv == SequencesRise /\ OneClaim /\ NewestIsRetained /\ ClaimsAreRetained

-----------------------------------------------------------------------------

\* The fields that the order compares.
LEMMA ObservationType ==
    ASSUME NEW o \in Observation
    PROVE  /\ o.producer \in Int /\ o.id \in Int
           /\ o.sequence \in Nat
           /\ Author(o) \in Producer \X Incarnation
<1>1. o.producer \in Producer /\ o.id \in ObservationId
  BY DEF Observation
<1>2. o.sequence \in 1..MaxSequence /\ o.incarnation \in Incarnation
  BY DEF Observation
<1>3. o.producer \in Int /\ o.id \in Int
  BY <1>1, LedgerAssumption
<1>4. o.sequence \in Nat
  BY <1>2, LedgerAssumption
<1>5. Author(o) \in Producer \X Incarnation
  BY <1>1, <1>2 DEF Author
<1> QED
  BY <1>3, <1>4, <1>5

\* Eviction removes a prefix of the canonical order of a hop.
LEMMA EvictionIsDownward ==
    ASSUME SequencesRise, NEW e, NEW o \in ByEdge(e), NEW p \in ByEdge(e),
           Before(o, p), p \in Evicted(e)
    PROVE  o \in Evicted(e)
<1> DEFINE above(q) == {r \in ByEdge(e) : Before(q, r)}
<1>1. \A q \in ByEdge(e) :
          q.producer \in Int /\ q.sequence \in Int /\ q.id \in Int
  BY ObservationType DEF ByEdge, SequencesRise
<1>2. above(p) \subseteq above(o)
  BY <1>1 DEF Before
<1>3. IsFiniteSet(ByEdge(e))
  BY FS_Subset DEF ByEdge, SequencesRise
<1>4. IsFiniteSet(above(o)) /\ IsFiniteSet(above(p))
  BY <1>3, FS_Subset
<1>5. Cardinality(above(p)) <= Cardinality(above(o))
  BY <1>2, <1>4, FS_Subset
<1>6. Cardinality(above(p)) \in Nat /\ Cardinality(above(o)) \in Nat
  BY <1>4, FS_CardinalityType
<1>7. Cardinality(above(p)) >= MaxPerEdge - 1
  BY DEF Evicted
<1> HIDE DEF above
<1>8. Cardinality(above(o)) >= MaxPerEdge - 1
  BY <1>5, <1>6, <1>7, LedgerAssumption
<1> QED
  BY <1>8 DEF Evicted, above

\* The invariant holds of an empty ledger.
LEMMA InitInv == Init => Inv
BY FS_EmptySet
   DEF Init, Inv, SequencesRise, OneClaim, NewestIsRetained, ClaimsAreRetained

\* One author's next statement is above all its earlier ones.
LEMMA SubmittedIsNewest ==
    ASSUME SequencesRise, OneClaim, NEW n \in Observation, Submit(n),
           NEW o \in observations \cup claims, SameAuthor(o, n)
    PROVE  o.sequence < n.sequence
<1>1. Author(n) \in Producer \X Incarnation
  BY ObservationType
<1>2. o.sequence \in Int /\ n.sequence \in Int
  BY ObservationType DEF SequencesRise, OneClaim
<1>3. o.sequence <= high[Author(n)]
  BY DEF SequencesRise, SameAuthor
<1> QED
  BY <1>1, <1>2, <1>3 DEF Submit, SequencesRise

\* Sequences rise with a submission.
LEMMA SubmitSequences ==
    ASSUME Inv, NEW n \in Observation, Submit(n)
    PROVE  SequencesRise'
<1> USE DEF Inv
<1>1. Author(n) \in Producer \X Incarnation /\ n.sequence \in Nat
  BY ObservationType
<1>2. high' \in [Producer \X Incarnation -> Nat]
  BY <1>1 DEF Submit, SequencesRise
<1>3. observations' \subseteq Observation /\ IsFiniteSet(observations')
  <2>1. IsFiniteSet(observations \ Evicted(n.edge))
    BY FS_Subset DEF SequencesRise
  <2> QED
    BY <2>1, FS_AddElement DEF Submit, SequencesRise
<1>4. ASSUME NEW o \in observations' \cup claims'
      PROVE  o.sequence <= high'[Author(o)]
  <2>1. o = n \/ o \in observations \cup claims
    BY <1>4 DEF Submit
  <2>2. o \in Observation
    BY <2>1 DEF SequencesRise, OneClaim
  <2>3. Author(o) \in Producer \X Incarnation /\ o.sequence \in Int
    BY <2>2, ObservationType
  <2>4. CASE SameAuthor(o, n)
    <3>1. o = n \/ o.sequence < n.sequence
      BY <2>1, <2>4, SubmittedIsNewest
    <3>2. high'[Author(o)] = n.sequence
      BY <2>3, <2>4 DEF Submit, SequencesRise, SameAuthor
    <3> QED BY <1>1, <2>3, <3>1, <3>2
  <2>5. CASE ~ SameAuthor(o, n)
    <3>1. o # n
      BY <2>5 DEF SameAuthor
    <3>2. Author(o) # Author(n)
      BY <2>5 DEF SameAuthor
    <3>3. high'[Author(o)] = high[Author(o)]
      BY <2>3, <3>2 DEF Submit, SequencesRise
    <3> QED BY <2>1, <3>1, <3>3 DEF SequencesRise
  <2> QED BY <2>4, <2>5
<1>5. ASSUME NEW o \in observations', NEW p \in observations',
             SameAuthor(o, p), o.sequence = p.sequence
      PROVE  o = p
  <2>1. o \in observations \cup {n} /\ p \in observations \cup {n}
    BY <1>5 DEF Submit
  <2>2. o.sequence \in Int /\ p.sequence \in Int
    BY <1>3, ObservationType
  <2>3. CASE o = n /\ p # n
    BY <1>5, <2>1, <2>2, <2>3, SubmittedIsNewest DEF SameAuthor
  <2>4. CASE p = n /\ o # n
    BY <1>5, <2>1, <2>2, <2>4, SubmittedIsNewest DEF SameAuthor
  <2> QED
    BY <1>5, <2>1, <2>3, <2>4 DEF SequencesRise
<1> QED
  BY <1>2, <1>3, <1>4, <1>5 DEF SequencesRise

\* A submission replaces the claim of its author, and evicts old ones first.
LEMMA SubmitClaims ==
    ASSUME Inv, NEW n \in Observation, Submit(n)
    PROVE  OneClaim' /\ NewestIsRetained' /\ ClaimsAreRetained'
<1> USE DEF Inv
<1>1. OneClaim'
  BY DEF OneClaim, Submit, SameAuthor
<1>2. NewestIsRetained'
  <2> SUFFICES ASSUME NEW o \in observations'
               PROVE  \E c \in claims' \cap observations' :
                          /\ c.edge = o.edge /\ SameAuthor(c, o)
                          /\ o.sequence <= c.sequence
    BY DEF NewestIsRetained, SameAuthor
  <2>0. n \in claims' \cap observations' /\ n.sequence \in Int
    BY ObservationType DEF Submit
  <2>1. CASE o = n
    BY <2>0, <2>1 DEF SameAuthor
  <2>2. CASE o # n
    <3>1. o \in observations /\ o \notin Evicted(n.edge)
      BY <2>2 DEF Submit
    <3>2. PICK c \in claims \cap observations :
              c.edge = o.edge /\ SameAuthor(c, o) /\ o.sequence <= c.sequence
      BY <3>1 DEF NewestIsRetained
    <3>3. o.sequence \in Int /\ c.sequence \in Int
      BY <3>1, ObservationType DEF SequencesRise
    <3>4. CASE c.edge = n.edge /\ SameAuthor(c, n)
      <4>1. SameAuthor(o, n) /\ SameAuthor(n, o) /\ n.edge = o.edge
        BY <3>2, <3>4 DEF SameAuthor
      <4>2. o.sequence < n.sequence
        BY <3>1, <4>1, SubmittedIsNewest
      <4> QED BY <2>0, <3>3, <4>1, <4>2
    <3>5. CASE c.edge # n.edge \/ ~ SameAuthor(c, n)
      <4>1. c \in claims'
        BY <3>5 DEF Submit
      <4>2. c \notin Evicted(n.edge)
        <5>1. CASE c = o
          BY <3>1, <5>1
        <5>2. CASE c # o /\ c.edge = n.edge
          <6>1. o.sequence # c.sequence
            BY <3>1, <3>2, <5>2 DEF SequencesRise, SameAuthor
          <6>2. Before(o, c)
            BY <3>2, <3>3, <6>1 DEF Before, SameAuthor, Author
          <6>3. o \in ByEdge(n.edge) /\ c \in ByEdge(n.edge)
            BY <3>1, <3>2, <5>2 DEF ByEdge
          <6> QED BY <3>1, <6>2, <6>3, EvictionIsDownward
        <5>3. CASE c.edge # n.edge
          BY <5>3 DEF Evicted, ByEdge
        <5> QED BY <5>1, <5>2, <5>3
      <4>3. c \in observations'
        BY <3>2, <4>2 DEF Submit
      <4> QED BY <3>2, <4>1, <4>3
    <3> QED BY <3>4, <3>5
  <2> QED BY <2>1, <2>2
<1>3. ClaimsAreRetained'
  <2> SUFFICES ASSUME NEW c \in claims'
               PROVE  c.edge \in lossy' \/ c \in observations'
    BY DEF ClaimsAreRetained
  <2>1. c = n \/ c \in claims
    BY DEF Submit
  <2>2. lossy \subseteq lossy'
    BY DEF Submit
  <2>3. CASE c \in Evicted(n.edge)
    <3>1. c.edge = n.edge
      BY <2>3 DEF Evicted, ByEdge
    <3> QED BY <2>3, <3>1 DEF Submit
  <2>4. CASE c \notin Evicted(n.edge)
    BY <2>1, <2>2, <2>4 DEF Submit, ClaimsAreRetained
  <2> QED BY <2>3, <2>4
<1> QED BY <1>1, <1>2, <1>3

\* Every step keeps the invariant.
LEMMA NextInv == Inv /\ [Next]_vars => Inv'
<1> SUFFICES ASSUME Inv, [Next]_vars
             PROVE  Inv'
  OBVIOUS
<1>1. ASSUME NEW n \in Observation, Submit(n)
      PROVE  Inv'
  BY <1>1, SubmitSequences, SubmitClaims DEF Inv
<1>2. CASE Clear
  BY <1>2, FS_EmptySet
     DEF Clear, Inv, SequencesRise, OneClaim, NewestIsRetained, ClaimsAreRetained
<1>3. CASE UNCHANGED vars
  BY <1>3 DEF vars, Inv, SequencesRise, OneClaim, NewestIsRetained,
              ClaimsAreRetained, SameAuthor
<1> QED
  BY <1>1, <1>2, <1>3 DEF Next

\* The ledger never retains an old statement of an author about a hop without
\* the author's newest one (submit and its eviction).
THEOREM LedgerKeepsNewest == Spec => []Inv
BY InitInv, NextInv, PTL DEF Spec

-----------------------------------------------------------------------------

\* What binds exactly is the author's current statement.
LEMMA ExactIsClaimed ==
    ASSUME Inv, NEW e, NEW i, NEW b, NEW now, NEW o \in ByEdge(e),
           BindingOf(o, ByEdge(e), i, b, now) = "Exact"
    PROVE  o \in ExactClaims(e, i, b, now)
<1>1. /\ o.incarnation = i /\ o.binding = b /\ Live(o, now)
      /\ ~ Superseded(o, ByEdge(e))
  BY DEF BindingOf
<1>2. o \in observations /\ o.edge = e
  BY DEF ByEdge
<1>3. PICK c \in claims \cap observations :
          c.edge = o.edge /\ SameAuthor(c, o) /\ o.sequence <= c.sequence
  BY <1>2 DEF Inv, NewestIsRetained
<1>4. o.sequence \in Nat /\ c.sequence \in Nat
  BY <1>2, <1>3, ObservationType DEF Inv, SequencesRise
<1>5. c \in ByEdge(e) /\ SameAuthor(o, c)
  BY <1>2, <1>3 DEF ByEdge, SameAuthor
<1>6. ~ c.sequence > o.sequence
  BY <1>1, <1>5 DEF Superseded
<1>7. c = o
  BY <1>2, <1>3, <1>4, <1>6 DEF Inv, SequencesRise
<1> QED
  BY <1>1, <1>2, <1>3, <1>7 DEF ExactClaims

\* Where nothing was evicted, a claim that binds exactly counts.
LEMMA ClaimIsExact ==
    ASSUME Inv, NEW e, e \notin lossy, NEW i, NEW b, NEW now,
           NEW c \in ExactClaims(e, i, b, now)
    PROVE  c \in ByEdge(e) /\ BindingOf(c, ByEdge(e), i, b, now) = "Exact"
<1>1. /\ c \in claims /\ c.edge = e
      /\ c.incarnation = i /\ c.binding = b /\ Live(c, now)
  BY DEF ExactClaims
<1>2. c \in observations
  BY <1>1 DEF Inv, ClaimsAreRetained
<1>3. ASSUME NEW p \in ByEdge(e), SameAuthor(c, p), p.sequence > c.sequence
      PROVE  FALSE
  <2>1. p \in observations /\ p.edge = e
    BY DEF ByEdge
  <2>2. PICK d \in claims \cap observations :
            d.edge = p.edge /\ SameAuthor(d, p) /\ p.sequence <= d.sequence
    BY <2>1 DEF Inv, NewestIsRetained
  <2>3. c.sequence \in Nat /\ p.sequence \in Nat /\ d.sequence \in Nat
    BY <1>2, <2>1, <2>2, ObservationType DEF Inv, SequencesRise
  <2>4. d = c
    BY <1>1, <1>3, <2>1, <2>2 DEF Inv, OneClaim, SameAuthor
  <2> QED
    BY <1>3, <2>2, <2>3, <2>4
<1>4. ~ Superseded(c, ByEdge(e))
  BY <1>3 DEF Superseded
<1> QED
  BY <1>1, <1>2, <1>4 DEF ByEdge, BindingOf

\* So what proves a hop open is a claim.
LEMMA InvImpliesProvenOpenIsClaimed == Inv => ProvenOpenIsClaimed
<1> SUFFICES ASSUME Inv,
                    NEW e \in Edge, NEW i \in Incarnation, NEW b \in Binding,
                    NEW now \in Tick,
                    Resolve("Usable", ByEdge(e), i, b, now) = "ProvenOpen"
             PROVE  \E c \in ExactClaims(e, i, b, now) : c.said.admitted
  BY DEF ProvenOpenIsClaimed
<1>1. PICK o \in ByEdge(e) :
          BindingOf(o, ByEdge(e), i, b, now) = "Exact" /\ o.said.admitted
  BY DEF Resolve
<1> QED
  BY <1>1, ExactIsClaimed

\* So the claims that count are those the resolution sees.
LEMMA InvImpliesContradictionIsSeen == Inv => ContradictionIsSeen
<1> SUFFICES ASSUME Inv,
                    NEW e \in Edge \ lossy, NEW i \in Incarnation,
                    NEW b \in Binding, NEW now \in Tick
             PROVE  {"Present", "Absent"}
                        \subseteq {c.said.klass : c \in ExactClaims(e, i, b, now)}
                    <=> Resolve("Usable", ByEdge(e), i, b, now) = "Conflicted"
  BY DEF ContradictionIsSeen
<1> DEFINE exact == {o \in ByEdge(e) : BindingOf(o, ByEdge(e), i, b, now) = "Exact"}
<1>1. exact = ExactClaims(e, i, b, now)
  <2>1. exact \subseteq ExactClaims(e, i, b, now)
    BY ExactIsClaimed
  <2>2. ExactClaims(e, i, b, now) \subseteq exact
    BY ClaimIsExact
  <2> QED BY <2>1, <2>2
<1>2. Resolve("Usable", ByEdge(e), i, b, now) = "Conflicted"
      <=> /\ \E o \in exact : o.said.klass = "Present"
          /\ \E o \in exact : o.said.klass = "Absent"
  BY DEF Resolve
<1> HIDE DEF exact
<1> QED
  BY <1>1, <1>2

\* However statements arrive, repeat, expire and are evicted: a hop is proven
\* open only by a statement its author still stands by.
THEOREM ProvenOpenRestsOnClaims == Spec => []ProvenOpenIsClaimed
BY LedgerKeepsNewest, InvImpliesProvenOpenIsClaimed, PTL

\* A hop that lost nothing to eviction is in conflict exactly when current
\* claims on it disagree.
THEOREM ConflictsAreComplete == Spec => []ContradictionIsSeen
BY LedgerKeepsNewest, InvImpliesContradictionIsSeen, PTL

-----------------------------------------------------------------------------
(* The bounds                                                              *)

\* Naturals up to a bound have a greatest one.
LEMMA GreatestExists ==
    ASSUME NEW S, S \subseteq Nat, S # {}, NEW k \in Nat, \A n \in S : n <= k
    PROVE  \E m \in S : \A n \in S : n <= m
<1> DEFINE T == {k - n : n \in S}
           Less == {pair \in Nat \X Nat : pair[1] < pair[2]}
<1>1. IsWellFoundedOn(Less, Nat)
  BY NatLessThanWellFounded DEF OpToRel
<1>2. T \subseteq Nat /\ T # {}
  <2>1. \A n \in S : k - n \in Nat
    OBVIOUS
  <2>2. T \subseteq Nat
    BY <2>1
  <2>3. T # {}
    OBVIOUS
  <2> QED BY <2>2, <2>3
<1>3. PICK t \in T : \A u \in T : <<u, t>> \notin Less
  <2> HIDE DEF T, Less
  <2> QED BY <1>1, <1>2, WFMin
<1>4. PICK m \in S : t = k - m
  OBVIOUS
<1>5. ASSUME NEW n \in S PROVE n <= m
  <2>1. k - n \in T /\ k - n \in Nat /\ t \in Nat
    OBVIOUS
  <2>2. ~ (k - n < t)
    BY <1>3, <2>1
  <2> QED BY <1>4, <2>2
<1> QED BY <1>5

\* Of the observations of a hop, one comes before the other.
LEMMA BeforeIsTotal ==
    ASSUME NEW o \in Observation, NEW p \in Observation, o.id # p.id
    PROVE  Before(o, p) \/ Before(p, o)
<1>1. /\ o.producer \in Int /\ p.producer \in Int /\ o.id \in Int /\ p.id \in Int
      /\ o.sequence \in Int /\ p.sequence \in Int
  BY ObservationType
<1> QED BY <1>1 DEF Before

\* An observation comes before all that come after a later one.
LEMMA BeforeIsOrder ==
    ASSUME NEW o \in Observation, NEW p \in Observation, Before(o, p)
    PROVE  /\ ~ Before(p, p) /\ ~ Before(p, o)
           /\ \A q \in Observation : Before(p, q) => Before(o, q)
<1>1. \A q \in Observation : q.producer \in Int /\ q.id \in Int /\ q.sequence \in Int
  BY ObservationType
<1> QED BY <1>1 DEF Before

\* What eviction leaves of a hop has room for one more.
LEMMA EvictionMakesRoom ==
    ASSUME SequencesRise, \A o, p \in observations : o.id = p.id => o = p, NEW e
    PROVE  Cardinality(ByEdge(e) \ Evicted(e)) <= MaxPerEdge - 1
<1> DEFINE above(q) == {r \in ByEdge(e) : Before(q, r)}
           left == ByEdge(e) \ Evicted(e)
           sizes == {Cardinality(above(q)) : q \in left}
<1>1. /\ ByEdge(e) \subseteq Observation /\ IsFiniteSet(ByEdge(e))
      /\ ByEdge(e) \subseteq observations
  BY FS_Subset DEF ByEdge, SequencesRise
<1>2. MaxPerEdge \in Nat \ {0}
  BY LedgerAssumption
<1>3. \A q \in ByEdge(e) : IsFiniteSet(above(q)) /\ Cardinality(above(q)) \in Nat
  <2> TAKE q \in ByEdge(e)
  <2>1. IsFiniteSet(above(q))
    BY <1>1, FS_Subset
  <2> QED BY <2>1, FS_CardinalityType
<1>4. \A q \in left : q \in ByEdge(e) /\ ~ (Cardinality(above(q)) >= MaxPerEdge - 1)
  BY DEF Evicted
<1> HIDE DEF above
<1>5. CASE left = {}
  BY <1>2, <1>5, FS_EmptySet
<1>6. CASE left # {}
  <2>1. PICK m \in sizes : \A n \in sizes : n <= m
    <3>1. sizes \subseteq Nat /\ sizes # {} /\ \A n \in sizes : n <= MaxPerEdge
      BY <1>2, <1>3, <1>4, <1>6
    <3> HIDE DEF sizes
    <3> QED BY <1>2, <3>1, GreatestExists
  <2>2. PICK o \in left : m = Cardinality(above(o))
    OBVIOUS
  <2>3. \A p \in left : Cardinality(above(p)) <= Cardinality(above(o))
    BY <2>1, <2>2
  <2>4. left \subseteq above(o) \cup {o}
    <3> SUFFICES ASSUME NEW p \in left, p # o, ~ Before(o, p) PROVE FALSE
      BY DEF above
    <3>1. o \in ByEdge(e) /\ p \in ByEdge(e)
      BY <1>4
    <3>2. Before(p, o)
      BY <1>1, <3>1, BeforeIsTotal
    <3>3. above(o) \cup {o} \subseteq above(p) /\ o \notin above(o)
      BY <1>1, <3>1, <3>2, BeforeIsOrder DEF above
    <3>4. Cardinality(above(o) \cup {o}) = Cardinality(above(o)) + 1
          /\ IsFiniteSet(above(o) \cup {o})
      BY <1>3, <3>1, <3>3, FS_AddElement
    <3>5. Cardinality(above(o) \cup {o}) <= Cardinality(above(p))
      BY <1>3, <3>1, <3>3, FS_Subset
    <3>6. Cardinality(above(p)) <= Cardinality(above(o))
      BY <2>3
    <3> QED BY <1>3, <3>1, <3>4, <3>5, <3>6
  <2>5. /\ IsFiniteSet(above(o) \cup {o})
        /\ Cardinality(above(o) \cup {o}) \in {Cardinality(above(o)), Cardinality(above(o)) + 1}
    <3>1. IsFiniteSet(above(o))
      BY <1>3, <1>4
    <3> QED BY <3>1, FS_AddElement
  <2>6. Cardinality(left) <= Cardinality(above(o) \cup {o}) /\ Cardinality(left) \in Nat
    <3> HIDE DEF left
    <3>1. Cardinality(left) <= Cardinality(above(o) \cup {o}) /\ IsFiniteSet(left)
      BY <2>4, <2>5, FS_Subset
    <3> QED BY <3>1, FS_CardinalityType
  <2>7. Cardinality(above(o)) \in Nat /\ ~ (Cardinality(above(o)) >= MaxPerEdge - 1)
    BY <1>3, <1>4
  <2> DEFINE c == Cardinality(above(o))
             d == Cardinality(above(o) \cup {o})
             l == Cardinality(left)
  <2>8. l \in Nat /\ c \in Nat /\ d \in {c, c + 1} /\ l <= d /\ ~ (c >= MaxPerEdge - 1)
    BY <2>5, <2>6, <2>7
  <2> HIDE DEF c, d, l
  <2>9. l <= MaxPerEdge - 1
    BY <1>2, <2>8
  <2> QED BY <2>9 DEF l
<1> QED BY <1>5, <1>6

\* A submission evicts before it adds.
LEMMA SubmitBounds ==
    ASSUME Inv, TypeOK, NEW n \in Observation, Submit(n)
    PROVE  TypeOK'
<1>1. SequencesRise'
  BY SubmitSequences
<1>2. observations' = (observations \ Evicted(n.edge)) \cup {n}
      /\ \A p \in observations : p.id # n.id
  BY DEF Submit
<1>3. \A o, p \in observations' : o.id = p.id => o = p
  BY <1>2 DEF TypeOK
<1>4. Cardinality(observations') <= MaxObservations
  <2> DEFINE kept == observations \ Evicted(n.edge)
             c == Cardinality(observations)
             k == Cardinality(kept)
             s == Cardinality(kept \cup {n})
  <2>1. IsFiniteSet(observations) /\ c \in Nat /\ c < MaxObservations
    BY FS_CardinalityType DEF TypeOK, Submit
  <2>2. IsFiniteSet(kept) /\ k <= c
    BY <2>1, FS_Subset
  <2>3. k \in Nat /\ s \in {k, k + 1}
    BY <2>2, FS_AddElement, FS_CardinalityType
  <2> HIDE DEF c, k, s
  <2>4. s <= MaxObservations
    BY <2>1, <2>2, <2>3, LedgerAssumption
  <2> QED BY <1>2, <2>4 DEF s
<1>5. ASSUME NEW e \in Edge PROVE Cardinality(ByEdge(e)') <= MaxPerEdge
  <2>1. CASE e # n.edge
    <3>1. ByEdge(e)' = ByEdge(e)
      BY <1>2, <2>1 DEF ByEdge, Evicted
    <3> QED BY <3>1 DEF TypeOK
  <2>2. CASE e = n.edge
    <3> DEFINE left == ByEdge(e) \ Evicted(e)
               l == Cardinality(left)
               s == Cardinality(left \cup {n})
    <3>1. ByEdge(e)' = left \cup {n}
      BY <1>2, <2>2 DEF ByEdge
    <3>2. l <= MaxPerEdge - 1
      BY EvictionMakesRoom DEF Inv, TypeOK
    <3>3. IsFiniteSet(left)
      BY FS_Subset DEF TypeOK, ByEdge
    <3>4. l \in Nat /\ s \in {l, l + 1}
      BY <3>3, FS_AddElement, FS_CardinalityType
    <3> HIDE DEF l, s, left
    <3>5. s <= MaxPerEdge
      BY <3>2, <3>4, LedgerAssumption
    <3> QED BY <3>1, <3>5 DEF s
  <2> QED BY <2>1, <2>2
<1> QED BY <1>1, <1>3, <1>4, <1>5 DEF SequencesRise, TypeOK

\* Whatever is submitted in whatever order, the ledger stays within both its
\* bounds, per hop and in all, and no two retained observations share an
\* identity.
THEOREM LedgerIsBounded == Spec => []TypeOK
<1>1. ASSUME observations = {}, high = [k \in Producer \X Incarnation |-> 0]
      PROVE  TypeOK
  <2>1. Cardinality({}) = 0 /\ IsFiniteSet({})
    BY FS_EmptySet
  <2>2. \A e \in Edge : Cardinality(ByEdge(e)) <= MaxPerEdge
    <3> TAKE e \in Edge
    <3>1. ByEdge(e) = {}
      BY <1>1 DEF ByEdge
    <3> QED BY <2>1, <3>1, LedgerAssumption
  <2>3. high \in [Producer \X Incarnation -> Nat]
    BY <1>1
  <2>4. Cardinality(observations) <= MaxObservations /\ IsFiniteSet(observations)
    BY <1>1, <2>1, LedgerAssumption
  <2>5. /\ observations \subseteq Observation
        /\ \A o, p \in observations : o.id = p.id => o = p
    BY <1>1
  <2> QED BY <2>2, <2>3, <2>4, <2>5 DEF TypeOK
<1>2. Init => TypeOK
  BY <1>1 DEF Init
<1>3. Inv /\ TypeOK /\ [Next]_vars => TypeOK'
  <2> SUFFICES ASSUME Inv, TypeOK, [Next]_vars PROVE TypeOK'
    OBVIOUS
  <2>1. CASE Clear
    <3>1. observations' = {} /\ high' = [k \in Producer \X Incarnation |-> 0]
      BY <2>1 DEF Clear
    <3>2. Cardinality({}) = 0 /\ IsFiniteSet({})
      BY FS_EmptySet
    <3>3. \A e \in Edge : (Cardinality(ByEdge(e)) <= MaxPerEdge)'
      <4> TAKE e \in Edge
      <4>1. ByEdge(e)' = {}
        BY <3>1 DEF ByEdge
      <4> QED BY <3>2, <4>1, LedgerAssumption
    <3>4. high' \in [Producer \X Incarnation -> Nat]
      BY <3>1
    <3>5. Cardinality(observations') <= MaxObservations /\ IsFiniteSet(observations')
      BY <3>1, <3>2, LedgerAssumption
    <3>6. /\ observations' \subseteq Observation
          /\ \A o, p \in observations' : o.id = p.id => o = p
      BY <3>1
    <3> QED BY <3>3, <3>4, <3>5, <3>6 DEF TypeOK
  <2>2. CASE UNCHANGED vars
    BY <2>2 DEF vars, TypeOK, ByEdge
  <2> QED BY <2>1, <2>2, SubmitBounds DEF Next
<1> QED BY <1>2, <1>3, LedgerKeepsNewest, PTL DEF Spec

=============================================================================
