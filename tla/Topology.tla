------------------------------ MODULE Topology ------------------------------
(***************************************************************************)
(* A canonical topology definition, as canonicalize_topology of            *)
(* topology.cpp leaves it.  Resources and edges are their positions in the *)
(* definition, so comparing positions compares identities, and the edges   *)
(* of one pair of resources are in the order of their own.                 *)
(***************************************************************************)
EXTENDS Integers, FiniteSets, Sequences

CONSTANTS
    Resource, Edge,     \* positions
    Selector,
    From, To,           \* the endpoints of an edge
    Admitted,           \* the selectors an edge admits
    Uncertain,          \* edges with an endpoint or link in an unknown state
    Containable,        \* resources the definition allows to contain
    Cost                \* containment_cost of a resource

\* What the builder and the canonicalisation ensure or refuse: positions
\* follow the order of resources, and of edges by source and destination;
\* endpoints and selectors are declared; what may be contained costs
\* something.  An edge and its endpoints share one domain, so that a cycle
\* never crosses domains.
Canonical ==
    /\ Resource = 1..Cardinality(Resource) /\ IsFiniteSet(Resource)
    /\ Edge = 1..Cardinality(Edge) /\ IsFiniteSet(Edge)
    /\ From \in [Edge -> Resource] /\ To \in [Edge -> Resource]
    /\ \A e, f \in Edge : e < f =>
          From[e] < From[f] \/ (From[e] = From[f] /\ To[e] <= To[f])
    /\ Selector \subseteq Nat /\ IsFiniteSet(Selector)
    /\ Admitted \in [Edge -> SUBSET Selector]
    /\ Uncertain \subseteq Edge /\ Containable \subseteq Resource
    /\ Cost \in [Resource -> Nat]
    /\ \A r \in Containable : Cost[r] >= 1

ASSUME TopologyAssumption == Canonical

Least(S) == CHOOSE x \in S : \A y \in S : x <= y

\* Lexicographical order of sequences of one length.
LexLess(s, t) ==
    \E i \in DOMAIN s : s[i] < t[i] /\ \A j \in 1..(i - 1) : s[j] = t[j]

=============================================================================
