------------------------------ MODULE Evidence ------------------------------
(***************************************************************************)
(* The evidence ledger of evidence.cpp: which statements of the producers  *)
(* it keeps, and what they prove about a hop.                              *)
(*                                                                         *)
(* A refused submission changes nothing and is no action.  The fence and   *)
(* the tick are arguments of a resolution, not state of the ledger, so the *)
(* properties quantify over them.                                          *)
(***************************************************************************)
EXTENDS Integers, FiniteSets

CONSTANTS
    Edge,
    Producer,           \* producers, ordered as integers
    ObservationId,      \* identities, ordered as integers
    Incarnation,        \* pairs of boot and coordinator epoch
    Binding,            \* triples of fabric epoch and the two generations
    Window,             \* leases: records of the ticks from and until
    Statement,          \* what producers say: records of klass and admitted
    MaxSequence,        \* bound: a producer's sequence numbers
    MaxPerEdge,         \* limits.max_observations_per_edge
    MaxObservations     \* limits.max_observations

\* A Present statement names selectors; `admitted` tells whether the edge
\* admits one of them.  What submit refuses as malformed is no statement.
ASSUME StatementAssumption ==
    \A s \in Statement :
        /\ s.klass \in {"Present", "Absent", "Unknown"}
        /\ s.admitted \in BOOLEAN
        /\ s.admitted => s.klass = "Present"

ASSUME LedgerAssumption ==
    /\ Producer \subseteq Int /\ ObservationId \subseteq Int
    /\ MaxSequence \in Nat
    /\ MaxPerEdge \in Nat \ {0} /\ MaxObservations \in Nat \ {0}

VARIABLES
    observations,   \* observations_, with its indexes by_id_ and by_edge_
    high,           \* producer_high_sequence_
    claims,         \* history: the newest statement of each author on each hop
    lossy           \* history: the hops a statement was evicted from

vars == <<observations, high, claims, lossy>>

Observation ==
    [id : ObservationId, edge : Edge, producer : Producer,
     sequence : 1..MaxSequence, incarnation : Incarnation, binding : Binding,
     lease : Window, said : Statement]

\* The ledger's ProducerKey.
Author(o) == <<o.producer, o.incarnation>>

SameAuthor(o, p) == Author(o) = Author(p)

-----------------------------------------------------------------------------
(* Resolution of a hop                                                     *)

Live(o, now) == o.lease.from <= now /\ now <= o.lease.until

\* Mutant: the newest statement of the hop stands, whoever made it.
SupersededByAnyone(o, candidates) ==
    \E p \in candidates : p.sequence > o.sequence

Superseded(o, candidates) ==
    \E p \in candidates : SameAuthor(o, p) /\ p.sequence > o.sequence

\* The classification, in the code's order of precedence.
BindingOf(o, candidates, incarnation, binding, now) ==
    IF o.incarnation # incarnation THEN "EpochFenced"
    ELSE IF o.binding # binding THEN "GenerationMismatch"
    ELSE IF ~ Live(o, now) THEN "LeaseExpired"
    ELSE IF Superseded(o, candidates) THEN "Superseded"
    ELSE "Exact"

\* resolve_hop_from_observations: definition says what the topology makes of
\* the hop, and candidates are the observations retained for it.
Resolve(definition, candidates, incarnation, binding, now) ==
    LET kind(o) == BindingOf(o, candidates, incarnation, binding, now)
        exact == {o \in candidates : kind(o) = "Exact"}
        unproven == {o \in candidates : kind(o) \notin {"Exact", "Superseded"}}
        present == \E o \in exact : o.said.klass = "Present"
        absent == \E o \in exact : o.said.klass = "Absent"
    IN  IF definition = "Unsupported" THEN "Unsupported"
        ELSE IF definition = "Closed" THEN "ProvenClosed"
        ELSE IF present /\ absent THEN "Conflicted"
        ELSE IF present
             THEN IF \E o \in exact : o.said.admitted
                  THEN "ProvenOpen" ELSE "Unproven"
        ELSE IF absent THEN "ProvenClosed"
        ELSE IF \E o \in unproven : o.said.admitted THEN "UnprovenOpen"
        ELSE "Unproven"

-----------------------------------------------------------------------------
(* The ledger                                                              *)

\* The canonical order of observations: by producer, sequence and identity.
Before(o, p) ==
    \/ o.producer < p.producer
    \/ o.producer = p.producer /\ o.sequence < p.sequence
    \/ o.producer = p.producer /\ o.sequence = p.sequence /\ o.id < p.id

ByEdge(e) == {o \in observations : o.edge = e}

\* Mutant: the last of the canonical order is evicted, not the first.
EvictedLast(e) ==
    {o \in ByEdge(e) :
        Cardinality({p \in ByEdge(e) : Before(p, o)}) >= MaxPerEdge - 1}

\* Mutant: room is made one observation too late.
EvictedLate(e) ==
    {o \in ByEdge(e) :
        Cardinality({p \in ByEdge(e) : Before(o, p)}) >= MaxPerEdge}

\* The first of the canonical order go, until there is room for one more.
Evicted(e) ==
    {o \in ByEdge(e) :
        Cardinality({p \in ByEdge(e) : Before(o, p)}) >= MaxPerEdge - 1}

Init ==
    /\ observations = {}
    /\ high = [k \in Producer \X Incarnation |-> 0]
    /\ claims = {} /\ lossy = {}

\* submit, for an observation that is accepted.
Submit(o) ==
    /\ \A p \in observations : p.id # o.id
    /\ high[Author(o)] < o.sequence
    /\ Cardinality(observations) < MaxObservations
    /\ observations' = (observations \ Evicted(o.edge)) \cup {o}
    /\ high' = [high EXCEPT ![Author(o)] = o.sequence]
    /\ claims' = {c \in claims : c.edge # o.edge \/ ~ SameAuthor(c, o)} \cup {o}
    /\ lossy' = IF Evicted(o.edge) = {} THEN lossy ELSE lossy \cup {o.edge}

\* clear_dynamic_state: nothing is remembered, the sequences included.
Clear ==
    /\ observations' = {}
    /\ high' = [k \in Producer \X Incarnation |-> 0]
    /\ claims' = {} /\ lossy' = {}

Next == (\E o \in Observation : Submit(o)) \/ Clear

Spec == Init /\ [][Next]_vars

-----------------------------------------------------------------------------
(* Properties                                                              *)

\* The ledger stays within both its bounds, and an identity names one
\* retained observation.
TypeOK ==
    /\ observations \subseteq Observation /\ IsFiniteSet(observations)
    /\ Cardinality(observations) <= MaxObservations
    /\ \A e \in Edge : Cardinality(ByEdge(e)) <= MaxPerEdge
    /\ \A o, p \in observations : o.id = p.id => o = p
    /\ high \in [Producer \X Incarnation -> Nat]

\* The claims on a hop that bind exactly the given fence and tick.
ExactClaims(e, incarnation, binding, now) ==
    {c \in claims : /\ c.edge = e /\ c.incarnation = incarnation
                    /\ c.binding = binding /\ Live(c, now)}

Tick == UNION {{w.from, w.until} : w \in Window}

\* A hop is proven open only by a statement its author still stands by:
\* neither an eviction nor a late or repeated submission brings a statement
\* back that its author has since replaced (evidence.cpp:202).
ProvenOpenIsClaimed ==
    \A e \in Edge, i \in Incarnation, b \in Binding, now \in Tick :
        Resolve("Usable", ByEdge(e), i, b, now) = "ProvenOpen"
        => \E c \in ExactClaims(e, i, b, now) : c.said.admitted

\* As long as a hop lost nothing to eviction, every claim on it counts: two
\* claims that disagree are a conflict, whatever else was said before, in
\* another epoch or under another generation.
ContradictionIsSeen ==
    \A e \in Edge \ lossy, i \in Incarnation, b \in Binding, now \in Tick :
        LET said == {c.said.klass : c \in ExactClaims(e, i, b, now)}
        IN  {"Present", "Absent"} \subseteq said
            <=> Resolve("Usable", ByEdge(e), i, b, now) = "Conflicted"

=============================================================================
