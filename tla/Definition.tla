----------------------------- MODULE Definition -----------------------------
(***************************************************************************)
(* From a topology under construction to the one in force (topology.cpp,   *)
(* wire.cpp, persistence.cpp): records are added one at a time, build puts *)
(* them into canonical form or refuses them, set_topology writes the       *)
(* definition to the store, set_policy writes a policy, and a restart      *)
(* reads both back from their payloads.                                    *)
(*                                                                         *)
(* A label is its length in bytes, the number of continuation bytes that   *)
(* would be split at MaxLabel, the places of its first quote and of its    *)
(* first line break (0: none), and whether the lines after that break, as  *)
(* they are once the label is cut, are ones the reader of a text knows.    *)
(***************************************************************************)
EXTENDS Integers, FiniteSets, Sequences, Functions

CONSTANTS
    Resources,      \* records a caller may add: id, domain, containable, cost, label
    Selectors,      \*   id, label
    Edges,          \*   id, from, to, domain, selectors
    Policies,       \* policies a caller may set: kinds, domains
    MaxResources, MaxSelectors, MaxEdges,   \* Limits
    MaxLabel,       \* 128 bytes
    MaxPolicies,    \* bound: policies set
    NoDefinition, NoPolicy, NoPayload, Refused

Label == [length : Nat, split : Nat, quote : Nat, break : Nat, form : BOOLEAN]
ResourceRecord ==
    [id : Nat, domain : Nat, containable : BOOLEAN, cost : Nat, label : Label]
TrafficSelector == [id : Nat, label : Label]
ForwardingEdge == [id : Nat, from : Nat, to : Nat, domain : Nat, selectors : Seq(Nat)]
ContainmentPolicy == [kinds : Seq(Nat), domains : Seq(Nat)]

\* TopologyDefinition: its records and its indices.
TopologyDefinition ==
    [resources : Seq(ResourceRecord), selectors : Seq(TrafficSelector),
     edges : Seq(ForwardingEdge), byId : Seq(Nat),
     offset : UNION {[0..n -> Nat] : n \in 0..MaxResources}, out : Seq(Nat)]

\* What is sent and stored of one.
Payload ==
    [resources : Seq(ResourceRecord), selectors : Seq(TrafficSelector),
     edges : Seq(ForwardingEdge)]

ASSUME LimitAssumption == {MaxResources, MaxSelectors, MaxEdges, MaxPolicies} \subseteq Nat
ASSUME RecordAssumption ==
    /\ Resources \subseteq ResourceRecord /\ Selectors \subseteq TrafficSelector
    /\ Edges \subseteq ForwardingEdge /\ Policies \subseteq ContainmentPolicy
\* A character is shorter than the bound.
ASSUME LabelAssumption ==
    /\ MaxLabel \in Nat
    /\ \A r \in Resources \cup Selectors : r.label.split <= MaxLabel
ASSUME AbsenceAssumption ==
    /\ NoDefinition # Refused
    /\ NoDefinition \notin TopologyDefinition /\ Refused \notin TopologyDefinition
    /\ Refused \notin ContainmentPolicy /\ NoPayload \notin Payload

VARIABLES
    builder,        \* TopologyBuilder: its three vectors
    definition,     \* what build returned
    installed,      \* Runtime's topology, and the store's
    policy,         \* Runtime's policy, and the store's
    journal,        \* the payloads in the store's document
    open            \* the store could be opened

vars == <<builder, definition, installed, policy, journal, open>>

Built(d) == d \notin {NoDefinition, Refused}

StrictlyIncreasing(s) == \A i \in 1..(Len(s) - 1) : s[i] < s[i + 1]
NonDecreasing(s) == \A i \in 1..(Len(s) - 1) : s[i] <= s[i + 1]

(***************************************************************************)
(* TopologyBuilder.                                                        *)
(***************************************************************************)
\* bounded_text: the text is cut where a character starts, and an ellipsis
\* of three bytes is put after the cut.
Bounded(label) ==
    LET cut == MaxLabel - label.split
    IN  IF label.length <= MaxLabel THEN label
        ELSE [length |-> cut + 3, split |-> 0,
              quote |-> IF label.quote > cut THEN 0 ELSE label.quote,
              break |-> IF label.break > cut THEN 0 ELSE label.break,
              form |-> label.form]

Labelled(record) == [record EXCEPT !.label = Bounded(@)]

ResourceFits(r) == r.id > 0 /\ r.domain > 0 /\ (r.containable => r.cost > 0)
SelectorFits(s) == s.id > 0
EdgeFits(e) ==
    /\ e.id > 0 /\ e.from > 0 /\ e.to > 0 /\ e.domain > 0
    /\ StrictlyIncreasing(e.selectors)

AddResource(r) ==
    /\ definition = NoDefinition
    /\ ResourceFits(r) /\ Len(builder.resources) < MaxResources
    /\ builder' = [builder EXCEPT !.resources = Append(@, Labelled(r))]
    /\ UNCHANGED <<definition, installed, policy, journal, open>>

AddSelector(s) ==
    /\ definition = NoDefinition
    /\ SelectorFits(s) /\ Len(builder.selectors) < MaxSelectors
    /\ builder' = [builder EXCEPT !.selectors = Append(@, Labelled(s))]
    /\ UNCHANGED <<definition, installed, policy, journal, open>>

AddEdge(e) ==
    /\ definition = NoDefinition
    /\ EdgeFits(e) /\ Len(builder.edges) < MaxEdges
    /\ builder' = [builder EXCEPT !.edges = Append(@, e)]
    /\ UNCHANGED <<definition, installed, policy, journal, open>>

(***************************************************************************)
(* std::sort, with the pairs that are in order given: what position each   *)
(* element comes from.  Which of two elements comes first that are not     *)
(* before each other is left open.                                         *)
(***************************************************************************)
Permutation(n) == {p \in [1..n -> 1..n] : \A i \in 1..n : \E j \in 1..n : p[j] = i}

Order(n, before) ==
    CHOOSE p \in Permutation(n) : \A i, j \in 1..n : i < j => <<p[j], p[i]>> \notin before

Sorted(s, Before(_, _)) ==
    LET places == (DOMAIN s) \X (DOMAIN s)
        order == Order(Len(s), {pair \in places : Before(s[pair[1]], s[pair[2]])})
    IN  [i \in DOMAIN s |-> s[order[i]]]

(***************************************************************************)
(* canonicalize_topology.                                                  *)
(***************************************************************************)
IdBefore(a, b) == a.id < b.id

EdgeBefore(e, f) ==
    \/ e.from < f.from
    \/ e.from = f.from /\ e.to < f.to
    \/ e.from = f.from /\ e.to = f.to /\ e.id < f.id

\* Mutant: the loop starts one record late.
NoNeighboursShareIdFromSecond(s) == \A i \in 2..(Len(s) - 1) : s[i].id # s[i + 1].id

NoNeighboursShareId(s) == \A i \in 1..(Len(s) - 1) : s[i].id # s[i + 1].id

\* std::lower_bound by identity, as a position.
LowerBound(s, id) == Cardinality({i \in DOMAIN s : s[i].id < id}) + 1

Find(s, id) ==
    LET i == LowerBound(s, id)
    IN  IF i <= Len(s) /\ s[i].id = id THEN i ELSE 0

EdgeIsDeclared(e, resources, selectors) ==
    /\ \A end \in {e.from, e.to} :
          LET i == Find(resources, end)
          IN  i # 0 /\ resources[i].domain = e.domain
    /\ \A s \in Range(e.selectors) : Find(selectors, s) # 0

\* The number of edges that leave each resource, summed up: edges of the
\* resource at position i are out[offset[i - 1] + 1] .. out[offset[i]].
Offsets(resources, edges) ==
    LET degree(i) == Cardinality({e \in DOMAIN edges :
                                     LowerBound(resources, edges[e].from) = i})
        offset[i \in 0..Len(resources)] ==
            IF i = 0 THEN 0 ELSE offset[i - 1] + degree(i)
    IN  offset

\* Edges are placed in canonical order, each at its source's cursor.
OutList(resources, edges) ==
    LET Place(acc, e) ==
            LET at == LowerBound(resources, edges[e].from) - 1
            IN  [list |-> [acc.list EXCEPT ![acc.cursor[at] + 1] = e],
                 cursor |-> [acc.cursor EXCEPT ![at] = @ + 1]]
        placed[e \in 0..Len(edges)] ==
            IF e = 0 THEN [list |-> [k \in DOMAIN edges |-> 0],
                           cursor |-> Offsets(resources, edges)]
            ELSE Place(placed[e - 1], e)
    IN  placed[Len(edges)].list

EdgesById(edges) ==
    LET places == (DOMAIN edges) \X (DOMAIN edges)
    IN  Order(Len(edges), {pair \in places : IdBefore(edges[pair[1]], edges[pair[2]])})

Indexed(resources, selectors, edges) ==
    [resources |-> resources, selectors |-> selectors, edges |-> edges,
     byId |-> EdgesById(edges),
     offset |-> Offsets(resources, edges),
     out |-> OutList(resources, edges)]

Canonicalized(d) ==
    LET resources == Sorted(d.resources, IdBefore)
        selectors == Sorted(d.selectors, IdBefore)
        edges == Sorted(d.edges, EdgeBefore)
    IN  IF /\ Len(resources) <= MaxResources
           /\ Len(selectors) <= MaxSelectors
           /\ Len(edges) <= MaxEdges
           /\ \A i \in DOMAIN resources : ResourceFits(resources[i])
           /\ \A i \in DOMAIN selectors : SelectorFits(selectors[i])
           /\ \A i \in DOMAIN edges : EdgeFits(edges[i])
           /\ NoNeighboursShareId(resources)
           /\ NoNeighboursShareId(selectors)
           /\ NoNeighboursShareId(edges)
           /\ \A i \in DOMAIN edges : EdgeIsDeclared(edges[i], resources, selectors)
        THEN Indexed(resources, selectors, edges)
        ELSE Refused

Build ==
    /\ definition = NoDefinition
    /\ definition' = Canonicalized(builder)
    /\ UNCHANGED <<builder, installed, policy, journal, open>>

(***************************************************************************)
(* Lookups.                                                                *)
(***************************************************************************)
\* Mutant: the place in the index is taken for the place of the edge.
EdgeIndexUnmapped(d, id) ==
    LET i == Cardinality({k \in DOMAIN d.byId : d.edges[d.byId[k]].id < id}) + 1
    IN  IF i <= Len(d.byId) /\ d.edges[d.byId[i]].id = id THEN i ELSE 0

EdgeIndex(d, id) ==
    LET i == Cardinality({k \in DOMAIN d.byId : d.edges[d.byId[k]].id < id}) + 1
    IN  IF i <= Len(d.byId) /\ d.edges[d.byId[i]].id = id THEN d.byId[i] ELSE 0

OutEdges(d, id) ==
    LET i == Find(d.resources, id)
    IN  IF i = 0 THEN << >> ELSE SubSeq(d.out, d.offset[i - 1] + 1, d.offset[i])

(***************************************************************************)
(* Payloads and text.                                                      *)
(***************************************************************************)
Content(d) == [resources |-> d.resources, selectors |-> d.selectors, edges |-> d.edges]

LabelsOf(d) == {d.resources[i].label : i \in DOMAIN d.resources}
                  \cup {d.selectors[i].label : i \in DOMAIN d.selectors}

\* A reader of either form adds what it reads to a builder of its own.
Rebuilt(content) ==
    IF /\ Len(content.resources) <= MaxResources
       /\ Len(content.selectors) <= MaxSelectors
       /\ Len(content.edges) <= MaxEdges
       /\ \A i \in DOMAIN content.resources : ResourceFits(content.resources[i])
       /\ \A i \in DOMAIN content.selectors : SelectorFits(content.selectors[i])
       /\ \A i \in DOMAIN content.edges : EdgeFits(content.edges[i])
    THEN Canonicalized(
            [content EXCEPT
                !.resources = [i \in DOMAIN @ |-> Labelled(@[i])],
                !.selectors = [i \in DOMAIN @ |-> Labelled(@[i])]])
    ELSE Refused

Encode(d) ==
    IF \E label \in LabelsOf(d) : label.length > MaxLabel THEN NoPayload
    ELSE Content(d)

\* Mutant: a label as long as the bound is refused.
DecodeBelowBound(payload) ==
    IF \E label \in LabelsOf(payload) : label.length >= MaxLabel THEN Refused
    ELSE Rebuilt(payload)

Decode(payload) ==
    IF \E label \in LabelsOf(payload) : label.length > MaxLabel THEN Refused
    ELSE Rebuilt(payload)

\* The text form puts a label between quotes and escapes nothing inside it.
\* The text is cut into lines first, so a label ends at its first quote, or
\* at an earlier line break: then it keeps the quote before it.
ReadBack(label) ==
    LET upTo(length, quote) ==
            [length |-> length, split |-> 0, quote |-> quote, break |-> 0, form |-> FALSE]
    IN  IF label.quote = 0 /\ label.break = 0 THEN label
        ELSE IF label.break = 0 \/ label.quote \in 1..label.break
             THEN upTo(label.quote - 1, 0)
             ELSE upTo(label.break, 1)

ToText(d) == Content(d)

LessThan(i, j) == i < j

\* The rest of a broken label is lines of their own, the last of them with
\* the closing quote: a line the reader does not know refuses the text.  What
\* the lines it does know declare is left out.
FromText(text) ==
    IF \E label \in LabelsOf(text) : label.break # 0 /\ ~ label.form THEN Refused
    ELSE Rebuilt([resources |-> [i \in DOMAIN text.resources |->
                                    [text.resources[i] EXCEPT !.label = ReadBack(@)]],
                  selectors |-> [i \in DOMAIN text.selectors |->
                                    [text.selectors[i] EXCEPT !.label = ReadBack(@)]],
                  edges |-> [i \in DOMAIN text.edges |->
                                [text.edges[i] EXCEPT !.selectors = Sorted(@, LessThan)]]])

\* Mutant: equal neighbours are taken for disorder.
DecodePolicyDistinct(p) ==
    IF /\ Len(p.kinds) <= MaxSelectors /\ StrictlyIncreasing(p.kinds)
       /\ Len(p.domains) <= MaxSelectors /\ StrictlyIncreasing(p.domains)
    THEN p ELSE Refused

\* encode_policy writes any list; decode_policy reads no more entries than
\* the limit on selectors, and only in order.
DecodePolicy(p) ==
    IF /\ Len(p.kinds) <= MaxSelectors /\ NonDecreasing(p.kinds)
       /\ Len(p.domains) <= MaxSelectors /\ NonDecreasing(p.domains)
    THEN p ELSE Refused

(***************************************************************************)
(* Runtime and DurableStore.                                               *)
(***************************************************************************)
TopologyRecord(payload) == [type |-> "topology", payload |-> payload]
PolicyRecord(payload) == [type |-> "policy", payload |-> payload]

SetTopology ==
    LET d == Canonicalized(definition)
    IN  /\ open /\ Built(definition) /\ installed = NoDefinition
        /\ Built(d) /\ Encode(d) # NoPayload
        /\ journal' = Append(journal, TopologyRecord(Encode(d)))
        /\ installed' = d
        /\ UNCHANGED <<builder, definition, policy, open>>

SetPolicy(p) ==
    /\ open
    /\ Cardinality({i \in DOMAIN journal : journal[i].type = "policy"}) < MaxPolicies
    /\ journal' = Append(journal, PolicyRecord(p))
    /\ policy' = p
    /\ UNCHANGED <<builder, definition, installed, open>>

DecodeRecord(record) ==
    IF record.type = "topology" THEN Decode(record.payload)
    ELSE DecodePolicy(record.payload)

\* The records are read in order, each over what the earlier ones left.
Replayed(records) ==
    LET state[n \in 0..Len(records)] ==
            IF n = 0 THEN [topology |-> NoDefinition, policy |-> NoPolicy]
            ELSE IF records[n].type = "topology"
                 THEN [state[n - 1] EXCEPT !.topology = DecodeRecord(records[n])]
                 ELSE [state[n - 1] EXCEPT !.policy = DecodeRecord(records[n])]
    IN  state[Len(records)]

\* One payload that does not decode refuses the whole document.
Opens(records) == \A i \in DOMAIN records : DecodeRecord(records[i]) # Refused

Restart ==
    /\ open
    /\ IF Opens(journal)
       THEN /\ installed' = Replayed(journal).topology
            /\ policy' = Replayed(journal).policy
            /\ UNCHANGED open
       ELSE open' = FALSE /\ UNCHANGED <<installed, policy>>
    /\ UNCHANGED <<builder, definition, journal>>

Init ==
    /\ builder = [resources |-> << >>, selectors |-> << >>, edges |-> << >>]
    /\ definition = NoDefinition /\ installed = NoDefinition
    /\ policy = NoPolicy /\ journal = << >> /\ open = TRUE

Next ==
    \/ \E r \in Resources : AddResource(r)
    \/ \E s \in Selectors : AddSelector(s)
    \/ \E e \in Edges : AddEdge(e)
    \/ Build
    \/ SetTopology
    \/ \E p \in Policies : SetPolicy(p)
    \/ Restart

Spec == Init /\ [][Next]_vars

(***************************************************************************)
(* Properties.                                                             *)
(***************************************************************************)
DistinctIds(s) == \A i, j \in DOMAIN s : i # j => s[i].id # s[j].id

Declared(b) ==
    \A e \in Range(b.edges) :
        /\ \A end \in {e.from, e.to} :
              \E r \in Range(b.resources) : r.id = end /\ r.domain = e.domain
        /\ Range(e.selectors) \subseteq {s.id : s \in Range(b.selectors)}

\* What build returns depends on the set of records added and not on the
\* order of the calls: it accepts every set with unique identities and
\* declared ends, and only sets that are so but for the identities of edges;
\* it keeps every record, and lists each kind once in the one canonical order
\* (topology.hpp:51, topology.cpp:340-395).
CanonicalIsOfTheSet ==
    definition # NoDefinition =>
        /\ /\ DistinctIds(builder.resources) /\ DistinctIds(builder.selectors)
           /\ DistinctIds(builder.edges) /\ Declared(builder)
           => Built(definition)
        /\ Built(definition) =>
              /\ DistinctIds(builder.resources) /\ DistinctIds(builder.selectors)
              /\ Declared(builder)
              /\ StrictlyIncreasing([i \in DOMAIN definition.resources |->
                                        definition.resources[i].id])
              /\ StrictlyIncreasing([i \in DOMAIN definition.selectors |->
                                        definition.selectors[i].id])
              /\ \A i \in 1..(Len(definition.edges) - 1) :
                    EdgeBefore(definition.edges[i], definition.edges[i + 1])
              /\ Range(definition.resources) = Range(builder.resources)
              /\ Range(definition.selectors) = Range(builder.selectors)
              /\ Range(definition.edges) = Range(builder.edges)

\* No two records of one kind in a built definition have one identity, as
\* topology.hpp:116-121 says.  The code compares the identities of neighbours
\* (topology.cpp:374), and edges are not sorted by identity.
IdentitiesAreUnique ==
    Built(definition) =>
        /\ DistinctIds(definition.resources) /\ DistinctIds(definition.selectors)
        /\ DistinctIds(definition.edges)

\* The indices answer for the records they were built from: the edges that
\* leave a resource are all of them and in canonical order, whichever
\* resources have none; an identity that exists is found, and names its edge
\* when no other edge has it (topology.cpp:140-201, 397-433).
LookupsAreRight ==
    Built(definition) =>
        /\ \A r \in Resources :
              LET out == OutEdges(definition, r.id)
              IN  /\ StrictlyIncreasing(out)
                  /\ Range(out) = {e \in DOMAIN definition.edges :
                                      definition.edges[e].from = r.id}
        /\ \A e \in Edges :
              LET named == {i \in DOMAIN definition.edges : definition.edges[i].id = e.id}
                  found == EdgeIndex(definition, e.id)
              IN  IF named = {} THEN found = 0 ELSE found \in named

\* A definition has a payload exactly when none of its labels is over the
\* bound, and then the payload reads back as that definition.  Its text, if no
\* label is over the bound, reads back as that definition exactly when none
\* has a quote or a line break in it (wire.cpp:295-412, topology.cpp:439-662).
TransfersKeepDefinition ==
    Built(definition) =>
        /\ Encode(definition) = NoPayload
              <=> \E label \in LabelsOf(builder) : label.length > MaxLabel
        /\ Encode(definition) # NoPayload =>
              Decode(Encode(definition)) = definition
        /\ (\A label \in LabelsOf(builder) : label.length <= MaxLabel) =>
              (FromText(ToText(definition)) = definition
                  <=> \A label \in LabelsOf(builder) : label.quote = 0 /\ label.break = 0)

InOrder(p) ==
    /\ NonDecreasing(p.kinds) /\ NonDecreasing(p.domains)
    /\ Len(p.kinds) <= MaxSelectors /\ Len(p.domains) <= MaxSelectors

\* A restart gives back the topology and the policy that were in force, as
\* long as every policy ever accepted was in order; a single one that was
\* not, though accepted and later replaced, keeps the store from opening
\* again (persistence.cpp:1222-1236, 1568-1588, wire.cpp:476-481).
RestartReadsWhatIsInForce ==
    /\ open =>
          (Opens(journal) <=> \A i \in DOMAIN journal :
              journal[i].type = "policy" => InOrder(journal[i].payload))
    /\ open /\ Opens(journal) =>
          /\ Replayed(journal).topology = installed
          /\ Replayed(journal).policy = policy

=============================================================================
