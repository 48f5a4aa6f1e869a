------------------------------ MODULE Detector ------------------------------
(***************************************************************************)
(* LoopDetector::assess of detect.cpp: one detection question, from the    *)
(* resolved hops to the answer.  A call runs under the runtime's mutex;    *)
(* its steps are those of its searches, so that every bound may stop it    *)
(* wherever it can.  Requests that bind another topology generation or     *)
(* name a malformed scope are answered before anything is searched, and    *)
(* left out.                                                               *)
(***************************************************************************)
EXTENDS Topology

CONSTANTS
    Scope,      \* selector scopes of a request; {} means all
    Limits,     \* limit sets a detector may be given
    Kinds       \* resolutions each edge may have

\* limits_are_sane: no bound is zero.  `validation` is the budget that assess
\* gives the validation of witnesses, which is not configurable.
ASSUME LimitAssumption ==
    /\ Scope \subseteq SUBSET Selector
    /\ Kinds \in [Edge -> SUBSET {"ProvenOpen", "UnprovenOpen", "Unproven",
                                 "Conflicted", "ProvenClosed"}]
    /\ \A l \in Limits :
          \A b \in {"hops", "witnesses", "cycles", "steps", "candidates",
                    "validation"} : l[b] \in Nat \ {0}

VARIABLES
    limits,     \* limits_
    hops,       \* assessment.hops: the resolution of every edge
    scope,      \* request.selector_scope; empty means all
    phase,      \* where the call is
    todo,       \* candidate selectors the existence proof has yet to visit
    found,      \* classes of the cycles whose existence is proved
    steps,      \* edge examinations of the search in progress
    starts,     \* resources the enumeration has yet to start from
    stack,      \* its frames
    listed,     \* witnesses enumerated and not yet validated
    witnesses,  \* assessment.witnesses
    cycles,     \* cycles_enumerated
    cost,       \* validation_cost
    reached,    \* bounds that stopped something
    answer      \* outcome and flags

detectorVars == <<limits, hops, scope, phase, todo, found, steps, starts, stack,
                  listed, witnesses, cycles, cost, reached, answer>>

-----------------------------------------------------------------------------
(* The view of a hop                                                       *)

Open == {"ProvenOpen", "UnprovenOpen"}

Resolution(e) ==
    [resolution : Kinds[e] \cap Open, selectors : SUBSET Admitted[e] \ {{}}]
    \cup [resolution : Kinds[e] \ Open, selectors : {{}}]

Possible(e) == hops[e].resolution # "ProvenClosed"

\* The selectors a hop may carry: those of its evidence, or, where the
\* evidence names none, all that the edge admits.
Source(e) ==
    IF hops[e].resolution \in Open THEN hops[e].selectors ELSE Admitted[e]

Candidates ==
    LET all == UNION {Source(e) : e \in {f \in Edge : Possible(f)}}
    IN  IF scope = {} THEN all ELSE all \cap scope

Mask(e) == Source(e) \cap Candidates

Traversable(e) == Possible(e) /\ Mask(e) # {}

Class(e) ==
    CASE hops[e].resolution = "ProvenOpen" -> 0
      [] hops[e].resolution \in {"UnprovenOpen", "Unproven"} -> 1
      [] hops[e].resolution = "Conflicted" -> 2
      [] OTHER -> 3

-----------------------------------------------------------------------------
(* Existence of cycles                                                     *)

\* The hops usable for one selector, up to a class.
Usable(s, highest) ==
    {e \in Edge : Traversable(e) /\ s \in Mask(e) /\ Class(e) <= highest}

\* Kahn's algorithm: what is left after n rounds of removing the resources
\* that no usable hop from a remaining one enters.
Remaining(usable) ==
    LET left[n \in 0..Cardinality(Resource)] ==
            IF n = 0 THEN Resource
            ELSE {v \in left[n - 1] :
                     \E e \in usable : To[e] = v /\ From[e] \in left[n - 1]}
    IN  left[Cardinality(Resource)]

HasCycle(s, highest) == Remaining(Usable(s, highest)) # {}

\* Mutant: the classes are asked in the wrong order.
ProbedLast(s) ==
    IF HasCycle(s, 2) THEN {2}
    ELSE IF HasCycle(s, 1) THEN {1}
    ELSE IF HasCycle(s, 0) THEN {0}
    ELSE {}

\* The least class of hops with which a cycle exists for the selector.
Probed(s) ==
    IF HasCycle(s, 0) THEN {0}
    ELSE IF HasCycle(s, 1) THEN {1}
    ELSE IF HasCycle(s, 2) THEN {2}
    ELSE {}

-----------------------------------------------------------------------------
(* Witnesses                                                               *)

Nodes(frames) == {frames[i].node : i \in DOMAIN frames}

Path(frames) == [i \in 1..(Len(frames) - 1) |-> frames[i + 1].via]

Top == stack[Len(stack)]

\* Selectors common to the path and one more hop.
Common(e) == Top.mask \cap Mask(e)

\* The enumeration starts a cycle at its least resource, so that the cycle
\* is in canonical rotation as it is found.
Witness(e) ==
    LET path == Append(Path(stack), e)
    IN  [cycle |-> [i \in DOMAIN path |-> From[path[i]]],
         hops |-> path, selectors |-> Common(e)]

Precedes(w, v) ==
    \/ Len(w.cycle) < Len(v.cycle)
    \/ Len(w.cycle) = Len(v.cycle) /\ LexLess(w.cycle, v.cycle)
    \/ w.cycle = v.cycle /\ LexLess(w.hops, v.hops)

\* Mutant: a hop that is proved open is not looked up in the definition.
ValidAsResolved(w) ==
    /\ Len(w.hops) <= limits.hops /\ w.selectors # {}
    /\ \A i \in DOMAIN w.hops :
          /\ hops[w.hops[i]].resolution = "ProvenOpen"
          /\ w.selectors \subseteq hops[w.hops[i]].selectors

\* WitnessValidator::validate, at the fence of the assessment itself: the
\* hop is resolved again from the same evidence, and the definition must be
\* certain of the hop, which the resolution does not ask.  Its checks of
\* form (closed, simple, canonical) hold of all that CloseCycle lists.
Valid(w) ==
    /\ Len(w.hops) <= limits.hops /\ w.selectors # {}
    /\ \A i \in DOMAIN w.hops :
          /\ w.hops[i] \notin Uncertain
          /\ hops[w.hops[i]].resolution = "ProvenOpen"
          /\ w.selectors \subseteq hops[w.hops[i]].selectors

-----------------------------------------------------------------------------
(* The call                                                                *)

Pending == [outcome |-> "None", limit |-> FALSE, additional |-> FALSE]

\* Every table of hop resolutions, one edge after the other.
HopTables ==
    LET tables[n \in 0..Cardinality(Edge)] ==
            IF n = 0 THEN {<<>>}
            ELSE {Append(t, r) : t \in tables[n - 1], r \in Resolution(n)}
    IN  tables[Cardinality(Edge)]

DetectorInit ==
    /\ hops \in HopTables
    /\ scope \in Scope /\ limits \in Limits
    /\ phase = "asked" /\ todo = {} /\ found = {} /\ steps = 0
    /\ starts = {} /\ stack = <<>> /\ listed = {} /\ witnesses = <<>>
    /\ cycles = 0 /\ cost = 0 /\ reached = {} /\ answer = Pending

Request == <<limits, hops, scope>>
Existence == <<todo, found>>
Enumeration == <<starts, stack, cycles>>
Result == <<witnesses, cost, answer>>

\* Too many selectors to ask about: the question is not answered.
TooMany ==
    /\ phase = "asked" /\ Cardinality(Candidates) > limits.candidates
    /\ phase' = "answered"
    /\ answer' = [outcome |-> "Indeterminate", limit |-> TRUE,
                  additional |-> FALSE]
    /\ UNCHANGED <<Request, Existence, steps, Enumeration, listed,
                   witnesses, cost, reached>>

Begin ==
    /\ phase = "asked" /\ Cardinality(Candidates) <= limits.candidates
    /\ phase' = "existence" /\ todo' = Candidates
    /\ UNCHANGED <<Request, found, steps, Enumeration, listed, Result,
                   reached>>

\* One selector of the existence proof.  Its step count covers every edge
\* and is compared only afterwards.
Probe ==
    /\ phase = "existence" /\ todo # {}
    /\ steps' = steps + Cardinality(Edge)
    /\ IF steps' > limits.steps
       THEN /\ reached' = reached \cup {"existence"}
            /\ phase' = "validation" /\ UNCHANGED Existence
       ELSE /\ found' = found \cup Probed(Least(todo))
            /\ todo' = todo \ {Least(todo)}
            /\ UNCHANGED <<phase, reached>>
    /\ UNCHANGED <<Request, Enumeration, listed, Result>>

\* All selectors are probed; only a proved cycle is worth enumerating.
Probes ==
    /\ phase = "existence" /\ todo = {}
    /\ phase' = IF 0 \in found THEN "enumeration" ELSE "validation"
    /\ starts' = Resource /\ steps' = 0
    /\ UNCHANGED <<Request, Existence, stack, cycles, listed, Result,
                   reached>>

ProvenOut(v) ==
    {e \in Edge : Traversable(e) /\ Class(e) = 0 /\ From[e] = v}

\* Mutant: only the step bound stops the enumeration.
StoppedBySteps == "steps" \in reached

Stopped == reached \cap {"cycles", "steps"} # {}

Start ==
    /\ phase = "enumeration" /\ stack = <<>> /\ starts # {} /\ ~ Stopped
    /\ LET v == Least(starts)
       IN  /\ stack' = <<[node |-> v, via |-> Least(Edge),
                          untried |-> ProvenOut(v), mask |-> Candidates]>>
           /\ starts' = starts \ {v}
    /\ UNCHANGED <<Request, phase, Existence, steps, cycles, listed,
                   Result, reached>>

Enumerated ==
    /\ phase = "enumeration"
    /\ Stopped \/ (stack = <<>> /\ starts = {})
    /\ phase' = "validation"
    /\ UNCHANGED <<Request, Existence, steps, Enumeration, listed,
                   Result, reached>>

Backtrack ==
    /\ phase = "enumeration" /\ stack # <<>> /\ ~ Stopped
    /\ Top.untried = {}
    /\ stack' = SubSeq(stack, 1, Len(stack) - 1)
    /\ UNCHANGED <<Request, phase, Existence, steps, starts, cycles,
                   listed, Result, reached>>

\* The next hop of the frame on top is examined.
Examine(e) ==
    /\ phase = "enumeration" /\ stack # <<>> /\ ~ Stopped
    /\ Top.untried # {} /\ e = Least(Top.untried)
    /\ steps' = steps + 1
    /\ UNCHANGED <<Request, phase, Existence, starts, Result>>

Tried(e) == [stack EXCEPT ![Len(stack)].untried = @ \ {e}]

OutOfSteps(e) ==
    /\ Examine(e) /\ steps' > limits.steps
    /\ reached' = reached \cup {"steps"} /\ stack' = Tried(e)
    /\ UNCHANGED <<cycles, listed>>

Closes(e) == Common(e) # {} /\ To[e] = stack[1].node

Extends(e) ==
    /\ Common(e) # {} /\ To[e] > stack[1].node /\ To[e] \notin Nodes(stack)

DeadEnd(e) ==
    /\ Examine(e) /\ steps' <= limits.steps
    /\ ~ Closes(e) /\ ~ Extends(e)
    /\ stack' = Tried(e)
    /\ UNCHANGED <<cycles, listed, reached>>

CloseCycle(e) ==
    /\ Examine(e) /\ steps' <= limits.steps /\ Closes(e)
    /\ cycles' = cycles + 1 /\ stack' = Tried(e)
    /\ listed' = IF cycles' > limits.cycles THEN listed
                 ELSE listed \cup {Witness(e)}
    /\ reached' = IF cycles' > limits.cycles \/ Cardinality(listed') >= limits.witnesses
                  THEN reached \cup {"cycles"} ELSE reached

Depth ==
    IF limits.hops < Cardinality(Resource)
    THEN limits.hops ELSE Cardinality(Resource)

ReachLength(e) ==
    /\ Examine(e) /\ steps' <= limits.steps /\ Extends(e) /\ Len(stack) >= Depth
    /\ reached' = reached \cup {"length"} /\ stack' = Tried(e)
    /\ UNCHANGED <<cycles, listed>>

Descend(e) ==
    /\ Examine(e) /\ steps' <= limits.steps /\ Extends(e) /\ Len(stack) < Depth
    /\ stack' = Append(Tried(e), [node |-> To[e], via |-> e,
                                  untried |-> ProvenOut(To[e]),
                                  mask |-> Common(e)])
    /\ UNCHANGED <<cycles, listed, reached>>

\* One witness is validated, in canonical order.  The first is validated
\* whatever it costs.
Validate ==
    /\ phase = "validation" /\ listed # {}
    /\ LET w == CHOOSE x \in listed : \A y \in listed \ {x} : Precedes(x, y)
           price == Len(w.hops) * (Cardinality(Edge) + 1)
       IN  /\ listed' = listed \ {w}
           /\ IF witnesses # <<>> /\ cost + price > limits.validation
              THEN /\ reached' = reached \cup {"validation"}
                   /\ UNCHANGED <<cost, witnesses>>
              ELSE /\ cost' = cost + price
                   /\ witnesses' = IF Valid(w) THEN Append(witnesses, w)
                                   ELSE witnesses
                   /\ UNCHANGED reached
    /\ UNCHANGED <<Request, phase, Existence, steps, Enumeration, answer>>

\* Mutant: only the bounds on the number of cycles count.
BoundedInNumber == "cycles" \in reached

\* Bounds that may have kept a cycle from being listed, as far as assess
\* remembers them.
Bounded == reached \cap {"cycles", "length"} # {}

\* Mutant: only what was found counts, not what was left unasked.
OutcomeOfFound ==
    IF 0 \in found
    THEN IF witnesses # <<>> THEN "LoopConfirmed" ELSE "Indeterminate"
    ELSE IF 2 \in found THEN "Conflict"
    ELSE IF 1 \in found THEN "Unknown"
    ELSE "NoLoop"

Outcome ==
    IF 0 \in found
    THEN IF witnesses # <<>> THEN "LoopConfirmed" ELSE "Indeterminate"
    ELSE IF "existence" \in reached THEN "Indeterminate"
    ELSE IF 2 \in found THEN "Conflict"
    ELSE IF 1 \in found THEN "Unknown"
    ELSE "NoLoop"

Answer ==
    /\ phase = "validation" /\ listed = {}
    /\ phase' = "answered"
    /\ answer' = [outcome |-> Outcome,
                  limit |-> \/ Bounded \/ "existence" \in reached
                            \/ 0 \in found /\ witnesses = <<>>,
                  additional |-> witnesses # <<>> /\ Bounded]
    /\ UNCHANGED <<Request, Existence, steps, Enumeration, listed,
                   witnesses, cost, reached>>

DetectorNext ==
    \/ TooMany \/ Begin \/ Probe \/ Probes
    \/ Start \/ Enumerated \/ Backtrack
    \/ \E e \in Edge :
          OutOfSteps(e) \/ DeadEnd(e) \/ CloseCycle(e) \/ ReachLength(e)
          \/ Descend(e)
    \/ Validate \/ Answer

-----------------------------------------------------------------------------
(* Properties                                                              *)

\* The simple cycles of the definition, each from its least resource.
Loops ==
    {h \in UNION {[1..n -> Edge] : n \in 1..Cardinality(Resource)} :
        /\ \A i \in DOMAIN h : To[h[i]] = From[h[(i % Len(h)) + 1]]
        /\ \A i, j \in DOMAIN h : From[h[i]] = From[h[j]] => i = j
        /\ \A i \in DOMAIN h : From[h[1]] <= From[h[i]]}

\* The selectors for which every hop of the loop is of at most the class.
Carried(h, highest) ==
    {s \in Candidates : \A i \in DOMAIN h :
        Possible(h[i]) /\ s \in Mask(h[i]) /\ Class(h[i]) <= highest}

Listed == {witnesses[i] : i \in DOMAIN witnesses}

LoopsUpTo(s, highest) == {h \in Loops : s \in Carried(h, highest)}

\* Every variable is well typed, the stack is a simple path of the proven
\* graph, and no more is listed than the limits allow.
DetectorTypeOK ==
    /\ phase \in {"asked", "existence", "enumeration", "validation",
                  "answered", "returned"}
    /\ todo \subseteq Candidates /\ found \subseteq 0..2
    /\ Cardinality(Nodes(stack)) = Len(stack) /\ Len(stack) <= Depth
    /\ Cardinality(listed) <= limits.witnesses
    /\ cycles <= limits.cycles + 1
    /\ reached \subseteq {"existence", "steps", "cycles", "length",
                          "validation"}
    /\ answer \in [outcome : {"None", "NoLoop", "LoopConfirmed", "Unknown",
                              "Conflict", "Indeterminate"},
                   limit : BOOLEAN, additional : BOOLEAN]

\* NoLoop is a proof of absence: whatever bound was reached, no candidate
\* selector has a cycle of hops that may be open (README, invariant 3).
NoLoopIsProved ==
    answer.outcome = "NoLoop" => \A s \in Candidates : LoopsUpTo(s, 2) = {}

\* A witness is a simple cycle in canonical form, every hop of it proved
\* open by the evidence and certain in the definition, for exactly the
\* selectors that all its hops carry; and there is one only in a
\* confirmation (README, invariants 1 and 5; detect.hpp:75).
WitnessesAreLoops ==
    /\ \A w \in Listed :
          /\ w.hops \in Loops
          /\ w.cycle = [i \in DOMAIN w.hops |-> From[w.hops[i]]]
          /\ w.selectors = Carried(w.hops, 0) /\ w.selectors # {}
          /\ \A i \in DOMAIN w.hops : w.hops[i] \notin Uncertain
    /\ phase = "answered" =>
          (witnesses # <<>> <=> answer.outcome = "LoopConfirmed")

\* A confirmation that does not say otherwise lists every proven loop of a
\* certain definition, unless the step bound or the validation budget cut
\* the list, which no flag tells.
ListIsComplete ==
    answer.outcome = "LoopConfirmed" /\ ~ answer.additional
    /\ reached \cap {"steps", "validation"} = {}
    => \A h \in Loops :
          Carried(h, 0) # {} /\ (\A i \in DOMAIN h : h[i] \notin Uncertain)
          => \E w \in Listed : w.hops = h

\* Without a bound reached, the answer names the weakest evidence a loop
\* rests on for some selector: unknown if all loops of every selector need
\* a hop that is not proved, conflict if some selector has loops only
\* through a hop that contradicts itself (README, invariant 2).
AnswerIsGraded ==
    LET proven == \E s \in Candidates : LoopsUpTo(s, 0) # {}
        conflict == \E s \in Candidates :
                        LoopsUpTo(s, 1) = {} /\ LoopsUpTo(s, 2) # {}
        possible == \E s \in Candidates : LoopsUpTo(s, 1) # {}
    IN  phase = "answered" /\ ~ answer.limit =>
            CASE proven -> answer.outcome = "LoopConfirmed"
              [] ~ proven /\ conflict -> answer.outcome = "Conflict"
              [] ~ proven /\ ~ conflict /\ possible ->
                    answer.outcome = "Unknown"
              [] OTHER -> answer.outcome = "NoLoop"

=============================================================================
