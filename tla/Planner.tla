------------------------------ MODULE Planner -------------------------------
(***************************************************************************)
(* ContainmentPlanner::plan of containment.cpp: from the witnesses of an   *)
(* assessment and a policy to a set of resources to contain, with the      *)
(* exhaustive search for the cheapest set, the validation of the plan and  *)
(* its application to a shadow definition.                                 *)
(*                                                                         *)
(* A witness has an identity that nothing assigns (witness.hpp:33): every  *)
(* lookup by identity finds the first witness.                             *)
(***************************************************************************)
EXTENDS Topology

VARIABLES
    loops,      \* the witnesses, in the order of the assessment
    policy,     \* what may be contained, and the budgets
    stage,      \* where the call is
    frames,     \* of the search: the options each branch has yet to try
    chosen,     \* current_
    nodes,      \* nodes_
    best,       \* the incumbent: best_ and have_best_
    plan        \* outcome, targets, within_policy_budget and recommendation

planVars == <<loops, policy, stage, frames, chosen, nodes, best, plan>>

Elements(s) == {s[i] : i \in DOMAIN s}

CostOf(S) ==
    LET upTo[n \in 0..Cardinality(Resource)] ==
            IF n = 0 THEN 0
            ELSE upTo[n - 1] + (IF n \in S THEN Cost[n] ELSE 0)
    IN  upTo[Cardinality(Resource)]

-----------------------------------------------------------------------------
(* The hitting set instance and its search                                 *)

\* The sets to hit: the eligible resources of each loop.
Options(i) == Elements(loops[i].cycle) \cap policy.eligible

Unhittable == {i \in DOMAIN loops : Options(i) = {}}

Uncovered(S) == {i \in DOMAIN loops : Options(i) \cap S = {}}

\* The uncovered set with the fewest options, the first of them.
BranchSet(S) ==
    CHOOSE i \in Uncovered(S) : \A j \in Uncovered(S) :
        \/ Cardinality(Options(i)) < Cardinality(Options(j))
        \/ Cardinality(Options(i)) = Cardinality(Options(j)) /\ i <= j

\* objective_better: cost, then number, then order of the sorted sequences,
\* which for sets of one size the least resource of only one of them decides.
Better(S, T) ==
    \/ CostOf(S) < CostOf(T)
    \/ /\ CostOf(S) = CostOf(T)
       /\ \/ Cardinality(S) < Cardinality(T)
          \/ /\ Cardinality(S) = Cardinality(T) /\ S # T
             /\ Least((S \ T) \cup (T \ S)) \in S

None == [have |-> FALSE, targets |-> {}]

\* Mutant: a branch of equal cost is not worth a visit.
PrunedAtCost(S, r) ==
    best.have /\ CostOf(S) + Cost[r] >= CostOf(best.targets)

Pruned(S, r) == best.have /\ CostOf(S) + Cost[r] > CostOf(best.targets)

-----------------------------------------------------------------------------
(* Targets                                                                 *)

\* std::binary_search, halving as lower_bound does, on a sequence that need
\* not be sorted: a cycle starts with its least resource and goes on in the
\* order of its hops.
Found(r, s) ==
    LET halve[n \in 0..Len(s)] ==
            IF n = 0 THEN [first |-> 1, len |-> Len(s)]
            ELSE LET p == halve[n - 1]
                     half == p.len \div 2
                 IN  IF p.len = 0 THEN p
                     ELSE IF s[p.first + half] < r
                     THEN [first |-> p.first + half + 1,
                           len |-> p.len - half - 1]
                     ELSE [first |-> p.first, len |-> half]
        at == halve[Len(s)].first
    IN  at <= Len(s) /\ s[at] = r

Implicated(r) == {i \in DOMAIN loops : Found(r, loops[i].cycle)}

\* The hops of a loop that enter or leave a resource.
HopsAt(r, i) ==
    {e \in Elements(loops[i].hops) : From[e] = r \/ To[e] = r}

\* build_targets.
Target(r) ==
    [resource |-> r,
     selectors |-> UNION {loops[i].selectors : i \in Implicated(r)},
     hops |-> UNION {HopsAt(r, i) : i \in Implicated(r)}]

\* greedy_recommendation: the option that hits most sets, the cheapest and
\* then the least of them, until all are hit.
Gain(r, S) == Cardinality({i \in Uncovered(S) : r \in Options(i)})

Greedier(r, q, S) ==
    \/ Gain(r, S) > Gain(q, S)
    \/ Gain(r, S) = Gain(q, S) /\ Cost[r] < Cost[q]
    \/ Gain(r, S) = Gain(q, S) /\ Cost[r] = Cost[q] /\ r <= q

Greedy ==
    LET step[n \in 0..Cardinality(Resource)] ==
            IF n = 0 THEN {}
            ELSE LET S == step[n - 1]
                     open == UNION {Options(i) : i \in Uncovered(S)}
                 IN  IF open = {} THEN S
                     ELSE S \cup {CHOOSE r \in open :
                                     \A q \in open : Greedier(r, q, S)}
    IN  step[Cardinality(Resource)]

-----------------------------------------------------------------------------
(* The plan and its validator                                              *)

Solution ==
    IF Unhittable # {} THEN "ProvenInfeasible"
    ELSE IF best.have
         THEN IF nodes > policy.nodes THEN "PlanFeasible" ELSE "PlanOptimal"
    ELSE "SearchLimitReached"

\* PlanValidator::validate, on a plan the planner made.  The certificate
\* names a witness by its identity.
Accepted(outcome, targets) ==
    CASE outcome = "ProvenInfeasible" -> Options(1) = {}
      [] outcome \in {"PlanOptimal", "PlanFeasible"} ->
            /\ targets # {} /\ targets \subseteq policy.eligible
            /\ \A r \in targets : Implicated(r) # {}
            /\ \A i \in DOMAIN loops : Elements(loops[i].cycle) \cap targets # {}
      [] OTHER -> targets = {}

Refused ==
    [outcome |-> "Invalid", targets |-> {}, within |-> FALSE, advice |-> {}]

MadePlan ==
    LET outcome == Solution
        targets == IF outcome = "ProvenInfeasible" THEN {} ELSE best.targets
        advice == IF outcome \in {"PlanFeasible", "SearchLimitReached"}
                  THEN Greedy ELSE {}
    IN  IF Accepted(outcome, targets)
        THEN [outcome |-> outcome, targets |-> {Target(r) : r \in targets},
              within |-> /\ outcome \in {"PlanOptimal", "PlanFeasible"}
                         /\ Cardinality(targets) <= policy.targets
                         /\ CostOf(targets) <= policy.cost,
              advice |-> advice]
        ELSE [Refused EXCEPT !.advice = advice]

-----------------------------------------------------------------------------
(* The call                                                                *)

Unplanned ==
    [outcome |-> "None", targets |-> {}, within |-> FALSE, advice |-> {}]

PlanIdle ==
    /\ loops = <<>> /\ policy = [eligible |-> {}, targets |-> 0, cost |-> 0,
                                 nodes |-> 0]
    /\ stage = "idle" /\ frames = <<>> /\ chosen = <<>> /\ nodes = 0
    /\ best = None /\ plan = Unplanned

\* A plan is asked for.  Without a confirmed loop none is required.
BeginPlan(ws, p) ==
    /\ stage = "idle"
    /\ loops' = ws /\ policy' = p
    /\ IF ws = <<>>
       THEN /\ stage' = "planned"
            /\ plan' = [Unplanned EXCEPT !.outcome = "NotRequired"]
       ELSE stage' = "enter" /\ UNCHANGED plan
    /\ UNCHANGED <<frames, chosen, nodes, best>>

NothingHits ==
    /\ stage = "enter" /\ Unhittable # {}
    /\ stage' = "solved"
    /\ UNCHANGED <<loops, policy, frames, chosen, nodes, best, plan>>

\* search(), up to its branches.
Enter ==
    /\ stage = "enter" /\ Unhittable = {}
    /\ nodes' = nodes + 1
    /\ UNCHANGED <<loops, policy, plan>>

Exhaust ==
    /\ Enter /\ nodes' > policy.nodes
    /\ stage' = "solved"
    /\ UNCHANGED <<frames, chosen, best>>

\* Everything is hit: a candidate.  The search goes back to its caller.
Leaf ==
    /\ Enter /\ nodes' <= policy.nodes /\ Uncovered(Elements(chosen)) = {}
    /\ best' = IF ~ best.have \/ Better(Elements(chosen), best.targets)
               THEN [have |-> TRUE, targets |-> Elements(chosen)] ELSE best
    /\ chosen' = SubSeq(chosen, 1, Len(chosen) - 1)
    /\ stage' = "branch" /\ UNCHANGED frames

Branch ==
    /\ Enter /\ nodes' <= policy.nodes /\ Uncovered(Elements(chosen)) # {}
    /\ frames' = Append(frames, Options(BranchSet(Elements(chosen))))
    /\ stage' = "branch" /\ UNCHANGED <<chosen, best>>

\* The next option of the innermost branch.
Try ==
    /\ stage = "branch" /\ frames # <<>> /\ frames[Len(frames)] # {}
    /\ LET r == Least(frames[Len(frames)])
       IN  /\ frames' = [frames EXCEPT ![Len(frames)] = @ \ {r}]
           /\ IF Pruned(Elements(chosen), r)
              THEN UNCHANGED <<chosen, stage>>
              ELSE chosen' = Append(chosen, r) /\ stage' = "enter"
    /\ UNCHANGED <<loops, policy, nodes, best, plan>>

Return ==
    /\ stage = "branch" /\ frames # <<>> /\ frames[Len(frames)] = {}
    /\ frames' = SubSeq(frames, 1, Len(frames) - 1)
    /\ IF chosen = <<>>
       THEN stage' = "solved" /\ UNCHANGED chosen
       ELSE chosen' = SubSeq(chosen, 1, Len(chosen) - 1) /\ UNCHANGED stage
    /\ UNCHANGED <<loops, policy, nodes, best, plan>>

MakePlan ==
    /\ stage = "solved"
    /\ stage' = "planned" /\ plan' = MadePlan
    /\ UNCHANGED <<loops, policy, frames, chosen, nodes, best>>

PlanStep ==
    NothingHits \/ Exhaust \/ Leaf \/ Branch \/ Try \/ Return \/ MakePlan

-----------------------------------------------------------------------------
(* The shadow definition                                                   *)

\* apply_containment_shadow: a target takes all its selectors from each of
\* its hops.
Shadow(e) ==
    Admitted[e] \ UNION {t.selectors : t \in {u \in plan.targets : e \in u.hops}}

-----------------------------------------------------------------------------
(* Properties                                                              *)

Affirmative == plan.outcome \in {"PlanOptimal", "PlanFeasible"}

Targeted == {t.resource : t \in plan.targets}

Hits(S) == \A i \in DOMAIN loops : Elements(loops[i].cycle) \cap S # {}

\* The search chooses eligible resources, one in each branch that is open,
\* within its node budget, and holds an incumbent that hits every loop.
PlannerTypeOK ==
    /\ stage \in {"idle", "enter", "branch", "solved", "planned"}
    /\ policy.eligible \subseteq Containable
    /\ Elements(chosen) \subseteq policy.eligible
    /\ stage = "enter" => Len(chosen) = Len(frames)
    /\ stage = "branch" => Len(frames) = Len(chosen) + 1
    /\ nodes <= policy.nodes + 1
    /\ best.have => best.targets \subseteq policy.eligible /\ Hits(best.targets)

\* A plan called optimal is the best of all eligible sets that hit every
\* loop, by the objective of solve_hitting_set_reference, and the pruning of
\* the search never loses it.
OptimalIsBest ==
    plan.outcome = "PlanOptimal" =>
        /\ Targeted \subseteq policy.eligible /\ Hits(Targeted)
        /\ \A S \in SUBSET policy.eligible : Hits(S) => ~ Better(S, Targeted)

\* Whatever the search bound cut off, the plan or the recommendation it
\* leaves the operator with breaks every loop with eligible resources.
CutShortStillHits ==
    stage = "planned" /\ nodes > policy.nodes =>
        /\ plan.advice \subseteq policy.eligible /\ Hits(plan.advice)
        /\ Affirmative => Targeted \subseteq policy.eligible /\ Hits(Targeted)

\* Containment is called impossible only if it is: a loop has no eligible
\* resource.
InfeasibleIsCertain ==
    plan.outcome = "ProvenInfeasible" =>
        \E i \in DOMAIN loops : Elements(loops[i].cycle) \cap policy.eligible = {}

\* The shadow definition loses a selector of an edge only where the edge is a
\* hop of a confirmed loop at a target, and only one that some confirmed loop
\* through that target goes round on (README, invariant 8).
OnlyLoopsAreCut ==
    \A e \in Edge : \A s \in Admitted[e] \ Shadow(e) :
        \E r \in Targeted \cap {From[e], To[e]} :
            /\ \E i \in DOMAIN loops : e \in Elements(loops[i].hops)
            /\ \E i \in DOMAIN loops :
                  s \in loops[i].selectors /\ r \in Elements(loops[i].cycle)

\* What the shadow definition is for (containment.hpp:200-202): in it, no
\* selector of a confirmed loop can still go round, if the loop visits its
\* resources in their order.  For another loop the binary search may miss a
\* target, and the loop may stay.
LoopsInOrderAreBroken ==
    Affirmative => \A i \in DOMAIN loops :
        (\A j \in 1..(Len(loops[i].cycle) - 1) : loops[i].cycle[j] < loops[i].cycle[j + 1])
            => \A s \in loops[i].selectors :
                  \E e \in Elements(loops[i].hops) : s \notin Shadow(e)

\* A plan says no more than was searched and does what it says, however the
\* bound cut the search (containment.cpp:128-330, 590-760).
PlanIsHonest ==
    /\ OptimalIsBest
    /\ CutShortStillHits
    /\ InfeasibleIsCertain
    /\ OnlyLoopsAreCut
    /\ LoopsInOrderAreBroken

=============================================================================
