------------------------------ MODULE Analysis ------------------------------
(***************************************************************************)
(* A caller that detects and then has containment planned for what was     *)
(* found, as the sessions of the coordinator do: the plan is made from the *)
(* assessment the detector returned and from nothing else it computed.     *)
(***************************************************************************)
EXTENDS Detector, Planner

CONSTANT Policy     \* policies that may be in force

\* policy.nodes is the node budget in effect, 0 replaced by the default.
ASSUME PolicyAssumption ==
    \A p \in Policy :
        /\ p.eligible \subseteq Containable
        /\ p.targets \in Nat /\ p.cost \in Nat /\ p.nodes \in Nat \ {0}

vars == <<detectorVars, planVars>>

Init == DetectorInit /\ PlanIdle

Assess == DetectorNext /\ UNCHANGED planVars

\* The detector is done with; what it worked on is forgotten.
Forget ==
    /\ limits' = CHOOSE l \in Limits : TRUE
    /\ hops' = [e \in Edge |->
                   [resolution |-> "ProvenClosed", selectors |-> {}]]
    /\ scope' = {} /\ phase' = "returned" /\ todo' = {} /\ found' = {}
    /\ steps' = 0 /\ starts' = {} /\ stack' = <<>> /\ listed' = {}
    /\ witnesses' = <<>> /\ cycles' = 0 /\ cost' = 0 /\ reached' = {}
    /\ answer' = Pending

PlanContainment ==
    /\ phase = "answered"
    /\ \E p \in Policy : BeginPlan(witnesses, p)
    /\ Forget

Plan == PlanStep /\ UNCHANGED detectorVars

Next == Assess \/ PlanContainment \/ Plan

Spec == Init /\ [][Next]_vars

TypeOK == DetectorTypeOK /\ PlannerTypeOK

=============================================================================
