----------------------------- MODULE FenceVector -----------------------------
(***************************************************************************)
(* The six-component fence vector every externally visible decision of     *)
(* Loop Guard binds, and the rule that names the component that moved.     *)
(***************************************************************************)
EXTENDS Naturals

\* The components, in the order fence_cause compares them.
Precedence ==
    <<"boot", "epoch", "fabric", "topology", "forwarding", "policy">>

Component ==
    {"boot", "epoch", "fabric", "topology", "forwarding", "policy"}

Fence == [Component -> Nat]

\* Mutant: the comparison stops before the policy generation.
FenceCauseButPolicy(candidate, current) ==
    LET moved == {i \in 1..5 :
                    candidate[Precedence[i]] # current[Precedence[i]]}
    IN  IF moved = {}
        THEN "none"
        ELSE Precedence[CHOOSE i \in moved : \A j \in moved : i <= j]

\* What fence_cause answers: a component, or "none" when the vectors are equal.
FenceCause(candidate, current) ==
    IF candidate = current
    THEN "none"
    ELSE LET first == CHOOSE i \in 1..6 :
                 /\ candidate[Precedence[i]] # current[Precedence[i]]
                 /\ \A j \in 1..(i - 1) :
                       candidate[Precedence[j]] = current[Precedence[j]]
         IN  Precedence[first]

\* Every component of `later` is at least that of `earlier`.
Dominates(later, earlier) ==
    \A c \in Component : earlier[c] <= later[c]

==============================================================================
