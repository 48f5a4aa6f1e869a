----------------------------- MODULE MCAnalysis -----------------------------
(* Instances of Analysis for TLC: three resources whose edges make up the   *)
(* loops 1-2, 2-3, 1-3-2 and, through an uncertain edge, 1-3; limits of     *)
(* which each cuts something off; a policy for every set of eligible        *)
(* resources.                                                               *)
EXTENDS Analysis

MCFrom == <<1, 1, 2, 2, 3, 3>>
MCTo == <<2, 3, 1, 3, 1, 2>>
MCAdmitted == <<{1}, {2}, {1, 2}, {2}, {2}, {2}>>
MCUncertain == {5}
All == {"ProvenOpen", "UnprovenOpen", "Unproven", "Conflicted", "ProvenClosed"}
MCKinds ==
    <<All, {"ProvenOpen", "Conflicted", "ProvenClosed"}, All,
      {"ProvenOpen", "Unproven", "ProvenClosed"}, {"ProvenOpen", "ProvenClosed"},
      All>>
MCCost == <<1, 2, 1>>
MCScope == {{}, {2}}

Ample == [hops |-> 4, witnesses |-> 4, cycles |-> 9, steps |-> 99,
          candidates |-> 2, validation |-> 99]

MCLimits ==
    {Ample, [Ample EXCEPT !.hops = 2], [Ample EXCEPT !.witnesses = 1],
     [Ample EXCEPT !.cycles = 1], [Ample EXCEPT !.candidates = 1],
     [Ample EXCEPT !.steps = 6], [Ample EXCEPT !.validation = 14]}

MCPolicy ==
    [eligible : SUBSET {1, 2, 3}, targets : {1}, cost : {1}, nodes : {1, 3, 99}]

=============================================================================
