------------------------------ MODULE MCRuntime ------------------------------
(* Small instances of Runtime: what each witness set is planned to cut. *)
EXTENDS Runtime, TLC

CONSTANTS w1, r1, r2

MCCover == [W \in SUBSET Witness |-> IF W = {} THEN {} ELSE Resource]

\* MCCover treats resources alike, so exchanging them changes nothing.
ResourceSymmetry == Permutations(Resource)

==============================================================================
