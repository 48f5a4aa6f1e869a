------------------------------ MODULE MCJournal ------------------------------
(* Instances of Journal for model checking. *)
EXTENDS Journal, TLC

CONSTANTS k1, k2

MCKey1 == {k1}
MCKey2 == {k1, k2}
KeySymmetry == Permutations(MCKey2)

==============================================================================
