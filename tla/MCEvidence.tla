----------------------------- MODULE MCEvidence -----------------------------
(* Small instances of Evidence: leases that overlap, but not throughout. *)
EXTENDS Evidence, TLC

MCWindow == {[from |-> 0, until |-> 1], [from |-> 1, until |-> 1]}

Says(klass, admitted) == [klass |-> klass, admitted |-> admitted]

MCStatement == {Says("Present", TRUE), Says("Absent", FALSE)}

\* Incarnations are compared for equality only.
IncarnationSymmetry == Permutations(Incarnation)

=============================================================================
