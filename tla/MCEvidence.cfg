SPECIFICATION Spec
CONSTANTS
    Edge = {e1}
    Producer = {1, 2}
    ObservationId = {1, 2, 3}
    Incarnation = {b1, b2}
    Binding = {g1}
    Window <- MCWindow
    Statement <- MCStatement
    MaxSequence = 2
    MaxPerEdge = 2
    MaxObservations = 3
SYMMETRY IncarnationSymmetry
INVARIANTS
    TypeOK
    ProvenOpenIsClaimed
    ContradictionIsSeen
CHECK_DEADLOCK FALSE
