SPECIFICATION Spec
CONSTANTS
    Size <- MCSize
    HeaderUnits = 2
    Ceiling = 6
    Capacity = 5
INVARIANTS
    TypeOK
    DeliveredInOrder
    FailureHasACause
PROPERTY
    FramesArrive
CHECK_DEADLOCK FALSE
