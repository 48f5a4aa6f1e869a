SPECIFICATION Spec
CONSTANTS
    w1 = w1
    r1 = r1
    r2 = r2
    Witness = {w1}
    Resource = {r1, r2}
    LastId = 1
    MaxFindings = 1
    MaxPlans = 1
    MaxLineage = 3
    AckLimit = 1
    StoreMayFail = FALSE
    NoPlan = NoPlan
    NoIntent = NoIntent
    MaxTick = 1
    MaxMoves = 1
    MaxGeneration = 1
    MaxHeld = 1
    MaxIntents = 2
    Cover <- MCCover
SYMMETRY ResourceSymmetry
INVARIANTS
    VerifiedIsObserved
    LineageCoversAuthority
CHECK_DEADLOCK FALSE
