SPECIFICATION Spec
CONSTANTS
    w1 = w1
    r1 = r1
    r2 = r2
    Witness = {w1}
    Resource = {r1}
    LastId = 2
    MaxFindings = 1
    MaxPlans = 1
    MaxLineage = 1
    AckLimit = 1
    StoreMayFail = TRUE
    NoPlan = NoPlan
    NoIntent = NoIntent
    MaxTick = 0
    MaxMoves = 1
    MaxGeneration = 2
    MaxHeld = 1
    MaxIntents = 2
    Cover <- MCCover
INVARIANTS
    LiveFindingsCurrent
CHECK_DEADLOCK FALSE
