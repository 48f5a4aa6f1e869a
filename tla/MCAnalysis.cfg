SPECIFICATION Spec
CONSTANTS
    Resource = {1, 2, 3}
    Edge = {1, 2, 3, 4, 5, 6}
    Selector = {1, 2}
    Uncertain <- MCUncertain
    Containable = {1, 2, 3}
    From <- MCFrom
    To <- MCTo
    Admitted <- MCAdmitted
    Cost <- MCCost
    Scope <- MCScope
    Kinds <- MCKinds
    Limits <- MCLimits
    Policy <- MCPolicy
CHECK_DEADLOCK FALSE
INVARIANTS
    TypeOK
    NoLoopIsProved
    WitnessesAreLoops
    ListIsComplete
    AnswerIsGraded
    PlanIsHonest
