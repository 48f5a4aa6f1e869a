SPECIFICATION Spec
CONSTANTS
    o1 = o1
    o2 = o2
    w = w
    x = x
    NoOne = NoOne
    Operator <- MCOperator
    AsWorker <- MCAsWorker
    Worker <- MCWorker
    Stray <- MCStray
    Claims <- MCClaims
    Scripts <- MCScripts
    MaxPeers = 3
INVARIANTS
    TypeOK
    OperatorReadsItsAnswer
    ViewIsNotAhead
    VerifiedUnderItsFence
PROPERTIES
    SessionStaysBound
    RequestsAreAnswered
CHECK_DEADLOCK FALSE
