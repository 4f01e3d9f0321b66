CONSTANTS
    s = s
    a = a
    Nobody = Nobody
    Actors <- ActorsDef
    Sup <- s
    MaxRequests = 2
    MaxReplies = 2
SPECIFICATION Spec
CHECK_DEADLOCK FALSE
INVARIANTS
    TypeOK
    AtMostOneAnswer
    RequestsHaveTimers
PROPERTIES
    ImplementsExchange
    EveryRequestSettles
