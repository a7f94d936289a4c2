CONSTANTS
    c1 = c1
    c2 = c2
    x = x
    p1 = p1
    p2 = p2
    p3 = p3
    Clients = {c1, c2}
    Contents = {x}
    Pushes = {p1, p2, p3}
    Dest <- TwinDest
    Content <- TwinContent
    Hops <- MCHops
    Routes <- TwinRoutes
    DirectAttempts = 1
    FloodAttempts = 2
SYMMETRY Twins
SPECIFICATION Spec
INVARIANTS
    AckedImpliesReceived
    WaitersExact
    RouteSound
    GaveUpAfterFlooding
PROPERTIES
    AckWakesAllWaiters
    ImplementsPushOutcome
