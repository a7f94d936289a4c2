CONSTANTS
    c1 = c1
    c2 = c2
    x = x
    p1 = p1
    p2 = p2
    p3 = p3
    Clients = {c1}
    Contents = {x}
    Pushes = {p1}
    Dest <- OneDest
    Content <- OneContent
    Hops <- MCHops
    Routes <- OneRoutes
    DirectAttempts = 2
    FloodAttempts = 3
SPECIFICATION FairSpec
INVARIANTS
    TypeOK
PROPERTIES
    PushEnds
