CONSTANTS
    alice = alice
    bob = bob
    Clients = {alice, bob}
    Msgs <- PostsAndNot
    Sinces = {0, 1}
    TTL = 0
    MaxSync = 2
    MaxNow = 0
    MaxLogins = 2
    MaxFaults = 1
    MaxCrashes = 1
\* The server waits for packets; the bounds let it run out of them.
CHECK_DEADLOCK FALSE
SPECIFICATION Spec
INVARIANTS
    TypeOK
    NoGap
    AckedPostKept
    DurableCursorSound
    FanOutIsDurable
PROPERTIES
    CursorNeverGoesBack
