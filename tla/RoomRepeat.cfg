CONSTANTS
    alice = alice
    bob = bob
    Clients = {alice, bob}
    Msgs <- OnePost
    Sinces = {0}
    TTL = 0
    MaxSync = 1
    MaxNow = 1
    MaxLogins = 3
    MaxFaults = 0
    MaxCrashes = 0
\* The server waits for packets; the bounds let it run out of them.
CHECK_DEADLOCK FALSE
SPECIFICATION FairSpec
INVARIANTS
    StoredOncePerTTL
PROPERTIES
    SyncEnds
