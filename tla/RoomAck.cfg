CONSTANTS
    alice = alice
    bob = bob
    Clients = {alice, bob}
    Msgs <- OnePost
    Sinces = {0}
    TTL = 0
    MaxSync = 2
    MaxNow = 0
    MaxLogins = 1
    MaxFaults = 0
    MaxCrashes = 1
CHECK_DEADLOCK FALSE
SPECIFICATION Spec
INVARIANTS
    AckedImpliesStored
