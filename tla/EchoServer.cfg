CONSTANTS
    s1 = s1
    Senders = {s1}
    Adverts <- NameChanges
    Configured = {s1}
    Packets <- Copies
    TTL = 1
    Delay = 0
    MaxNow = 2
    MaxFaults = 1
    MaxCrashes = 2
SPECIFICATION Spec
INVARIANTS
    CacheCurrent
    ReplyPathFresh
    LongestPathUsed
    EchoedOncePerTTL
    AckedIsEchoed
PROPERTIES
    NamesNeverRevert
