CONSTANTS
    n1 = n1
    n2 = n2
    p1 = p1
    p2 = p2
    Nodes = {n1, n2}
    Texts = {"x"}
    Replies = {p1, p2}
    Dest <- TwoDest
    Text <- SameText
    Stamp <- LaterStamp
    HasPath = {p1, p2}
    DirectAttempts = 4
    FloodAttempts = 1
SPECIFICATION FairSpec
INVARIANTS
    AckedAttemptReceived
PROPERTIES
    ReplyEnds
