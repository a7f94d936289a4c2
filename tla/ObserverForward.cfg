CONSTANTS
    Targets <- TwoTargets
    Raws <- SomeRaws
    MaxBackoff = 2
    Seeds = {s1, s2}
    Envs = {"unset", "malformed", "seed"}
SPECIFICATION Spec
INVARIANTS
    OriginKept
    HashIdentifiesPacket
    OnlineIsTrue
PROPERTIES
    ConnectedGetEvery
    TargetRetried
