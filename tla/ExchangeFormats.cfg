CONSTANTS
    Messages <- SomeMessages
    Sizes = {1, 2, 3, 4}
    Hops = {0, 1, 2, 16, 32, 63}
    Digests <- SomeDigests
    Cuts = {0, 1, 16, 40}
    Known <- SomeKnown
\* An exchange comes to an end.
CHECK_DEADLOCK FALSE
SPECIFICATION Spec
INVARIANTS
    UnderstoodAsMeant
    ShortenedIgnored
    AckKnown
    WayBack
    AnswerFits
PROPERTIES
    NewestNameKept
