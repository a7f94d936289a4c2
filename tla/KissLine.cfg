CONSTANTS
    Frames <- GatewayFrames
    Tails <- SomeTails
    MaxFrames = 2
    MaxLost = 2
\* The line falls silent once the bounded number of frames has been sent.
CHECK_DEADLOCK FALSE
SPECIFICATION RxSpec
INVARIANTS
    BusInOrder
    ReconnectCostsNothing
    LossAccounted
