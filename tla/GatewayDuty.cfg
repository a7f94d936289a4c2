CONSTANTS
    Window = 4
    Budget = 3
    Airtimes = {1, 2, 4}
    MaxBackoff = 2
SPECIFICATION FairSpec
INVARIANTS
    DutyCyclePerConnection
PROPERTIES
    MessageTransmitted
