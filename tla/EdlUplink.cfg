SPECIFICATION FairSpec
CONSTANTS
    Kinds <- EveryKind
    MaxSeq = 2
    FlightMode = TRUE
    MaxPackets = 2
    MaxReceived = 4
    MaxResets = 1
INVARIANT InOrder
INVARIANT NoneOlder
PROPERTY AcknowledgedArrives
