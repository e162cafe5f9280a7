SPECIFICATION Spec
CONSTANTS
    Kinds <- FileAfterCommand
    MaxSeq = 7
    FlightMode = TRUE
    MaxPackets = 3
    MaxReceived = 4
    MaxResets = 0
PROPERTY AcknowledgedRuns
