SPECIFICATION FairSpec
CONSTANTS
    FaultLimit = 2
    MaxCommands = 3
    Upsets = {"trip", "stop"}
    MaxUpsets = 2
INVARIANTS RestartsNeedCommands
PROPERTIES LinkRestored SessionEnds
