SPECIFICATION FairSpec
CONSTANTS
    Recording = Recording
    Listing = Listing
    NoFile = NoFile
    AckLimit = 2
    MaxRequests = 2
    MaxSize = 2
    MaxPdus = 5
INVARIANTS AcceptedWhole
PROPERTIES Quiesces DestEnds
