SPECIFICATION FairSpec
CONSTANTS
    GroundModes <- AllModes
    NumAxes = 2
INVARIANTS AllOrNothing
PROPERTIES NotStarved QuietIdle DetumbleEnds
