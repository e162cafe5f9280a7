SPECIFICATION FairSpec
CONSTANTS
    Segments = {s1, s2}
    NoFile = NoFile
    MaxUpsets = 4
INVARIANTS ClearedForWhole LeftAsFound
PROPERTIES EventuallyFlashed
