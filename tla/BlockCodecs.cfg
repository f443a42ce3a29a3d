\* All five block codecs, pieces of any size, attempts that fail and resets.
SPECIFICATION FairSpec
CONSTANTS
    InLen = 3
    OutLen = 5
    PropsLen = 2
    DstLen = 7
INVARIANTS
    Whole
PROPERTIES
    KeepsContract
    Ends
