\* Streams and one-shots over sources longer than a block.
SPECIFICATION FairSpec
CONSTANTS
    PlainLen = 6
    TailLen = 2
    MaxChunk = 4
    OneChunk = 3
    DeflateMin = 3
    InflateMin = 1
    MaxGrant = 6
INVARIANTS
    InOrder
PROPERTIES
    KeepsContract
    RoomDecides
    Returns
    NeverInVain
