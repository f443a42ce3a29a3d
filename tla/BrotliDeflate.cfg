\* zlib's protocol with resets; the encoder may run out of memory.
SPECIFICATION FairSpec
CONSTANTS
    SrcLen = 2
    DstLen = 5
    TailLen = 2
    MaxTotal = 4
INVARIANTS
    InOrder
PROPERTIES
    KeepsContract
    Ends
