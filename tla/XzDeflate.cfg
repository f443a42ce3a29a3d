\* The callers of the tests and one that also calls with nothing, with resets,
\* failing allocations and an encoder that may run out of memory.
SPECIFICATION FairSpec
CONSTANTS
    SrcLen = 3
    DstLen = 8
    HeaderLen = 2
    TrailerLen = 2
    MaxGrant = 3
INVARIANTS
    InOrder
    RefusedForCause
PROPERTIES
    KeepsContract
    Ends
