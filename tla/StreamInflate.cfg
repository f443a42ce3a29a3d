\* All five decoders, the callers of the tests and one that finishes, resets,
\* failing allocations and decoders that run out of memory.
SPECIFICATION FairSpec
CONSTANTS
    StreamLen = 5
    PlainLen = 3
    PropsLen = 2
    DstLen = 4
    MaxGrant = 5
INVARIANTS
    InOrder
PROPERTIES
    KeepsContract
    
