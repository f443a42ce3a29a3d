\* Any caller that keeps to the tests' protocols, with resets and failures.
SPECIFICATION FairSpec
CONSTANTS
    SrcLen = 5
    DstLen = 8
    TrailerLen = 2
    MaxGrant = 5
INVARIANTS
    InOrder
    NoSpuriousError
PROPERTIES
    KeepsContract
    Ends
