\* The tests' protocols, with resets and failing calls.
SPECIFICATION FairSpec
CONSTANTS
    SrcLen = 4
    DstLen = 7
    EpilogueLen = 2
    MaxGrant = 4
INVARIANTS
    InOrder
PROPERTIES
    KeepsContract
    Ends
