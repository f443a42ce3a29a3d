\* All adapters; all but one tell of what fails; four copy.
SPECIFICATION Spec
CONSTANTS
    s1 = s1
    s2 = s2
    Streams <- MCStreams
    Codecs <- MCCodecs
    FailingCodecs <- Telling
    CopyingCodecs <- Sound
    MaxBlocks = 5
INVARIANTS
    FailuresAreHandled
    Private
    NoLeak
CHECK_DEADLOCK FALSE
