\* Two streams and two hardware queues: one opens, resets or is copied over
\* while the other unwinds, or finds that the queues are lost.
SPECIFICATION FairSpec
CONSTANTS
    Clients = {s1, s2}
    Queues = {q1, q2}
    NoQueue = none
INVARIANTS
    NothingLeft
PROPERTIES
    ToldTruly
    AllOrNothing
    Returns
