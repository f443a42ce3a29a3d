CONSTANTS
    Lengths = {0, 1, 2, 5, 12, 14}
    Rooms = {1, 3, 5, 6, 11, 12, 16, 23}
    UInt = 12
    ULong = 24
    Growth = 2
    PropsLen = 1
SPECIFICATION FairSpec
INVARIANT Truthful
PROPERTIES InsideRoom 
CHECK_DEADLOCK FALSE
