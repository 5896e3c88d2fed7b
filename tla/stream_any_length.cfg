\* Messages as long as the buffer of a read.
CONSTANTS
    Buffer = 2
    Chunk = 3
    Capacity <- StreamCapacity
    Lengths = {2}
    FatalLength = 2
    MaxSent <- StreamMaxSent

SPECIFICATION Spec
CHECK_DEADLOCK FALSE
INVARIANT ContentOfAnyLength
