\* One connection.  A message fits in a read, spans two, or is longer than what
\* the kernel takes at once; batches can fill reads exactly.  What the server may
\* send is below what its socket holds, what the client may send is above.
CONSTANTS
    Buffer = 2
    Chunk = 3
    Capacity <- StreamCapacity
    Lengths = {1, 3, 5}
    FatalLength = 1
    MaxSent <- StreamMaxSent

SPECIFICATION Spec
CHECK_DEADLOCK FALSE
INVARIANTS TypeOK WholeMessagesOnly OnlyFullReadsGoOn
PROPERTIES ClientWriteReturns BytesAreHandled
