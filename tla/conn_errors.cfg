\* A filter, an application that binds what it should not, events and requests a
\* version lacks, errors, timeouts, hasty ends, peers of another make.
SPECIFICATION Spec
CONSTANTS
    Protocols = {p1, p2}
    ServerVer <- MCServerVer1
    ClientVer <- MCClientVer1
    Requests = {"request2", "destroy"}
    Events = {"event2", "gone"}
    SplitReads = FALSE
    Listened = {"request", "request2"}
    AnswersLater = FALSE
    MaxQueue = 1
    Dispatches = {"noblock"}
    MaxSeq = 1
    MaxRound = 0
    MaxDepth = 1
    MaxPending = 1
    Impatient = TRUE
    Reckless = TRUE
    Hasty = TRUE
    Blames = TRUE
    StrayToServer <- MCStrayToServer
    StrayToClient <- MCStrayToClient
    Forgetful = TRUE
    p1 = p1
    p2 = p2
INVARIANTS
    HandshakeAgreed
    FilterRespected
    ErrorIsTold
    EventsFollowNewObject
CHECK_DEADLOCK FALSE
