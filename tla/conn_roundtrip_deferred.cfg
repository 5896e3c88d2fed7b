\* A roundtrip returns before a deferred request was even sent.
SPECIFICATION Spec
CONSTANTS
    Protocols = {p1}
    ServerVer <- MCServerVer
    ClientVer <- MCClientVer
    Requests = {"make", "destroy"}
    Events = {}
    SplitReads = FALSE
    Listened = {"request", "make", "destroy"}
    AnswersLater = FALSE
    MaxQueue = 1
    Dispatches = {"block"}
    MaxSeq = 3
    MaxRound = 1
    MaxDepth = 1
    MaxPending = 2
    Impatient = FALSE
    Reckless = FALSE
    Hasty = FALSE
    Blames = FALSE
    StrayToServer = {}
    StrayToClient = {}
    Forgetful = FALSE
    p1 = p1
INVARIANTS
    RoundtripCoversAsked
CHECK_DEADLOCK FALSE
