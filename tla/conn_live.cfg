\* Calls return though either end may vanish or fail, and objects let go are destroyed.
SPECIFICATION FairSpec
CONSTANTS
    Protocols = {p1}
    ServerVer <- MCServerVer1
    ClientVer <- MCClientVer
    Requests = {"make", "destroy"}
    Events = {}
    SplitReads = FALSE
    Listened = {"request", "make", "destroy"}
    AnswersLater = FALSE
    MaxQueue = 1
    Dispatches = {"block"}
    MaxSeq = 2
    MaxRound = 1
    MaxDepth = 1
    MaxPending = 2
    Impatient = FALSE
    Reckless = TRUE
    Hasty = TRUE
    Blames = TRUE
    StrayToServer = {}
    StrayToClient = {}
    Forgetful = TRUE
    p1 = p1
PROPERTIES
    ObjectsAsPromised
    HandshakeReturns
    BindReturns
    RoundtripReturns
    LostIsDestroyed
    ErrorInBatchTerminates
    
CHECK_DEADLOCK FALSE
