\* Binding, creating, calling, destroying and letting go of objects; one roundtrip.
SPECIFICATION Spec
CONSTANTS
    Protocols = {p1}
    ServerVer <- MCServerVer
    ClientVer <- MCClientVer
    Requests = {"make", "destroy"}
    Events = {}
    SplitReads = TRUE
    Listened = {"request", "make", "destroy"}
    AnswersLater = FALSE
    MaxQueue = 1
    Dispatches = {"block"}
    MaxSeq = 3
    MaxRound = 1
    MaxDepth = 1
    MaxPending = 2
    Impatient = FALSE
    Reckless = FALSE
    Hasty = FALSE
    Blames = FALSE
    StrayToServer = {}
    StrayToClient = {}
    Forgetful = TRUE
    p1 = p1
PROPERTIES
    ObjectsAsPromised
INVARIANTS
    TypeOK
    IdsMatch
    VersionsAgreeOnBind
    DeferredKept
    DestructorsArrive
    ConformingIsNotBlamed
    RoundtripCoversSent
CHECK_DEADLOCK FALSE
