\* An event loop that dispatches when it is signalled; clients come by either way.
SPECIFICATION FairSpec
CONSTANTS
    Clients = {a, b}
    a = a
    b = b
    Listening = TRUE
    Habits = {"adds", "removes", "listenersAdd", "blocks", "quits"}
INVARIANTS
    TypeOK
    FdsMirrorClients
    NeverThrows
    
    NoMissedWakeup
PROPERTIES
    ServedHadEvents
    EventsAreDispatched
    DestructorReturns
CHECK_DEADLOCK FALSE
