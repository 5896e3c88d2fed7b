\* A listener removes a client.
SPECIFICATION Spec
CONSTANTS
    Clients = {a, b}
    a = a
    b = b
    Listening = TRUE
    Habits = {"listenersRemove"}
INVARIANTS
    NeverThrows
CHECK_DEADLOCK FALSE
