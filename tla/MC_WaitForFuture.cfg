CONSTANTS
    w1 = w1
    w2 = w2
    w3 = w3
    Waiters <- MCWaiters
    CallbackIfReady = TRUE
SPECIFICATION Spec
INVARIANTS
    ReturnsOnlyWhenComplete
PROPERTIES
    ImplementsContract
CHECK_DEADLOCK FALSE
