SPECIFICATION Spec
CONSTANTS
    num_workers = 2
    maxconns = 2
    MaxPending = 2
    MaxNotify = 1
    Faults = {"nonblock", "malloc", "read", "event"}
CHECK_DEADLOCK FALSE
INVARIANTS
    SocketsOwned
    Notified
PROPERTIES
    Served
