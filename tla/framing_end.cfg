SPECIFICATION Spec
CONSTANTS
    Scripts <- AnyTwo
    TCP_BUFFER_SIZE = 2
    RSIZE_HIGHWAT = 4
    MAX_LINE = 2
    MAX_ALLOCS = 2
    reqs_per_event = 1
    SndBuf = 2
    MaxHits = 1
    Faults = {"iov"}
CHECK_DEADLOCK FALSE
INVARIANTS
    EndSent
