SPECIFICATION Spec
CONSTANTS
    KLOG_ENTRY_SIZE = 3
    klog_entry = 2
    KLOG_MAX_SIZE = 4
    SampleRate = {1, 2}
    EntryLen = {0, 1, 2}
    Faults = {"short", "first", "second", "reopen"}
    MaxByte = 9
    MaxFail = 1
INVARIANTS
    RingFaithful
    FileComplete
PROPERTIES
    DiscardOnlyWhenFull
    Drained
