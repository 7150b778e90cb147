SPECIFICATION Spec
CONSTANTS
    Key = {k1, k2}
    Conn = {c1, c2}
    NoKey = NoKey
    NoItem = NoItem
    max_nslab = 2
    max_nitem = 1
    nitem <- One
    capacity <- OneCapacity
    SLAB_LRU_MAX_TRIES = 1
    SLAB_LRU_UPDATE_INTERVAL = 0
    ITEM_UPDATE_INTERVAL = 0
    ITEM_LRUQ_MAX_TRIES = 1
    UseCas = FALSE
    RefMod = 16
    TimeMod = 64
    TIME_MAXDELTA = 20
    process_started = 30
    InitEvict <- LruCs
    Junk = {2}
    IlistMax = 1
    Request = {"set"}
    NByte = {1}
    Digits = {}
    Ttl = {0}
    FlushArg = {0}
    EvictChoice = {}
    ClockStep <- ForthAndBack
    MaxTime = 4
    MaxCas = 0
    MaxLeak = 0
    Faults = {"malloc", "iov", "udp"}
SYMMETRY Symmetry
INVARIANTS
    RefcountExact
    ChunksAccounted
    NoAssertFails
PROPERTIES
    OomJustified
    LruqKept
    FlushComplete
