SPECIFICATION Spec
CONSTANTS
    Key = {k1, k2}
    Conn = {c1, c2}
    NoKey = NoKey
    NoItem = NoItem
    max_nslab = 1
    max_nitem = 2
    nitem <- TwoOne
    capacity <- TwoOneCapacity
    SLAB_LRU_MAX_TRIES = 2
    SLAB_LRU_UPDATE_INTERVAL = 1
    ITEM_UPDATE_INTERVAL = 1
    ITEM_LRUQ_MAX_TRIES = 2
    UseCas = TRUE
    RefMod = 16
    TimeMod = 64
    TIME_MAXDELTA = 20
    process_started = 30
    InitEvict = {}
    Junk = {0}
    IlistMax = 1
    Request = {"set", "cas", "append", "prepend", "add", "replace"}
    NByte = {1, 3}
    Digits = {1, 2}
    Ttl = {1}
    FlushArg = {}
    EvictChoice = {{"RS"}}
    ClockStep = {1}
    MaxTime = 3
    MaxCas = 3
    MaxLeak = 1
    Faults = {"overlong"}
SYMMETRY Symmetry
INVARIANTS
    TypeOK
    RefcountExact
    HashMatchesLinked
    NreadPrivate
    ChunksAccounted
PROPERTIES
    HeldItemsKept
    ImplementsStore
