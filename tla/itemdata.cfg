SPECIFICATION DataSpec
CONSTANTS
    SLABCLASS_MAX_ID = 4
    MC_ALIGNMENT = 2
    ITEM_MIN_CHUNK_SIZE = 2
    Item = {i1, i2, i3}
    NoItem = NoItem
    Reader = {r1}
    profile <- TwoClasses
    HDR_LEN = 2
    CRLF_LEN = 1
    Base = 2
    UINT64_MAX = 7
    Space = Space
    Junk = Junk
    Key = Key
    Value <- Values
    Delta = {1, 6}
SYMMETRY Symmetry
INVARIANTS
    ValueInside
    ValueIntended
    SentAsStored
    NumbersExact
    SlabIdExact
