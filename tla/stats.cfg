SPECIFICATION Spec
CONSTANTS
    num_workers = 2
    SLABCLASS_MAX_ID = 2
    MaxGets = 1
    MaxConns = 1
INVARIANTS
    HitsWithinKeys
PROPERTIES
    SumsInBetween
    CountersIncrease
    EventuallyCounted
