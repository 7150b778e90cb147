SPECIFICATION Spec
CONSTANTS
    Key <- SevenKeys
    Item <- Items7
    item_key <- KeyOf
    hash <- HashOf
    NoItem = NoItem
    NULL = NULL
    settings_hash_power = 0
    HASH_DEFAULT_POWER = 1
    nhash_move_size = 1
    MaxPower = 3
INVARIANTS
    Reachable
    NoLostWakeup
PROPERTIES
    ImplementsMap
    ExpansionEnds
