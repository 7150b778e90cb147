------------------------------ MODULE AssocMap ------------------------------
(***************************************************************************)
(* What the hash table promises the item code, which calls it under        *)
(* cache_lock: a map from keys to items that changes by the insertion of   *)
(* an item whose key is absent and by the deletion of a key, and in no     *)
(* other way.  This is the field hash of module Slabs.                     *)
(***************************************************************************)
CONSTANTS
    Key,
    Item,
    item_key,       \* the key of each item
    NoItem

VARIABLE map

Init == map = [k \in Key |-> NoItem]

Insert(it) ==
    /\ map[item_key[it]] = NoItem
    /\ map' = [map EXCEPT ![item_key[it]] = it]

Delete(k) ==
    /\ map[k] # NoItem
    /\ map' = [map EXCEPT ![k] = NoItem]

Next ==
    \/ \E it \in Item : Insert(it)
    \/ \E k \in Key : Delete(k)

Spec == Init /\ [][Next]_map
=============================================================================
