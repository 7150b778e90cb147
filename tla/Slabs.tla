------------------------------- MODULE Slabs --------------------------------
(***************************************************************************)
(* The slab allocator (mc_slabs.c).  Memory is a fixed number of slabs; a  *)
(* slab belongs to one slab class and is carved into equal chunks, each an *)
(* item.  Item i of slab s is the pair <<s, i>>, which plays the part of   *)
(* the item's address.                                                     *)
(*                                                                         *)
(* Everything here runs under cache_lock (slab_lock nests in it and guards *)
(* nothing that is touched without cache_lock), so each function is an     *)
(* operator from the guarded memory h to the memory it leaves, and the     *)
(* modules that extend this one compose them into whole critical sections. *)
(* The fields of h are listed at HeapType.                                 *)
(***************************************************************************)
EXTENDS Queues

CONSTANTS
    Key,                \* keys of cached items
    NoKey,              \* key of an item that carries none
    NoItem,             \* the NULL item pointer
    max_nslab,          \* heapinfo.max_nslab: slabs the heap may hold
    max_nitem,          \* most items a slab of any class is carved into
    nitem,              \* slabclass[id].nitem, for each class id
    capacity,           \* payload bytes an item of class id can hold
    SLAB_LRU_MAX_TRIES, \* slabs of the slab lruq an eviction looks at
    SLAB_LRU_UPDATE_INTERVAL,
    RefMod,             \* 2^16: refcounts are uint16_t
    TimeMod,            \* 2^32: rel_time_t is an unsigned int
    InitEvict,          \* settings.evict_opt at start
    Junk                \* what the utime of a slab fresh from malloc may be

VARIABLES
    now,                \* time_now(): seconds since start, as last stored
    evict_opt           \* settings.evict_opt, as the set of its bits

Slab  == 1..max_nslab
Class == DOMAIN nitem
Item  == Slab \X (1..max_nitem)
MaybeItem == Item \cup {NoItem}
MaybeKey == Key \cup {NoKey}
EvictBit == {"LRU", "RS", "AS", "CS"}
ItemFlag == {"LINKED", "SLABBED", "RALIGN"}

ASSUME SlabAssumption ==
    /\ NoKey \notin Key
    /\ NoItem \notin Item
    /\ max_nslab \in Nat
    /\ max_nitem \in Nat
    /\ nitem \in Seq(1..max_nitem)
    /\ capacity \in [DOMAIN nitem -> Nat]
    /\ SLAB_LRU_MAX_TRIES \in Nat
    /\ SLAB_LRU_UPDATE_INTERVAL \in Nat
    /\ RefMod \in Nat \ {0}
    /\ TimeMod \in Nat \ {0}
    /\ InitEvict \subseteq EvictBit
    /\ Junk \subseteq Nat

\* mc.c turns both the item lruq and the free queue off as sources of items
\* when, and only when, the server is started with -M 8 exactly.
use_lruq  == InitEvict # {"CS"}
use_freeq == InitEvict # {"CS"}

-----------------------------------------------------------------------------
\* The parts of an item header that say what the item stores.
ItemHdr == [key : MaybeKey, nbyte : Nat, exptime : Nat, atime : Nat,
            cas : Nat]

\* The header of a free item.  The code leaves the old contents there; they
\* are not read again before item_alloc and item_link_q write them, so
\* wherever an item becomes free the model forgets them (and ITEM_RALIGN).
Blank == [key |-> NoKey, nbyte |-> 0, exptime |-> 0, atime |-> 0, cas |-> 0]

\* Where the code asserts something about items and slabs.
AssertName ==
    {"slab_get", "slab_get_item_from_freeq", "slab_put_item_into_freeq",
     "slab_evict_one", "slab_table_rand", "slab_release_refcount",
     "item_release_refcount", "item_alloc", "item_link", "item_link_q",
     "item_relink", "item_remove", "item_reuse", "item_touch", "item_delta",
     "item_flush_expired", "assoc_insert", "assoc_delete"}

\* The memory guarded by cache_lock.
HeapType ==
    [flags         : [Item -> SUBSET ItemFlag],
     refcount      : [Item -> Nat],
     hdr           : [Item -> ItemHdr],
     slab_class    : [Slab -> Class \cup {0}],  \* 0: not allocated yet
     slab_refcount : [Slab -> Nat],
     utime         : [Slab -> Nat],
     nslab         : 0..max_nslab,
     slab_lruq     : Seq(Slab),
     free_item     : [Class -> MaybeItem],
     free_itemq    : [Class -> Seq(Item)],
     item_lruq     : [Class -> Seq(Item)],
     hash          : [MaybeKey -> MaybeItem],   \* what assoc_find finds
     cas_id        : Nat,
     failed        : SUBSET AssertName]         \* ASSERTs that did not hold

InitHeap ==
    [flags         |-> [it \in Item |-> {}],
     refcount      |-> [it \in Item |-> 0],
     hdr           |-> [it \in Item |-> Blank],
     slab_class    |-> [s \in Slab |-> 0],
     slab_refcount |-> [s \in Slab |-> 0],
     utime         |-> [s \in Slab |-> 0],
     nslab         |-> 0,
     slab_lruq     |-> << >>,
     free_item     |-> [c \in Class |-> NoItem],
     free_itemq    |-> [c \in Class |-> << >>],
     item_lruq     |-> [c \in Class |-> << >>],
     hash          |-> [k \in MaybeKey |-> NoItem],
     cas_id        |-> 0,
     failed        |-> {}]

\* ASSERT(ok): remember the names of the assertions that failed.
Check(h, ok, name) ==
    [h EXCEPT !.failed = IF ok THEN @ ELSE @ \cup {name}]

item_is_linked(h, it)   == "LINKED"  \in h.flags[it]
item_is_slabbed(h, it)  == "SLABBED" \in h.flags[it]
item_is_raligned(h, it) == "RALIGN"  \in h.flags[it]

item_2_slab(it) == it[1]

\* it->id: item_hdr_init writes it for all items of a slab right after
\* slab_hdr_init wrote slab->id, and nothing else does.
item_id(h, it) == h.slab_class[item_2_slab(it)]

\* The chunks slab s is carved into.
slab_items(h, s) ==
    {it \in Item : item_2_slab(it) = s /\ h.slab_class[s] # 0
                   /\ it[2] <= nitem[h.slab_class[s]]}

\* slab_id, item_slabid: the least class whose items hold nbyte bytes, or 0
\* (SLABCLASS_INVALID_ID).
item_slabid(nbyte) ==
    LET fits == {id \in Class : nbyte <= capacity[id]}
    IN  IF fits = {} THEN 0
        ELSE CHOOSE id \in fits : \A j \in fits : id <= j

\* uint16_t increment, and rel_time_t subtraction.
RefInc(n) == IF n + 1 = RefMod THEN 0 ELSE n + 1
TimeSub(t, d) == IF t >= d THEN t - d ELSE t + TimeMod - d

-----------------------------------------------------------------------------
slab_acquire_refcount(h, s) == [h EXCEPT !.slab_refcount[s] = RefInc(@)]

slab_release_refcount(h, s) ==
    [Check(h, h.slab_refcount[s] > 0, "slab_release_refcount")
        EXCEPT !.slab_refcount[s] = IF @ = 0 THEN RefMod - 1 ELSE @ - 1]

\* Mutant: the slab is appended without being removed first.
slab_lruq_touch_bug(h, s, allocated) ==
    [h EXCEPT !.utime[s] = now, !.slab_lruq = Append(@, s)]

\* Move a slab to the tail of the slab lruq, unless the eviction policy does
\* not look at it or it was moved within SLAB_LRU_UPDATE_INTERVAL seconds.
slab_lruq_touch(h, s, allocated) ==
    IF /\ (allocated /\ "CS" \in evict_opt) \/ "AS" \in evict_opt
       /\ h.utime[s] < TimeSub(now, SLAB_LRU_UPDATE_INTERVAL)
    THEN [h EXCEPT !.utime[s] = now,
                   !.slab_lruq = Append(Without(@, {s}), s)]
    ELSE h

\* Put an item at the head of the free queue of its class.
slab_put_item(h, it) ==
    LET id == item_id(h, it)
        ok == /\ ~item_is_linked(h, it)
              /\ ~item_is_slabbed(h, it)
              /\ h.refcount[it] = 0
    IN  [Check(h, ok, "slab_put_item_into_freeq")
            EXCEPT !.flags[it] = (@ \cup {"SLABBED"}) \ {"RALIGN"},
                   !.hdr[it] = Blank,
                   !.free_itemq[id] = <<it>> \o @]

\* Mutant: the free items of the slab stay in the free queue.
slab_evict_one_bug(h, s) ==
    LET linked == {it \in slab_items(h, s) : item_is_linked(h, it)}
        dead   == {h.hdr[it].key : it \in linked}
    IN  [h EXCEPT !.hash = [k \in MaybeKey |-> IF k \in dead THEN NoItem ELSE @[k]],
                  !.item_lruq[h.slab_class[s]] = Without(@, linked),
                  !.slab_lruq = Without(@, {s})]

\* Evict the items of slab s: the linked ones leave hash and lruq
\* (item_reuse), the free ones leave the free queue, and the slab leaves the
\* slab lruq.
slab_evict_one(h, s) ==
    LET id      == h.slab_class[s]
        items   == slab_items(h, s)
        linked  == {it \in items : item_is_linked(h, it)}
        slabbed == {it \in items : ~item_is_linked(h, it) /\ item_is_slabbed(h, it)}
        ok      == \A it \in items : h.refcount[it] = 0
        dead    == {h.hdr[it].key : it \in linked}
    IN  [Check(h, ok, "slab_evict_one")
            EXCEPT !.free_item[id] =
                       IF @ # NoItem /\ item_2_slab(@) = s THEN NoItem ELSE @,
                   !.flags = [it \in Item |->
                       IF it \in items THEN @[it] \ {"LINKED", "SLABBED"} ELSE @[it]],
                   !.hash = [k \in MaybeKey |-> IF k \in dead THEN NoItem ELSE @[k]],
                   !.item_lruq[id] = Without(@, linked),
                   !.free_itemq[id] = Without(@, slabbed),
                   !.slab_lruq = Without(@, {s})]

\* Make slab s the current slab of class id.  slab_hdr_init does not set
\* utime.
slab_add_one(h, s, id) ==
    LET fresh(it) == item_2_slab(it) = s
    IN  [h EXCEPT !.slab_class[s] = id,
                  !.slab_refcount[s] = 0,
                  !.slab_lruq = Append(@, s),
                  !.refcount = [it \in Item |-> IF fresh(it) THEN 0 ELSE @[it]],
                  !.flags = [it \in Item |-> IF fresh(it) THEN {} ELSE @[it]],
                  !.hdr = [it \in Item |-> IF fresh(it) THEN Blank ELSE @[it]],
                  !.free_item[id] = <<s, 1>>]

-----------------------------------------------------------------------------
(***************************************************************************)
(* What slab_get takes from its environment: whether malloc succeeds, the  *)
(* last slab that slab_table_rand drew (0 stands for the division by zero  *)
(* it does on an empty table), and what a slab fresh from malloc holds.    *)
(***************************************************************************)
Env(h, mallocFails) ==
    [malloc : IF mallocFails THEN BOOLEAN ELSE {TRUE},
     rand   : IF h.nslab = 0 THEN {0} ELSE 1..h.nslab,
     junk   : Junk]

\* Mutant: one try too few.
LruSlabs_bug(h) ==
    {i \in DOMAIN h.slab_lruq : /\ i < SLAB_LRU_MAX_TRIES
                                /\ h.slab_refcount[h.slab_lruq[i]] = 0}

\* slab_evict_lru: the first unreferenced slab among the first
\* SLAB_LRU_MAX_TRIES of the slab lruq.
LruSlabs(h) ==
    {i \in DOMAIN h.slab_lruq : /\ i <= SLAB_LRU_MAX_TRIES
                                /\ h.slab_refcount[h.slab_lruq[i]] = 0}

\* Mutant: the slab drawn is evicted although it is referenced.
RandSlabs_bug(h, e) == {e.rand} \ {0}

\* slab_evict_rand draws until it meets an unreferenced slab or has drawn
\* SLAB_RAND_MAX_TRIES times; only the last draw decides.  It can give up on
\* an unreferenced slab (the last permitted draw), but only after a
\* referenced one, which as the last draw has the same outcome.
RandSlabs(h, e) == {s \in {e.rand} \ {0} : h.slab_refcount[s] = 0}

\* slab_get: make a slab of the pool, or else an evicted one, the current
\* slab of class id; with no slab to be had, the current slab stays NULL.
slab_get(h, id, e) ==
    LET h0 == Check(h, h.free_item[id] = NoItem /\ h.free_itemq[id] = << >>,
                    "slab_get")
        lru  == evict_opt \cap {"CS", "AS"} # {} /\ LruSlabs(h) # {}
        rand == "RS" \in evict_opt
    IN  IF h.nslab < max_nslab /\ e.malloc
        THEN LET s == h.nslab + 1
             IN  slab_add_one([h0 EXCEPT !.nslab = s, !.utime[s] = e.junk], s, id)
        ELSE IF lru
        THEN LET s == FirstAt(h.slab_lruq, LruSlabs(h))
             IN  slab_add_one(slab_evict_one(h0, s), s, id)
        ELSE IF rand /\ RandSlabs(h, e) # {}
        THEN slab_add_one(slab_evict_one(h0, e.rand), e.rand, id)
        ELSE Check(h0, ~rand \/ e.rand # 0, "slab_table_rand")

\* Mutant: the current slab counts as used up one item too late.
slab_next_item_bug(h, id) ==
    LET it == h.free_item[id]
    IN  [mem |-> IF it = NoItem THEN h
                 ELSE [h EXCEPT !.free_item[id] =
                           IF it[2] <= nitem[id] THEN <<it[1], it[2] + 1>>
                           ELSE NoItem],
         it  |-> it]

\* The item at the head of the free queue of class id.
slab_get_item_from_freeq(h, id) ==
    LET it == Head(h.free_itemq[id])
        ok == item_is_slabbed(h, it) /\ ~item_is_linked(h, it)
    IN  [mem |-> [Check(h, ok, "slab_get_item_from_freeq")
                     EXCEPT !.flags[it] = @ \ {"SLABBED"},
                            !.free_itemq[id] = Tail(@)],
         it  |-> it]

\* The next item of the current slab of class id, if there is a slab.
slab_next_item(h, id) ==
    LET it == h.free_item[id]
    IN  [mem |-> IF it = NoItem THEN h
                 ELSE [h EXCEPT !.free_item[id] =
                           IF it[2] < nitem[id] THEN <<it[1], it[2] + 1>>
                           ELSE NoItem],
         it  |-> it]

\* slab_get_item: an item of class id from the free queue, else from the
\* current slab, which slab_get replaces when it is used up.
slab_get_item(h, id, e) ==
    IF use_freeq /\ h.free_itemq[id] # << >>
    THEN slab_get_item_from_freeq(h, id)
    ELSE slab_next_item(IF h.free_item[id] = NoItem THEN slab_get(h, id, e) ELSE h, id)
=============================================================================
