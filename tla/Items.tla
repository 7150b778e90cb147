------------------------------- MODULE Items --------------------------------
(***************************************************************************)
(* The item operations (mc_items.c): allocation and reuse, linking into    *)
(* hash and lru queue, reference counts, lazy expiry and flush.  As in     *)
(* Slabs, every operator maps the memory h guarded by cache_lock to the    *)
(* memory the function leaves; one that returns an item yields the record  *)
(* [mem, it].  The hash table appears as the map it implements (Assoc      *)
(* shows that it does).                                                    *)
(***************************************************************************)
EXTENDS Slabs

CONSTANTS
    ITEM_UPDATE_INTERVAL,   \* seconds an item stays put in the lruq
    ITEM_LRUQ_MAX_TRIES,    \* items of the lruq an allocation looks at
    UseCas                  \* settings.use_cas

ASSUME ItemAssumption ==
    /\ ITEM_UPDATE_INTERVAL \in 0..(TimeMod - 1)
    /\ ITEM_LRUQ_MAX_TRIES \in Nat
    /\ UseCas \in BOOLEAN

VARIABLE
    oldest_live             \* settings.oldest_live: 0, or flush horizon

\* The cas id item_set_cas(it, item_next_cas()) gives to an item.
item_next_cas(h, it) ==
    IF UseCas THEN [h EXCEPT !.cas_id = @ + 1, !.hdr[it].cas = h.cas_id + 1]
              ELSE h

\* The test an allocation applies; item_get expires one second earlier.
item_expired(h, it) == h.hdr[it].exptime > 0 /\ h.hdr[it].exptime < now

\* Mutant: the slab is not told of the reference.
item_acquire_refcount_bug(h, it) == [h EXCEPT !.refcount[it] = RefInc(@)]

item_acquire_refcount(h, it) ==
    slab_acquire_refcount([h EXCEPT !.refcount[it] = RefInc(@)], item_2_slab(it))

item_release_refcount(h, it) ==
    slab_release_refcount(
        [Check(h, h.refcount[it] > 0, "item_release_refcount")
            EXCEPT !.refcount[it] = @ - 1], item_2_slab(it))

assoc_insert(h, it) ==
    [Check(h, h.hash[h.hdr[it].key] = NoItem, "assoc_insert")
        EXCEPT !.hash[h.hdr[it].key] = it]

assoc_delete(h, k) ==
    [Check(h, h.hash[k] # NoItem, "assoc_delete") EXCEPT !.hash[k] = NoItem]

\* Append an item to the lruq of its class, stamped with the current time.
item_link_q(h, it, allocated) ==
    slab_lruq_touch(
        [Check(h, ~item_is_slabbed(h, it), "item_link_q")
            EXCEPT !.hdr[it].atime = now,
                   !.item_lruq[item_id(h, it)] = Append(@, it)],
        item_2_slab(it), allocated)

item_unlink_q(h, it) ==
    [h EXCEPT !.item_lruq[item_id(h, it)] = Without(@, {it})]

\* Take an unreferenced item out of hash and lruq, without freeing it.
item_reuse(h, it) ==
    LET ok == /\ ~item_is_slabbed(h, it)
              /\ item_is_linked(h, it)
              /\ h.refcount[it] = 0
        h1 == [Check(h, ok, "item_reuse") EXCEPT !.flags[it] = @ \ {"LINKED"}]
    IN  item_unlink_q(assoc_delete(h1, h.hdr[it].key), it)

\* Mutant: the oldest item is taken although it is referenced.
item_get_from_lruq_bug(h, id) ==
    IF h.item_lruq[id] = << >> THEN NoItem ELSE Head(h.item_lruq[id])

\* Among the oldest ITEM_LRUQ_MAX_TRIES items of class id, the first
\* unreferenced one that has expired, else the first unreferenced one.
item_get_from_lruq(h, id) ==
    LET q       == h.item_lruq[id]
        unused  == {i \in DOMAIN q : /\ i <= ITEM_LRUQ_MAX_TRIES
                                     /\ h.refcount[q[i]] = 0}
        expired == {i \in unused : item_expired(h, q[i])}
    IN  IF ~use_lruq \/ unused = {} THEN NoItem
        ELSE IF expired # {} THEN FirstAt(q, expired)
        ELSE FirstAt(q, unused)

\* The choice between lit, found in the lruq, and what slab_get_item returns
\* (sg), which is called only if lit has not expired.
item_choose(h, lit, sg) ==
    IF lit # NoItem /\ item_expired(h, lit)
    THEN [mem |-> item_reuse(h, lit), it |-> lit]
    ELSE IF sg.it # NoItem \/ lit = NoItem \/ "LRU" \notin evict_opt
    THEN sg
    ELSE [mem |-> item_reuse(sg.mem, lit), it |-> lit]

\* An item of class id, if there is one: an expired one, a free one (which
\* may take a new or an evicted slab), or the least recently used one.
item_obtain(h, id, e) ==
    item_choose(h, item_get_from_lruq(h, id), slab_get_item(h, id, e))

\* The item obtained is given its header and a reference.
item_init(got, id, key, exptime, nbyte) ==
    LET m   == got.mem
        it  == got.it
        ok  == /\ item_id(m, it) = id
               /\ ~item_is_linked(m, it)
               /\ ~item_is_slabbed(m, it)
               /\ m.refcount[it] = 0
    IN  IF it = NoItem THEN got
        ELSE [mem |-> [item_acquire_refcount(Check(m, ok, "item_alloc"), it)
                          EXCEPT !.flags[it] = {},
                                 !.hdr[it] = [key |-> key, nbyte |-> nbyte,
                                              exptime |-> exptime,
                                              atime |-> 0, cas |-> 0]],
              it  |-> it]

\* item_alloc: the caller must release the reference.
item_alloc(h, id, key, exptime, nbyte, e) ==
    item_init(item_obtain(h, id, e), id, key, exptime, nbyte)

\* Link an item into hash and lruq under a new cas id.
item_link(h, it) ==
    LET ok == ~item_is_linked(h, it) /\ ~item_is_slabbed(h, it)
        h1 == [Check(h, ok, "item_link") EXCEPT !.flags[it] = @ \cup {"LINKED"}]
    IN  item_link_q(assoc_insert(item_next_cas(h1, it), it), it, TRUE)

\* Unlink an item if it is linked, and free it if nobody refers to it.
item_unlink(h, it) ==
    LET h1 == [h EXCEPT !.flags[it] = @ \ {"LINKED"}]
        h2 == item_unlink_q(assoc_delete(h1, h.hdr[it].key), it)
    IN  IF ~item_is_linked(h, it) THEN h
        ELSE IF h.refcount[it] = 0 THEN slab_put_item(h2, it)
        ELSE h2

\* Release a reference, and free the item if it was the last one and the
\* item is not linked.
item_remove(h, it) ==
    LET h0 == Check(h, ~item_is_slabbed(h, it), "item_remove")
        h1 == IF h.refcount[it] # 0 THEN item_release_refcount(h0, it) ELSE h0
    IN  IF h1.refcount[it] = 0 /\ ~item_is_linked(h1, it)
        THEN slab_put_item(h1, it)
        ELSE h1

\* Mutant: the item is stamped but keeps its place.
item_touch_bug(h, it) ==
    IF item_is_linked(h, it) THEN [h EXCEPT !.hdr[it].atime = now] ELSE h

\* Move an item to the tail of its lruq, unless it was put there within
\* ITEM_UPDATE_INTERVAL seconds (computed modulo 2^32).
item_touch(h, it) ==
    LET h1 == Check(h, ~item_is_slabbed(h, it), "item_touch")
    IN  IF \/ h.hdr[it].atime >= TimeSub(now, ITEM_UPDATE_INTERVAL)
           \/ ~item_is_linked(h, it)
        THEN h1
        ELSE item_link_q(item_unlink_q(h1, it), it, FALSE)

\* Mutant: the new item is linked before the old one is unlinked.
item_relink_bug(h, it, nit) == item_unlink(item_link(h, nit), it)

\* Replace it by nit in hash and lruq.
item_relink(h, it, nit) ==
    LET ok == ~item_is_slabbed(h, it) /\ ~item_is_slabbed(h, nit)
    IN  item_link(item_unlink(Check(h, ok, "item_relink"), it), nit)

\* What item_get treats as gone: expired, or older than a flush whose time
\* has come.
item_dead(h, it) ==
    \/ h.hdr[it].exptime # 0 /\ h.hdr[it].exptime <= now
    \/ oldest_live # 0 /\ oldest_live <= now /\ h.hdr[it].atime <= oldest_live

\* Look a key up and take a reference on the item; a dead item is unlinked.
item_get(h, k) ==
    LET it == h.hash[k]
    IN  IF it = NoItem THEN [mem |-> h, it |-> NoItem]
        ELSE IF item_dead(h, it) THEN [mem |-> item_unlink(h, it), it |-> NoItem]
        ELSE [mem |-> item_acquire_refcount(h, it), it |-> it]

\* Mutant: the walk starts at the head, and ends at the first older item.
item_flush_expired_bug(h) ==
    LET recent(q)  == {i \in DOMAIN q : \A j \in 1..i :
                                           h.hdr[q[j]].atime >= oldest_live}
        all == UNION {{h.item_lruq[id][i] : i \in recent(h.item_lruq[id])} : id \in Class}
        dead == {h.hdr[it].key : it \in all}
    IN  [h EXCEPT !.hash = [k \in MaybeKey |-> IF k \in dead THEN NoItem ELSE @[k]],
                  !.flags = [it \in Item |-> IF it \in all THEN {} ELSE @[it]],
                  !.item_lruq = [id \in Class |-> Without(@[id], all)]]

\* item_flush_expired: walk each lruq from the tail and unlink items until
\* one is older than oldest_live.  The unreferenced ones go to the head of
\* the free queue one after another, which leaves them in lruq order.
item_flush_expired(h) ==
    LET recent(q)  == {i \in DOMAIN q : \A j \in i..Len(q) :
                                           h.hdr[q[j]].atime >= oldest_live}
        flushed(id) == {h.item_lruq[id][i] : i \in recent(h.item_lruq[id])}
        all == UNION {flushed(id) : id \in Class}
        freed == {it \in all : h.refcount[it] = 0}
        dead == {h.hdr[it].key : it \in all}
        ok == \A it \in all : ~item_is_slabbed(h, it)
    IN  IF oldest_live = 0 THEN h
        ELSE [Check(h, ok, "item_flush_expired")
                EXCEPT !.flags = [it \in Item |->
                           IF it \in freed THEN {"SLABBED"}
                           ELSE IF it \in all THEN @[it] \ {"LINKED"} ELSE @[it]],
                       !.hdr = [it \in Item |->
                           IF it \in freed THEN Blank ELSE @[it]],
                       !.hash = [k \in MaybeKey |-> IF k \in dead THEN NoItem ELSE @[k]],
                       !.free_itemq = [id \in Class |->
                           Without(h.item_lruq[id], Item \ freed) \o @[id]],
                       !.item_lruq = [id \in Class |-> Without(@[id], all)]]

-----------------------------------------------------------------------------
(***************************************************************************)
(* The operations of the protocol.  it is c->item, filled by the client    *)
(* and not linked; a reference taken by item_get is released before the    *)
(* operation returns.                                                      *)
(***************************************************************************)

\* Mutant: the reference item_get took on the old item is not released.
item_supplant_bug(g, it) == item_relink(g.mem, g.it, it)

\* item_replace's body once the key was found, shared by set and cas.
item_supplant(g, it) == item_remove(item_relink(g.mem, g.it, it), g.it)

item_set(h, it) ==
    LET g == item_get(h, h.hdr[it].key)
    IN  IF g.it = NoItem THEN item_link(g.mem, it) ELSE item_supplant(g, it)

item_cas(h, it) ==
    LET g == item_get(h, h.hdr[it].key)
    IN  IF g.it = NoItem THEN g.mem
        ELSE IF g.mem.hdr[it].cas # g.mem.hdr[g.it].cas THEN item_remove(g.mem, g.it)
        ELSE item_supplant(g, it)

item_add(h, it) ==
    LET g == item_get(h, h.hdr[it].key)
    IN  IF g.it = NoItem THEN item_link(g.mem, it) ELSE item_remove(g.mem, g.it)

item_replace(h, it) ==
    LET g == item_get(h, h.hdr[it].key)
    IN  IF g.it = NoItem THEN g.mem ELSE item_supplant(g, it)

\* Mutant: the cas id stays.
item_rewrite_bug(h, oit, nbyte) == [h EXCEPT !.hdr[oit].nbyte = nbyte]

\* Give oit a new length in place; its value changed, so its cas id does.
item_rewrite(h, oit, nbyte) ==
    item_next_cas([h EXCEPT !.hdr[oit].nbyte = nbyte], oit)

\* Put the new item in the place of oit, and release both; if there is none
\* (a is the result of item_alloc) only oit is released.
item_swap(a, oit, flags) ==
    LET m == item_relink([a.mem EXCEPT !.flags[a.it] = @ \cup flags], oit, a.it)
    IN  IF a.it = NoItem THEN item_remove(a.mem, oit)
        ELSE item_remove(item_remove(m, oit), a.it)

\* Move a value to a new item of class id, which keeps oit's key and expiry.
item_regrow(h, oit, id, nbyte, flags, e) ==
    item_swap(item_alloc(h, id, h.hdr[oit].key, h.hdr[oit].exptime, nbyte, e),
              oit, flags)

\* Append or prepend: in place if the class stays the same and the value is
\* aligned so that its free end is the one to grow, else in a new item
\* (right-aligned for a prepend).  An oversized result changes nothing.
item_annex(h, it, append, e) ==
    LET g     == item_get(h, h.hdr[it].key)
        oit   == g.it
        total == g.mem.hdr[oit].nbyte + g.mem.hdr[it].nbyte
        id    == item_slabid(total)
    IN  IF oit = NoItem THEN g.mem
        ELSE IF id = 0 THEN item_remove(g.mem, oit)
        ELSE IF /\ id = item_id(g.mem, oit)
                /\ append = ~item_is_raligned(g.mem, oit)
        THEN item_remove(item_rewrite(g.mem, oit, total), oit)
        ELSE item_regrow(g.mem, oit, id, total, IF append THEN {} ELSE {"RALIGN"}, e)

\* Increment or decrement.  res is the number of digits of the result; a
\* value that does not parse as a number leaves the item alone.
item_delta(h, k, numeric, res, e) ==
    LET g  == item_get(h, k)
        it == g.it
    IN  IF it = NoItem THEN g.mem
        ELSE IF ~numeric THEN item_remove(g.mem, it)
        ELSE IF res > g.mem.hdr[it].nbyte
        THEN item_regrow(Check(g.mem, item_slabid(res) # 0, "item_delta"),
                         it, item_slabid(res), res, {}, e)
        ELSE item_remove(item_rewrite(g.mem, it, res), it)

item_delete(h, k) ==
    LET g == item_get(h, k)
    IN  IF g.it = NoItem THEN g.mem
        ELSE item_remove(item_unlink(g.mem, g.it), g.it)
=============================================================================
