------------------------------- MODULE Assoc --------------------------------
(***************************************************************************)
(* The hash table (mc_assoc.c) and its incremental expansion.  Insertions  *)
(* and deletions come from worker threads; a maintenance thread moves the  *)
(* items of an expanding table, a few buckets per critical section of      *)
(* cache_lock, and sleeps on a condition variable in between.  A step is   *)
(* one critical section.                                                   *)
(*                                                                         *)
(* A bucket is the set of its items: no two of them have the same key, so  *)
(* the order of the list cannot be told from a lookup.                     *)
(***************************************************************************)
EXTENDS Integers, FiniteSetsExt

CONSTANTS
    Key,
    Item,
    item_key,           \* the key of each item
    NoItem,
    hash,               \* hash value of each key
    settings_hash_power,\* settings.hash_power: 0, or the size is fixed
    HASH_DEFAULT_POWER,
    nhash_move_size,    \* buckets moved per critical section
    MaxPower,           \* bound: the table is not expanded beyond this
    NULL                \* no table

VARIABLES
    primary_hashtable,  \* from buckets to sets of items
    old_hashtable,      \* NULL, or the table being emptied
    nhash_item,
    hash_power,
    expanding,
    expand_bucket,
    maint               \* the maintenance thread is "running" or "waiting"

table == <<primary_hashtable, old_hashtable, nhash_item, hash_power, expanding,
           expand_bucket>>
vars == <<table, maint>>

HASHSIZE(n) == 2 ^ n

InitPower == IF settings_hash_power > 0 THEN settings_hash_power
             ELSE HASH_DEFAULT_POWER

ASSUME AssocAssumption ==
    /\ item_key \in [Item -> Key]
    /\ NoItem \notin Item
    /\ hash \in [Key -> Nat]
    /\ settings_hash_power \in Nat
    /\ HASH_DEFAULT_POWER \in Nat \ {0}
    /\ nhash_move_size \in Nat \ {0}
    /\ MaxPower \in Nat
    /\ InitPower <= MaxPower
    /\ \A n \in 0..MaxPower : NULL \notin [0..(HASHSIZE(n) - 1) -> SUBSET Item]

assoc_create_table(size) == [b \in 0..(size - 1) |-> {}]

Init ==
    /\ hash_power = InitPower
    /\ primary_hashtable = assoc_create_table(HASHSIZE(hash_power))
    /\ old_hashtable = NULL
    /\ nhash_item = 0
    /\ expanding = FALSE
    /\ expand_bucket = 0
    /\ maint = "running"

\* Mutant: a bucket that was moved is still looked for in the old table.
assoc_get_bucket_bug(k) ==
    LET oldbucket == hash[k] % HASHSIZE(hash_power - 1)
    IN  IF expanding /\ oldbucket > expand_bucket
        THEN [old |-> TRUE, b |-> oldbucket]
        ELSE [old |-> FALSE, b |-> hash[k] % HASHSIZE(hash_power)]

\* Which table and bucket a key belongs to: the old table keeps the buckets
\* from expand_bucket on.
assoc_get_bucket(k) ==
    LET oldbucket == hash[k] % HASHSIZE(hash_power - 1)
    IN  IF expanding /\ oldbucket >= expand_bucket
        THEN [old |-> TRUE, b |-> oldbucket]
        ELSE [old |-> FALSE, b |-> hash[k] % HASHSIZE(hash_power)]

Bucket(k) == LET w == assoc_get_bucket(k)
             IN  IF w.old THEN old_hashtable[w.b] ELSE primary_hashtable[w.b]

assoc_find(k) ==
    LET match == {it \in Bucket(k) : item_key[it] = k}
    IN  IF match = {} THEN NoItem ELSE CHOOSE it \in match : TRUE

assoc_expand_needed(n) ==
    /\ settings_hash_power = 0
    /\ ~expanding
    /\ n > (HASHSIZE(hash_power) * 3) \div 2

\* Mutant: assoc_expand does not signal the maintenance thread.
assoc_insert_bug(it) ==
    LET b == hash[item_key[it]] % HASHSIZE(hash_power)
        p == [primary_hashtable EXCEPT ![b] = @ \cup {it}]
    IN  /\ ~expanding
        /\ assoc_find(item_key[it]) = NoItem
        /\ nhash_item' = nhash_item + 1
        /\ \/ /\ assoc_expand_needed(nhash_item + 1)
              /\ hash_power < MaxPower
              /\ old_hashtable' = p
              /\ primary_hashtable' = assoc_create_table(HASHSIZE(hash_power + 1))
              /\ hash_power' = hash_power + 1
              /\ expanding' = TRUE
              /\ expand_bucket' = 0
              /\ UNCHANGED maint
           \/ /\ ~assoc_expand_needed(nhash_item + 1)
              /\ primary_hashtable' = p
              /\ UNCHANGED <<old_hashtable, hash_power, expanding, expand_bucket, maint>>

\* Put an item into its bucket, and start an expansion if the table is too
\* full; without memory for the larger table the old one goes on being used.
\* The caller has unlinked any item of the same key.
assoc_insert(it) ==
    LET w == assoc_get_bucket(item_key[it])
        p == IF w.old THEN primary_hashtable
             ELSE [primary_hashtable EXCEPT ![w.b] = @ \cup {it}]
        o == IF w.old THEN [old_hashtable EXCEPT ![w.b] = @ \cup {it}]
             ELSE old_hashtable
    IN  /\ assoc_find(item_key[it]) = NoItem
        /\ nhash_item' = nhash_item + 1
        /\ \/ /\ assoc_expand_needed(nhash_item + 1)
              /\ hash_power < MaxPower
              /\ old_hashtable' = p
              /\ primary_hashtable' = assoc_create_table(HASHSIZE(hash_power + 1))
              /\ hash_power' = hash_power + 1
              /\ expanding' = TRUE
              /\ expand_bucket' = 0
              /\ maint' = "running"     \* pthread_cond_signal
           \/ \* not needed, or assoc_create_table fails
              /\ primary_hashtable' = p
              /\ old_hashtable' = IF assoc_expand_needed(nhash_item + 1)
                                  THEN NULL ELSE o
              /\ UNCHANGED <<hash_power, expanding, expand_bucket, maint>>

assoc_delete(k) ==
    LET w  == assoc_get_bucket(k)
        it == assoc_find(k)
    IN  /\ it # NoItem
        /\ IF w.old
           THEN /\ old_hashtable' = [old_hashtable EXCEPT ![w.b] = @ \ {it}]
                /\ UNCHANGED primary_hashtable
           ELSE /\ primary_hashtable' = [primary_hashtable EXCEPT ![w.b] = @ \ {it}]
                /\ UNCHANGED old_hashtable
        /\ nhash_item' = nhash_item - 1
        /\ UNCHANGED <<hash_power, expanding, expand_bucket, maint>>

\* Mutant: items keep their bucket.
assoc_maintenance_thread_hash_bug ==
    LET b == expand_bucket
        done == b + 1 = HASHSIZE(hash_power - 1)
    IN  /\ maint = "running" /\ expanding
        /\ primary_hashtable' = [primary_hashtable EXCEPT ![b] = @ \cup old_hashtable[b]]
        /\ old_hashtable' = IF done THEN NULL ELSE [old_hashtable EXCEPT ![b] = {}]
        /\ expand_bucket' = b + 1
        /\ expanding' = ~done
        /\ UNCHANGED <<nhash_item, hash_power, maint>>

\* One turn of the maintenance thread's loop: move the next buckets, and if
\* that ends the expansion, or there was none, sleep.
assoc_maintenance_thread ==
    LET last  == HASHSIZE(hash_power - 1)
        next  == Min({expand_bucket + nhash_move_size, last})
        moved == UNION {old_hashtable[b] : b \in expand_bucket..(next - 1)}
        home(b) == {it \in moved : hash[item_key[it]] % HASHSIZE(hash_power) = b}
    IN  /\ maint = "running"
        /\ \/ /\ expanding
              /\ primary_hashtable' = [b \in DOMAIN primary_hashtable |->
                                          primary_hashtable[b] \cup home(b)]
              /\ expand_bucket' = next
              /\ expanding' = (next # last)
              /\ old_hashtable' = IF next = last THEN NULL  \* mc_free
                                  ELSE [b \in DOMAIN old_hashtable |->
                                          old_hashtable[b] \ moved]
              /\ maint' = IF next = last THEN "waiting" ELSE "running"
              /\ UNCHANGED <<nhash_item, hash_power>>
           \/ /\ ~expanding
              /\ maint' = "waiting"
              /\ UNCHANGED table

\* pthread_cond_wait may return without a signal.
spurious_wakeup ==
    /\ maint = "waiting"
    /\ maint' = "running"
    /\ UNCHANGED table

Next ==
    \/ \E it \in Item : assoc_insert(it)
    \/ \E k \in Key : assoc_delete(k)
    \/ assoc_maintenance_thread
    \/ spurious_wakeup

\* The maintenance thread is scheduled and gets cache_lock again and again;
\* nothing else need ever happen.
Fairness == WF_vars(assoc_maintenance_thread)

Spec == Init /\ [][Next]_vars /\ Fairness

-----------------------------------------------------------------------------
Contents(t) == IF t = NULL THEN {} ELSE UNION {t[b] : b \in DOMAIN t}

\* The variables have their types; expand_bucket stays below the size of the
\* old table while there is one.
TypeOK ==
    /\ hash_power \in InitPower..MaxPower
    /\ primary_hashtable \in [0..(HASHSIZE(hash_power) - 1) -> SUBSET Item]
    /\ expanding => /\ old_hashtable \in [0..(HASHSIZE(hash_power - 1) - 1) -> SUBSET Item]
                    /\ expand_bucket \in 0..(HASHSIZE(hash_power - 1) - 1)
    /\ ~expanding => old_hashtable = NULL
    /\ nhash_item \in Nat
    /\ expanding \in BOOLEAN
    /\ maint \in {"running", "waiting"}

\* Every item in either table is the one a lookup of its key finds, in
\* whatever order insertions, deletions and moves of buckets happen, and
\* nhash_item counts them: nothing is stranded in a bucket nobody looks at.
Reachable ==
    LET all == Contents(primary_hashtable) \cup Contents(old_hashtable)
    IN  /\ TypeOK
        /\ \A it \in all : assoc_find(item_key[it]) = it
        /\ nhash_item = Cardinality(all)

\* The thread sleeps only when there is nothing to move: the signal sent by
\* assoc_expand is not lost.
NoLostWakeup == expanding => maint = "running"

M == INSTANCE AssocMap WITH map <- [k \in Key |-> assoc_find(k)]

\* Lookups see insertions and deletions only; moving buckets and switching
\* tables is invisible to them.
ImplementsMap == M!Spec

\* An expansion comes to an end, whatever the workers do meanwhile.
ExpansionEnds == expanding ~> ~expanding
=============================================================================
