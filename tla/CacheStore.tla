----------------------------- MODULE CacheStore -----------------------------
(***************************************************************************)
(* The cache implements the abstract store: the value of a key is the item *)
(* a lookup of the key finds alive, its version is the item's cas id.      *)
(***************************************************************************)
EXTENDS Cache

\* Lengths a value can have.
Length == UNION {0..capacity[id] : id \in Class}

Visible(k) ==
    LET it == mem.hash[k]
    IN  IF it = NoItem \/ item_dead(mem, it)
        THEN [version |-> 0, len |-> 0]
        ELSE [version |-> mem.hdr[it].cas, len |-> mem.hdr[it].nbyte]

S == INSTANCE Store WITH
        Key   <- Key,
        Length <- Length,
        value <- [k \in Key |-> Visible(k)],
        last  <- mem.cas_id

\* What clients see through the item, slab and connection code is a behaviour
\* of the abstract store: no step of any handler revives a value that was
\* replaced, deleted, evicted or expired, and none changes a value, in place
\* or by relinking, without a fresh cas id.
ImplementsStore == S!Spec
=============================================================================
