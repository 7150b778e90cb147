------------------------------- MODULE Cache --------------------------------
(***************************************************************************)
(* Connections working on the shared cache: the request handlers of        *)
(* mc_ascii.c and the parts of mc_core.c and mc_connection.c that release  *)
(* items, composed with the item and slab operations.  A step of the       *)
(* specification is one critical section of cache_lock, or one access to   *)
(* shared state that takes no lock; between two steps of a handler every   *)
(* other connection may run (each connection stands for a worker thread of *)
(* its own).  Only what touches items is kept of the connection state      *)
(* machine: reading, parsing and writing bytes is waiting here.            *)
(***************************************************************************)
EXTENDS Items

CONSTANTS
    Conn,           \* connections
    IlistMax,       \* bound: hits of one multiget
    Request,        \* storage commands that clients send
    NByte,          \* lengths of the values they send
    Digits,         \* lengths of the results of incr and decr
    Ttl,            \* exptime arguments
    FlushArg,       \* arguments of flush_all, 0 if there is none
    TIME_MAXDELTA,  \* exptimes above this are absolute
    process_started,\* absolute time of the server's start
    EvictChoice,    \* arguments of config evict
    ClockStep,      \* how far time_update may move now
    MaxTime,        \* bound on now
    MaxCas,         \* bound on cas_id
    MaxLeak,        \* bound on the references leaked per slab
    Faults          \* faults of the environment that may occur

Slot == 0..IlistMax

ASSUME CacheAssumption ==
    /\ IsFiniteSet(Conn)
    /\ IlistMax \in Nat
    /\ Request \subseteq {"set", "add", "replace", "cas", "append", "prepend"}
    /\ NByte \subseteq Nat
    /\ Digits \subseteq {n \in Nat : item_slabid(n) # 0}  \* a number fits an item
    /\ Ttl \subseteq {x \in Int : x + TimeMod >= 0}       \* int32_t
    /\ FlushArg \subseteq Nat
    /\ TIME_MAXDELTA \in Nat
    /\ process_started \in Nat
    /\ EvictChoice \subseteq SUBSET EvictBit
    /\ ClockStep \subseteq Int
    /\ MaxTime \in Nat
    /\ MaxCas \in Nat
    /\ MaxLeak \in Nat
    /\ Faults \subseteq {"malloc", "iov", "overlong", "udp"}

\* The references of all connections, those leaked within the bound, and the
\* two that an operation takes for itself fit into a refcount.
ASSUME RefAssumption == Cardinality(Conn \X Slot) + MaxLeak + 2 < RefMod

VARIABLES
    mem,            \* the memory guarded by cache_lock
    conn,           \* per connection, where its handler is
    hold,           \* per connection, the items it refers to
    leak            \* references that no connection can release any more

vars == <<now, evict_opt, oldest_live, mem, conn, hold, leak>>

(***************************************************************************)
(* hold[c][0] is c->item while a value is read, and the local variable it  *)
(* of asc_process_read while a hit is processed; hold[c][i] is entry i of  *)
(* c->ilist if that entry stands for a reference still to be released.     *)
(* ileft counts the entries conn_cleanup would release, nhit those the     *)
(* read in progress has filled (valid_key_iter).                           *)
(***************************************************************************)
ConnState == {"NEW_CMD", "NREAD", "MWRITE",      \* waiting for the client
              "oom", "stored", "read", "touch", "flush", "release"}

ConnType == [state : ConnState, req : Request \cup {"none"},
             key : MaybeKey, ileft : 0..IlistMax, nhit : 0..IlistMax]

Idle == [state |-> "NEW_CMD", req |-> "none", key |-> NoKey, ileft |-> 0,
         nhit |-> 0]

LeakType == [item : [Item -> Nat], slab : [Slab -> Nat]]

Init ==
    /\ now = 2                  \* time_init: two seconds have passed
    /\ evict_opt = InitEvict
    /\ oldest_live = 0
    /\ mem = InitHeap
    /\ conn = [c \in Conn |-> Idle]
    /\ hold = [c \in Conn |-> [i \in Slot |-> NoItem]]
    /\ leak = [item |-> [it \in Item |-> 0], slab |-> [s \in Slab |-> 0]]

Goto(c, state) == conn' = [conn EXCEPT ![c].state = state]

\* The slots of c in S that hold a reference.
Held(c, S) == {i \in S : hold[c][i] # NoItem}

\* The references in slots S of c are forgotten without being released.
Lose(c, S) ==
    [item |-> [it \in Item |->
                 leak.item[it] + Cardinality({i \in S : hold[c][i] = it})],
     slab |-> [s \in Slab |->
                 leak.slab[s] + Cardinality({i \in Held(c, S) :
                                               item_2_slab(hold[c][i]) = s})]]

Forget(c, S) == [hold EXCEPT ![c] = [i \in Slot |-> IF i \in S THEN NoItem ELSE @[i]]]

LeakBound == \A s \in Slab : leak'.slab[s] <= MaxLeak

MemEnv == Env(mem, "malloc" \in Faults)

\* time_reltime at time t: 0 is never, large values are absolute (those
\* before the server's start become 1), others are relative to t.
time_reltime(t, x) ==
    CASE x = 0 -> 0
      [] x > TIME_MAXDELTA -> IF x <= process_started THEN 1 ELSE x - process_started
      [] OTHER -> IF x + t >= 0 THEN x + t ELSE x + t + TimeMod

CasBound == UseCas => mem.cas_id < MaxCas

-----------------------------------------------------------------------------
(***************************************************************************)
(* Storage commands.                                                       *)
(***************************************************************************)

\* The outcome of item_alloc for a command: wait for the value in the item,
\* or report the failure and go on to delete the key.
start_nread(c, k, r, a) ==
    \/ /\ a.it # NoItem
       /\ hold' = [hold EXCEPT ![c][0] = a.it]
       /\ conn' = [conn EXCEPT ![c].state = "NREAD", ![c].req = r]
    \/ /\ a.it = NoItem
       /\ conn' = [conn EXCEPT ![c].state = "oom", ![c].key = k]
       /\ UNCHANGED hold

\* set, add, replace and cas.  cas puts the client's cas id in the item.
asc_process_update(c) ==
    \E k \in Key, n \in NByte, x \in Ttl, e \in MemEnv,
       r \in Request \ {"append", "prepend"},
       v \in 0..mem.cas_id :
        /\ conn[c].state = "NEW_CMD"
        /\ r # "cas" => v = 0
        /\ item_slabid(n) # 0
        /\ LET a == item_alloc(mem, item_slabid(n), k, time_reltime(now, x), n, e)
           IN  /\ mem' = IF a.it # NoItem /\ r = "cas" /\ UseCas
                         THEN [a.mem EXCEPT !.hdr[a.it].cas = v] ELSE a.mem
               /\ start_nread(c, k, r, a)
        /\ UNCHANGED <<now, evict_opt, oldest_live, leak>>

\* append and prepend.
asc_process_annex(c) ==
    \E k \in Key, n \in NByte, e \in MemEnv, r \in Request \cap {"append", "prepend"} :
        /\ conn[c].state = "NEW_CMD"
        /\ item_slabid(n) # 0
        /\ LET a == item_alloc(mem, item_slabid(n), k, 0, n, e)
           IN  /\ mem' = a.mem
               /\ start_nread(c, k, r, a)
        /\ UNCHANGED <<now, evict_opt, oldest_live, leak>>

\* After a failed allocation the old value must not survive the command.
oom_delete(c) ==
    /\ conn[c].state = "oom"
    /\ mem' = item_delete(mem, conn[c].key)
    /\ conn' = [conn EXCEPT ![c].state = "NEW_CMD", ![c].key = NoKey]
    /\ UNCHANGED <<now, evict_opt, oldest_live, hold, leak>>

\* The value has arrived: store it, unless it does not end in CRLF.
asc_complete_nread(c) ==
    LET it == hold[c][0]
        r  == conn[c].req
    IN  /\ conn[c].state = "NREAD"
        /\ CasBound
        /\ \/ r = "set"     /\ mem' = item_set(mem, it)
           \/ r = "cas"     /\ mem' = item_cas(mem, it)
           \/ r = "add"     /\ mem' = item_add(mem, it)
           \/ r = "replace" /\ mem' = item_replace(mem, it)
           \/ /\ r \in {"append", "prepend"}
              /\ \E e \in MemEnv : mem' = item_annex(mem, it, r = "append", e)
           \/ UNCHANGED mem
        /\ conn' = [conn EXCEPT ![c].state = "stored", ![c].req = "none"]
        /\ UNCHANGED <<now, evict_opt, oldest_live, hold, leak>>

\* Its last step: the reference of the connection goes.
nread_done(c) ==
    /\ conn[c].state = "stored"
    /\ mem' = item_remove(mem, hold[c][0])
    /\ hold' = [hold EXCEPT ![c][0] = NoItem]
    /\ Goto(c, "NEW_CMD")
    /\ UNCHANGED <<now, evict_opt, oldest_live, leak>>

asc_process_delta(c) ==
    \E k \in Key, numeric \in BOOLEAN, res \in Digits, e \in MemEnv :
        /\ conn[c].state = "NEW_CMD"
        /\ CasBound
        /\ mem' = item_delta(mem, k, numeric, res, e)
        /\ UNCHANGED <<now, evict_opt, oldest_live, conn, hold, leak>>

asc_process_delete(c) ==
    \E k \in Key :
        /\ conn[c].state = "NEW_CMD"
        /\ mem' = item_delete(mem, k)
        /\ UNCHANGED <<now, evict_opt, oldest_live, conn, hold, leak>>

-----------------------------------------------------------------------------
(***************************************************************************)
(* get and gets, the steps of asc_process_read.                            *)
(***************************************************************************)

\* Look up the next key of the command.
read_key(c) ==
    \E k \in Key :
        LET g == item_get(mem, k)
        IN  /\ conn[c].state \in {"NEW_CMD", "read"}
            /\ conn[c].nhit < IlistMax
            /\ mem' = g.mem
            /\ hold' = [hold EXCEPT ![c][0] = g.it]
            /\ Goto(c, IF g.it = NoItem THEN "read" ELSE "touch")
            /\ UNCHANGED <<now, evict_opt, oldest_live, leak>>

\* The hit is in the response: touch the item and put it in ilist.  An entry
\* an earlier read left there is overwritten.
read_hit(c) ==
    LET n == conn[c].nhit + 1
    IN  /\ conn[c].state = "touch"
        /\ mem' = item_touch(mem, hold[c][0])
        /\ leak' = Lose(c, {n})
        /\ LeakBound
        /\ hold' = [hold EXCEPT ![c] = [@ EXCEPT ![0] = NoItem, ![n] = hold[c][0]]]
        /\ conn' = [conn EXCEPT ![c].state = "read", ![c].nhit = n]
        /\ UNCHANGED <<now, evict_opt, oldest_live>>

\* Mutant: the item is dropped without being released.
read_no_iov_bug(c) ==
    /\ "iov" \in Faults
    /\ conn[c].state = "touch"
    /\ hold' = [hold EXCEPT ![c][0] = NoItem]
    /\ Goto(c, "read")
    /\ UNCHANGED <<now, evict_opt, oldest_live, mem, leak>>

\* No memory to grow the response: release the item and retry from this key.
read_no_iov(c) ==
    /\ "iov" \in Faults
    /\ conn[c].state = "touch"
    /\ mem' = item_remove(mem, hold[c][0])
    /\ hold' = [hold EXCEPT ![c][0] = NoItem]
    /\ Goto(c, "read")
    /\ UNCHANGED <<now, evict_opt, oldest_live, leak>>

\* A key longer than KEY_MAX_LEN ends the command with CLIENT_ERROR; the
\* hits before it are in ilist but ileft does not count them.
read_overlong(c) ==
    LET lost == (conn[c].ileft + 1)..conn[c].nhit
    IN  /\ "overlong" \in Faults
        /\ conn[c].state = "read"
        /\ leak' = Lose(c, lost)
        /\ LeakBound
        /\ hold' = Forget(c, lost)
        /\ conn' = [conn EXCEPT ![c].state = "NEW_CMD", ![c].nhit = 0]
        /\ UNCHANGED <<now, evict_opt, oldest_live, mem>>

\* The end of the command: ileft counts the hits, and the response is sent.
\* Without memory for END it is SERVER_ERROR, and no item is released.
read_end(c) ==
    LET lost == (conn[c].nhit + 1)..conn[c].ileft
    IN  /\ conn[c].state = "read"
        /\ leak' = Lose(c, lost)
        /\ LeakBound
        /\ hold' = Forget(c, lost)
        /\ \E s \in {"MWRITE"} \cup (IF "iov" \in Faults THEN {"NEW_CMD"} ELSE {}) :
              conn' = [conn EXCEPT ![c].state = s, ![c].nhit = 0,
                                   ![c].ileft = conn[c].nhit]
        /\ UNCHANGED <<now, evict_opt, oldest_live, mem>>

\* core_transmit has sent all of the response, or nothing is left to send.
transmit_complete(c) ==
    /\ conn[c].state = "MWRITE"
    /\ Goto(c, IF Held(c, Slot) = {} THEN "NEW_CMD" ELSE "release")
    /\ UNCHANGED <<now, evict_opt, oldest_live, mem, hold, leak>>

\* A send error on a UDP socket: back to reading, ilist as it is.
transmit_udp_error(c) ==
    /\ "udp" \in Faults
    /\ conn[c].state = "MWRITE"
    /\ Goto(c, "NEW_CMD")
    /\ UNCHANGED <<now, evict_opt, oldest_live, mem, hold, leak>>

\* The client goes away, or the socket fails, while the connection waits.
conn_close(c) ==
    /\ conn[c].state \in {"NEW_CMD", "NREAD", "MWRITE"}
    /\ Held(c, Slot) # {}
    /\ conn' = [conn EXCEPT ![c].state = "release", ![c].req = "none"]
    /\ UNCHANGED <<now, evict_opt, oldest_live, mem, hold, leak>>

\* conn_cleanup, and the same loop after a response was sent: item_remove
\* the entries one by one, c->item first.
release_next(c) ==
    LET held == Held(c, Slot)
        i == CHOOSE i \in held : \A j \in held : i <= j
    IN  /\ conn[c].state = "release"
        /\ mem' = item_remove(mem, hold[c][i])
        /\ hold' = [hold EXCEPT ![c][i] = NoItem]
        /\ conn' = IF held = {i} THEN [conn EXCEPT ![c] = Idle] ELSE conn
        /\ UNCHANGED <<now, evict_opt, oldest_live, leak>>

-----------------------------------------------------------------------------
(***************************************************************************)
(* Time, flush_all and config evict.                                       *)
(***************************************************************************)

\* What time_update may store: each thread reads the clock and stores the
\* result without a lock, so a step back is possible (ClockStep says so).
ClockRead == {t \in 2..MaxTime : t - now \in ClockStep}

time_update ==
    /\ now' \in ClockRead
    /\ UNCHANGED <<evict_opt, oldest_live, mem, conn, hold, leak>>

\* flush_all: the horizon is set without the lock, after a time_update.  A
\* delay moves it into the future, a time before the start removes it.
asc_process_flushall(c) ==
    \E t \in ClockRead \cup {now}, x \in FlushArg :
        /\ conn[c].state = "NEW_CMD"
        /\ now' = t
        /\ oldest_live' = (IF x > 0 THEN time_reltime(t, x) ELSE t) - 1
        /\ Goto(c, "flush")
        /\ UNCHANGED <<evict_opt, mem, hold, leak>>

flush_expired(c) ==
    /\ conn[c].state = "flush"
    /\ mem' = item_flush_expired(mem)
    /\ Goto(c, "NEW_CMD")
    /\ UNCHANGED <<now, evict_opt, oldest_live, hold, leak>>

asc_process_evict(c) ==
    /\ conn[c].state = "NEW_CMD"
    /\ evict_opt' \in EvictChoice
    /\ UNCHANGED <<now, oldest_live, mem, conn, hold, leak>>

-----------------------------------------------------------------------------
Next ==
    \/ time_update
    \/ \E c \in Conn :
        \/ asc_process_update(c)   \/ asc_process_annex(c)
        \/ oom_delete(c)           \/ asc_complete_nread(c)
        \/ nread_done(c)           \/ asc_process_delta(c)
        \/ asc_process_delete(c)   \/ read_key(c)
        \/ read_hit(c)             \/ read_no_iov(c)
        \/ read_overlong(c)        \/ read_end(c)
        \/ transmit_complete(c)    \/ transmit_udp_error(c)
        \/ conn_close(c)           \/ release_next(c)
        \/ asc_process_flushall(c) \/ flush_expired(c)
        \/ asc_process_evict(c)

Spec == Init /\ [][Next]_vars

-----------------------------------------------------------------------------
(***************************************************************************)
(* Properties.                                                             *)
(***************************************************************************)

\* Every variable stays within its type: in particular no refcount goes
\* below zero and every queue holds items of the heap.
TypeOK ==
    /\ now \in Nat
    /\ evict_opt \subseteq EvictBit
    /\ oldest_live \in Nat
    /\ mem \in HeapType
    /\ conn \in [Conn -> ConnType]
    /\ hold \in [Conn -> [Slot -> MaybeItem]]
    /\ leak \in LeakType

Ref == Conn \X Slot
Refers(r) == hold[r[1]][r[2]]

\* The counts item_acquire_refcount and item_release_refcount keep agree with
\* the references: an item's refcount is the number of connection slots that
\* point to it plus the references leaked, a slab's is the number of those
\* that point into it.
RefcountExact ==
    /\ \A it \in Item :
          mem.refcount[it] = Cardinality({r \in Ref : Refers(r) = it}) + leak.item[it]
    /\ \A s \in Slab :
          mem.slab_refcount[s] =
              Cardinality({r \in Ref : Refers(r) # NoItem /\ item_2_slab(Refers(r)) = s})
              + leak.slab[s]

\* Chunks of the current slab of a class that were never handed out.
Virgin(it) ==
    \E id \in Class : LET f == mem.free_item[id]
                      IN  f # NoItem /\ f[1] = it[1] /\ it[2] >= f[2]

\* Every allocated slab is in the slab lruq exactly once, so that slab
\* eviction can reach it.
SlabsQueued ==
    NoDup(mem.slab_lruq) /\ Elems(mem.slab_lruq) = 1..mem.nslab

\* No memory is lost and none is in two places.  Every allocated slab is in
\* the slab lruq once; a chunk of it is linked and in the lruq of its class,
\* or free and in the free queue of its class, or referenced, or not yet
\* handed out by slab_get_item.
ChunksAccounted ==
    /\ SlabsQueued
    /\ \A id \in Class : NoDup(mem.item_lruq[id]) /\ NoDup(mem.free_itemq[id])
    /\ \A s \in 1..mem.nslab : \A it \in slab_items(mem, s) :
          LET id == item_id(mem, it)
              n  == mem.refcount[it]
          IN  /\ item_is_linked(mem, it)  <=> it \in Elems(mem.item_lruq[id])
              /\ item_is_slabbed(mem, it) <=> it \in Elems(mem.free_itemq[id])
              /\ item_is_slabbed(mem, it) => n = 0 /\ ~item_is_linked(mem, it)
              /\ Virgin(it) => n = 0 /\ mem.flags[it] = {}
              /\ \/ item_is_linked(mem, it) \/ item_is_slabbed(mem, it)
                 \/ n > 0                   \/ Virgin(it)

\* The hash finds exactly the linked items, each under its own key: no key
\* has two linked items, no linked item is unreachable.
HashMatchesLinked ==
    /\ \A k \in Key : LET it == mem.hash[k]
                      IN  it # NoItem => /\ item_is_linked(mem, it)
                                         /\ mem.hdr[it].key = k
    /\ \A it \in Item :
          item_is_linked(mem, it) => /\ mem.hdr[it].key \in Key
                                     /\ mem.hash[mem.hdr[it].key] = it

\* None of the ASSERTs in the item and slab code fails.
NoAssertFails == mem.failed = {}

\* While the client's value is read into c->item, without a lock, no other
\* connection and no lookup can see that item.
NreadPrivate ==
    \A c \in Conn : conn[c].state = "NREAD" =>
        LET it == hold[c][0]
        IN  it # NoItem /\ mem.refcount[it] = 1 /\ mem.flags[it] = {}

\* A connection can go on using an item it refers to: the item is neither
\* freed nor evicted nor reused, so it keeps key, class and expiry until the
\* reference goes.
HeldItemsKept ==
    [][\A c \in Conn, i \in Slot :
         LET it == hold[c][i]
         IN  it # NoItem /\ hold'[c][i] = it
             => /\ mem'.hdr[it].key = mem.hdr[it].key
                /\ mem'.hdr[it].exptime = mem.hdr[it].exptime
                /\ item_id(mem', it) = item_id(mem, it)
                /\ ~item_is_slabbed(mem', it)]_vars

\* "Lru q is sorted in ascending time order" (mc_items.c), which
\* item_flush_expired relies on.
LruqSorted ==
    \A id \in Class : LET q == mem.item_lruq[id]
                      IN  \A i, j \in DOMAIN q :
                            i <= j => mem.hdr[q[i]].atime <= mem.hdr[q[j]].atime

\* Sorted, and no item was stamped later than now, as the next item
\* item_link_q appends will be stamped.
LruqOrdered ==
    /\ LruqSorted
    /\ \A id \in Class : \A it \in Elems(mem.item_lruq[id]) : mem.hdr[it].atime <= now

\* Only a clock that is set back can take the lruqs out of order: no link,
\* touch, unlink, eviction, expiry or flush does.
LruqKept == [][LruqOrdered /\ now <= now' => LruqOrdered']_vars

\* When flush_all without a delay returns, nothing that was in the cache is
\* alive, although it only unlinks from the tail of each lruq; unless the
\* clock was set back and left a lruq unsorted when the walk begins.
FlushComplete ==
    [][\A c \in Conn :
         /\ conn[c].state = "flush" /\ conn'[c].state # "flush"
         /\ 0 < oldest_live /\ oldest_live <= now
         /\ LruqSorted
         => \A k \in Key : mem'.hash[k] # NoItem => item_dead(mem', mem'.hash[k])]_vars

\* The pool cannot give a slab: it is used up, or malloc may have failed.
PoolDry == mem.nslab = max_nslab \/ "malloc" \in Faults

\* Slab eviction cannot give one: the first SLAB_LRU_MAX_TRIES slabs of the
\* slab lruq are in use, and random eviction can have met one in use (or
\* there is none to draw).
SlabsInUse ==
    /\ evict_opt \cap {"AS", "CS"} # {} =>
          \A i \in DOMAIN mem.slab_lruq :
              i <= SLAB_LRU_MAX_TRIES => mem.slab_refcount[mem.slab_lruq[i]] > 0
    /\ "RS" \in evict_opt =>
          mem.nslab = 0 \/ \E s \in 1..mem.nslab : mem.slab_refcount[s] > 0

\* Item eviction cannot give an item of class id: the ITEM_LRUQ_MAX_TRIES
\* oldest are in use; without lru eviction they may also be unexpired.
ItemsInUse(id) ==
    use_lruq =>
        \A i \in DOMAIN mem.item_lruq[id] :
            LET it == mem.item_lruq[id][i]
            IN  i <= ITEM_LRUQ_MAX_TRIES =>
                    \/ mem.refcount[it] > 0
                    \/ "LRU" \notin evict_opt /\ ~item_expired(mem, it)

\* A storage command reports SERVER_ERROR out of memory only when all of its
\* sources are dry: for some class, no free item, no item left in the
\* current slab, no slab from the pool, and among the slabs and items that
\* eviction may try none to take.  What lies behind the try limits is not
\* looked at: it may well be evictable.
OomJustified ==
    [][\A c \in Conn :
         conn[c].state # "oom" /\ conn'[c].state = "oom" =>
            /\ PoolDry /\ SlabsInUse
            /\ \E id \in Class :
                  /\ use_freeq => mem.free_itemq[id] = << >>
                  /\ mem.free_item[id] = NoItem
                  /\ ItemsInUse(id)]_vars
=============================================================================
