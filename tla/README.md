# TLA+ models of twemcache

twemcache is Twitter's fork of memcached: a multithreaded, in-memory key-value
cache written in C.  This directory holds a formal model of its core, TLC
configurations that check the model on small instances, and machine-checked
TLAPS proofs of the properties that do not depend on the size of the instance.
`PROJECT.json` lists components, runs, mutants, the map from definitions to
source lines, hazards, findings and theorems; this file explains them.

Source paths below are relative to the repository (`src/mc_items.c` etc.).

## 1. The system

### Threads and shared state

| thread | does | shared state it touches |
| --- | --- | --- |
| dispatcher (main) | accepts connections, hands them to workers, runs the clock and stats timers | listening socket, workers' `new_cq` and notify pipes, `now` |
| worker, `num_workers` of them | runs the state machine of its connections: read, parse, execute, write | everything under `cache_lock`; `settings`; its own klog ring |
| hash maintenance | moves buckets to the larger table during an expansion | the hash table, under `cache_lock` |
| klogger | drains each worker's klog ring into a file | `r_idx` of the rings, without a lock |
| aggregator | adds the threads' metrics up | thread metrics, each thread's under its mutex; the sums, under a semaphore |

Items, slabs, queues and the hash are guarded by `cache_lock` (`slab_lock` nests
in it and guards nothing that is touched without it).  What happens between two
critical sections of one command is where the hard cases are: a reply is
sent, a value is read from the socket, and a multiget goes on to its next key
with items that other connections may delete, replace, evict or flush.  Only
reference counts stand between them and reuse of the memory.

### Inventory

| component (source) | state | operations | correct means |
| --- | --- | --- | --- |
| slab allocator (`mc_slabs.c`) | slabs, their class, refcount and utime; per class a current slab, a free queue; slab lruq | get an item, put an item, allocate a slab, evict one at random or by LRU | every chunk is in exactly one place; a slab in use is not evicted; out of memory only if nothing can be evicted within the try limits |
| items (`mc_items.c`) | header, flags, refcount; per class an lruq; `oldest_live`, `cas_id` | alloc, reuse, link, unlink, touch, get, remove, flush; set, add, replace, cas, append, prepend, incr/decr, delete | counts equal references; an item in use keeps its identity; the hash finds exactly the linked items; flushed or expired means gone |
| hash table (`mc_assoc.c`) | primary and old table, `expand_bucket`, `expanding` | find, insert, delete, expand, move buckets | lookups see a plain map during expansions; expansions end |
| request handlers (`mc_ascii.c`, parts of `mc_core.c`, `mc_connection.c`) | per connection `item`, `ilist`, `ileft`, state | storage commands, delta, delete, get/gets, flush_all, config evict; send, close | each reference is released once, on every path; what clients see is a map that may forget |
| time (`mc_time.c`) | `now` | `time_update`, `time_reltime` | queues stay sorted by access time as long as the clock does not go back |
| accepting and dispatching (`mc_core.c`, `mc_thread.c`, `mc_connection.c`) | listening on/off, descriptors, `new_cq`, notify pipes | accept, dispatch, take over, close | a socket has one owner; no connection is stranded; accepting resumes |
| command log (`mc_klog.c`) | ring buffer per worker, file, sampling | log, drain, rotate, config klog | nothing unread is overwritten, nothing logged is lost |
| connection state machine and framing (`mc_core.c`, `mc_ascii.c`) | read and write buffers, `rlbytes`, `sbytes` | read, parse, swallow, transmit | the next command starts where the last one ended |
| stats (`mc_stats.c`, `mc_thread.c`) | metrics per thread, their sums, semaphore, interval | count, aggregate, print, config aggregate | every event gets into the sums; replies are consistent and counters never go back |
| hot keys (`mc_hotkey.c`, `mc_kc_map.c`, `mc_key_window.c`, `mc_ring_array.c`) | options, window of samples, table of counters | sample, signal, reconfigure | window and counters agree, nobody samples during a reallocation, no key is signalled that is not hot |
| object cache (`mc_cache.c`) | free list of suffix buffers | get, put | no buffer is handed out twice |
| startup, options, signals, logging (`mc.c`, `mc_signal.c`, `mc_log.c`, `mc_util.c`) | settings, slab profile | compute or parse the profile, parse numbers, daemonise, log | the classes ascend and every size has the smallest class it fits in (the rest is not modelled) |

Interactions: a handler calls the item operations, which call the slab
allocator and the hash; eviction of a slab calls back into the item code to
unlink (`item_reuse`) what the slab holds; closing a connection releases its
items and switches listening on; a worker that has executed a command writes
to its klog ring.

The hard behaviours, line by line, are the `hazards` of `PROJECT.json`: items
used between critical sections, error paths in the middle of a multiget, an
allocation that fails after it evicted, `flush_all` racing with touches,
16-bit counts and 32-bit times, the table half moved, lost wakeups, a
lock-free ring with failing writes, accept racing with close, values that change
in place under a reply, sums built up while threads count, and buffers
reallocated under flags that nobody checks and sets in one step.

## 2. Modules

```
Queues -> Slabs -> Items -> Cache -> CacheStore -> MCCache      Assoc -> MCAssoc      Klog
                              |          |                        |
                              |        Store (abstract)         AssocMap (abstract)   Listen
                              |                                 Framing -> MCFraming  Stats
                              |                   Profile -> ItemData -> MCItemData   Hotkey -> MCHotkey

Items -> ItemsProofs -> CacheProofs     Assoc  -> AssocProofs       Framing -> FramingProofs
                            |           Listen -> ListenProofs      Stats   -> StatsProofs
                        CacheStore                                  Hotkey  -> HotkeyProofs
Klog, ItemData -> ByteProofs
```

**Queues** - the TAILQ operations as operators on sequences (`Without` is
`TAILQ_REMOVE`), free of recursion so that they can be proved about.

**Slabs** (`mc_slabs.c`) - memory is a record `h` with the state that
`cache_lock` guards (listed at `HeapType`); every function of the allocator is
an operator from `h` to the memory it leaves.  Item `i` of slab `s` is the pair
`<<s, i>>`, its address.  What the environment decides (does `malloc` succeed,
what does an uninitialised `utime` hold, which slab does `rand` pick) is an
argument `e \in Env(h, _)`, chosen once per critical section.  `ASSERT`s are
kept: one that does not hold adds its name to `h.failed` and execution goes on,
as in a release build.

**Items** (`mc_items.c`) - in the same style: `item_alloc`, `item_link`,
`item_unlink`, `item_remove`, `item_touch`, `item_get`, `item_flush_expired` and
the storage operations.  A value is its length (which decides its class) and
its cas id.  The hash appears as the map that *Assoc* shows it to be.

**Cache** (`mc_ascii.c`, `mc_core.c`, `mc_connection.c`, `mc_time.c`) - the
composition.  An action is one critical section, or one access to shared state
without a lock; between two steps of a handler every other connection may run.
`conn[c].state` says where the handler is, `hold[c]` what it refers to (slot 0
is `c->item` or the local `it` of `asc_process_read`, slot `i` is `c->ilist[i]`),
and `leak` counts the references that no pointer stands for any more: some
error paths of the code forget references, and the model forgets them too.

| code | actions |
| --- | --- |
| `asc_process_update`, `asc_process_annex` | the same names; then `oom_delete` or `asc_complete_nread`, `nread_done` |
| `asc_process_read` | `read_key`, `read_hit`, `read_no_iov`, `read_overlong`, `read_end` |
| `core_transmit`, `conn_cleanup`, `conn_close` | `transmit_complete`, `transmit_udp_error`, `conn_close`, `release_next` |
| `asc_process_delta`, `asc_process_delete` | the same names |
| `asc_process_flushall` | `asc_process_flushall` (sets `oldest_live` without the lock), `flush_expired` |
| `asc_process_evict`, `time_update` | the same names |

**Store, CacheStore** - what the cache promises: a map that may forget any key
at any time but never invents, mixes up or revives a value, with versions (cas
ids) that only grow.  `CacheStore` maps a key to the item a lookup would find
alive.

**Assoc, AssocMap** (`mc_assoc.c`) - primary and old table, incremental
expansion by the maintenance thread, the condition variable with its signal and
spurious wakeups; buckets are sets of items.  `AssocMap` is the map lookups see.

**Klog** (`mc_klog.c`) - one ring with its worker and the klogger.  The worker
decides, composes and publishes in three steps; the klogger copies `w_idx`,
writes once or twice, moves `r_idx` and rotates the file.  Bytes are numbered,
so that buffer and file tell which bytes they are.  Stores of one thread are
taken to become visible in program order: the code has no barrier and relies on
x86 here.

**Listen** (`mc_core.c`, `mc_thread.c`, `mc_connection.c`) - accept, dispatch in
turn, notify pipe, take over, close.  Connections are named by their
descriptor, which the system reuses as soon as it is closed.

**Framing** (`mc_core.c`, `mc_ascii.c`, `mc_connection.c`) - one TCP connection.
The client's requests are a stream of units, each a run of bytes of a line or of
a data block; only a request that stores has data, and only those that store or delete
may say noreply.  `End(reqs, k)` is where the k-th request ends in `Stream(reqs)`, which
the properties compare with where the server is.  `arrived` units are on the socket, `rd` have been read, the last
`c.rbytes` of those are in the read buffer at offset `c.rcurr`.  `c` is the
`struct conn`, `loop` the locals of `core_drive_machine` and `core_read_tcp`; an
action is one pass through the `switch`, or one `read` of the loop in
`core_read_tcp`.  Replies are parts (a value, or the end of a reply) that name
their request; the socket holds `SndBuf` of them until the client reads.  What a
handler does is left to Cache: here a storage command reads its data, is
refused, or has no memory, a get writes some values and an end, everything else
writes one line.  A data block that reaches the parser is taken for an unknown
command.

| code | actions |
| --- | --- |
| `CONN_WAIT`, `CONN_NEW_CMD` | `conn_wait`; `conn_new_cmd`, `conn_yield` |
| `CONN_READ`: `core_read`, `core_read_tcp` | `core_read_tcp`, `core_read_limit`, `core_read_nomem` |
| `CONN_PARSE`: `asc_parse`, `asc_dispatch` | `asc_parse_eagain`, `asc_process_read`, `_update`, `_delete`, `_stats`, `_quit`, `_unknown` |
| `CONN_NREAD`, `CONN_SWALLOW` | `core_complete_nread`, `conn_nread`; `conn_swallow_end`, `conn_swallow_buffered`, `conn_swallow` |
| `CONN_WRITE`, `CONN_MWRITE` | `core_transmit`, `core_transmit_complete`, `conn_add_iov_assert` |
| libevent, `CONN_CLOSE` | `core_event_handler`; `core_close` |

**Profile** (`mc.c`, `mc_slabs.c`) - the item sizes of the slab classes, generated
from a factor or given by the user, and the binary search of `slab_id`, as
recursive functions.  `ClassesExact` (part of `SlabIdExact`) compares them with what they are to compute, for
every slab of up to 12 units, every first size, four factors and every list of
sizes a user may give.

**ItemData** (`mc_items.c`, `mc_ascii.c`, `mc_core.c`, `mc_util.c`) - the bytes of the
value of one key, in the items that hold it.  An item is a chunk of
`profile[id]` bytes; `item_data` says where the value starts, which for a
right-aligned item depends on `nbyte`.  A change in place takes two steps (the bytes,
then `set_nbyte`), and a reply five: `item_get`, `respond_nbyte`, `respond_data`,
`core_transmit` (some of the bytes at a time), `item_remove`.  Beside the bytes an item
carries `want`, the value its commands should have made.  Two races are known to
tear replies, and one sequence to spoil a value; they are flagged (`excused`,
`shrunk`) where they happen and nowhere else, so that the properties hold for
everything that is not flagged.  In the run digits are binary and `UINT64_MAX` is 7.  The
module's `DataInit`, `DataNext` and `DataSpec` are named so that ByteProofs can extend it beside Klog.

**Hotkey** (`mc_hotkey.c`, `mc_key_window.c`, `mc_ring_array.c`, `mc_kc_map.c`,
`mc_ascii.c`) - the ring and the open-addressed table as in the code; the window's
entries are table indices.  A sample is one step under `cache_lock`; the commands
are not under that lock, and check and change in separate steps.  `recent` (the keys
of the window) and `verdict` are history.  If a reallocation begins while another
thread is in the middle of something, or the detector has been enabled
meanwhile, what follows is undefined: `fate` is `"race"` and the model stops.

| code | actions |
| --- | --- |
| `item_get`, `hotkey_sample`, `key_window_push`, `key_window_pop` | `item_get`, `hotkey_sample` |
| `config hotkey enable` | `asc_process_hk_enable`, `hk_enable_store`, `hk_disable` |
| `config hotkey redline`, `sample_rate` | `asc_process_hk_resize`, `hotkey_update`, `hotkey_realloc` |
| `config hotkey qps_threshold`, `bw_threshold` | `hotkey_update_qps_threshold`, `hotkey_update_bw_threshold` |

**Stats** (`mc_stats.c`, `mc_thread.c`, `mc_ascii.c`) - two workers and the dispatcher, each
with its metrics, and the aggregator.  One counter of threads (`get_key`), one of slab
classes (`get_key_hit`) and one gauge (`conn_curr`, a pair of counts) stand for all.
Every `sem_wait` and `sem_post` is a step, every thread is added in one step (its mutex
is held), and a reply reads the metrics of threads and the sums over classes in
two.  `lo` remembers what was true when the aggregation began, `reported` the last
reply.

**ItemsProofs, CacheProofs, AssocProofs, ByteProofs, ListenProofs, StatsProofs, HotkeyProofs,
FramingProofs** - section 5.

**MCCache, MCAssoc, MCFraming, MCItemData, MCHotkey** hold constants a cfg cannot write.  Definitions with a name
ending in `_bug` are plausible mistakes in the code; they are not part of any
specification.  Each is used in place of the definition it varies to confirm
that a property notices it.

## 3. Runs

Every run checks deadlock too, except those of Listen, where a server out of
descriptors may really come to a stop, of Framing, where a connection ends, and of
Hotkey, where a race or a crash ends the behaviour.

| run | question | properties |
| --- | --- | --- |
| `cache_rs` | Default policy (random slab eviction), switched on at run time, with one slab that goes from one class to the other, also while it is the current slab of its class or has free items; all storage commands, incr, delete, get, touch and expiry; over-long keys in multigets and the references they leak: do refcounts, hash, queues and values being read stay consistent, do held items keep their identity, and does the cache implement the abstract store? | `TypeOK`, `RefcountExact`, `HashMatchesLinked`, `NreadPrivate`, `ChunksAccounted`, `HeldItemsKept`, `ImplementsStore` |
| `cache_lru` | Item LRU and slab LRU by creation, with try limits shorter than the queues; `flush_all`; a clock that is also set back; multigets without memory for a value or for END, and UDP send errors; failing `malloc`; garbage in `utime`: are references exact, does no assertion fail, does an allocation fail only when all it may try is in use, does only the clock take a lruq out of order, and does walking ordered lruqs from their tails plus the lazy check kill everything? | `RefcountExact`, `ChunksAccounted`, `NoAssertFails`, `OomJustified`, `LruqKept`, `FlushComplete` |
| `assoc` | Two expansions interleaved with insertions and deletions: a plain map for lookups, no lost signal, and an end? | `Reachable`, `NoLostWakeup`, `ImplementsMap`, `ExpansionEnds` |
| `klog` | Short and failing writes, rotation, logging switched off and on: is the ring faithful, the file complete, and everything written in the end? | `RingFaithful`, `FileComplete`, `DiscardOnlyWhenFull`, `Drained` |
| `listen` | Descriptors reused at once, system calls failing: one owner per socket, no lost wakeup, every connection served? | `SocketsOwned`, `Notified`, `Served` |
| `framing` | Pipelined requests in any pieces, full sockets, noreply, refused lines, no memory, yields, failing calls: do buffers hold, do requests start where the last one ended, has each its one reply in order, and is every one handled or the connection closed? | `RbufBounds`, `InSync`, `Answered`, `Completed` |
| `itemdata` | A value that is set, appended to, prepended to, incremented and deleted, in place or by copy, while another connection sends it: is nothing outside it written, is it the value intended, and is every reply whole?  Do the number parser and the class search compute what they should? | `ValueInside`, `ValueIntended`, `SentAsStored`, `NumbersExact`, `SlabIdExact` |
| `hotkey` | Samples and reconfigurations by two threads, with failing allocations: do window and table go with each other, count the same samples, and signal only what is frequent? | `SamplesSafe`, `EntriesCounted`, `SignalJustified` |
| `stats` | Threads count while they are added up, and replies are written: are sums between before and after, replies consistent and increasing, and is everything counted in the end? | `HitsWithinKeys`, `SumsInBetween`, `CountersIncrease`, `EventuallyCounted` |
| `framing_swallow` | See section 4: is the data block of a storage command swallowed when there is no memory for it? | `DataSwallowed` (violated) |
| `framing_end` | See section 4: does a get that runs out of memory after a hit end in an error? | `EndSent` (violated) |
| `stats_classes` | See section 4: do the sums over all slab classes have all slab classes? | `SumsOverAllClasses` (violated) |

In modules whose type invariant has no line of its own it is the first conjunct
of `Reachable`, `RingFaithful`, `SocketsOwned`, `RbufBounds`, `ValueInside`, `SamplesSafe` or
`HitsWithinKeys`.

### Bounds

- *Two connections, two keys.*  Every conflict in this code is between two
  handlers on one item (same key) or one slab (different keys); a third
  connection takes the same locks in the same order.  Keys and connections are
  symmetric: no action or property tells them apart.  Only safety is checked
  under symmetry.
- *One or two slabs, one or two items each, one or two classes.*  Two slabs are
  what it takes to evict one while the other is in use; two classes to move a
  slab from one class to another; two items to evict a slab that holds a
  linked and a free or untouched chunk.  With two keys and the values being
  read all chunks can be in use, so the heap does run out.
- In `cache_lru` `ITEM_LRUQ_MAX_TRIES` and `SLAB_LRU_MAX_TRIES` are 1 and the queues have up to
  two elements, so that a search gives up in front of something it could take.
  `ITEM_UPDATE_INTERVAL` is 1 or 0: an item is touched in the second it was linked, or later.
- Faults and policies are shared out between the two runs of Cache: random eviction, none
  before it is switched on, and `overlong` in `cache_rs`; item and slab LRU, `malloc`, `iov`
  and `udp` in `cache_lru`.  Slab LRU by access (`AS`), a switch between the LRU policies, and
  delayed flushes are in no run; the theorems of section 5 have them.
- `IlistMax` (hits of a multiget) is 1: an old entry of `ilist` that an error left
  behind is forgotten by the next get.  `MaxLeak` bounds the leaked references: 1 in
  `cache_rs`, 0 in `cache_lru`, where what an error left in `ilist` is released when the
  connection closes and the get that would overwrite it is not followed.
- `MaxTime` and `ClockStep`: in `cache_rs` the clock is at 2 or 3 and items live for a second, so that
  those stored at 2 expire and those stored at 3 do not; in `cache_lru` they have no expiry.
  There the clock goes from 2 to 4 and back: a `flush_all` at 4, whose horizon is 3, meets
  items used before and after the horizon, in order or, after the clock was set back, not.
- `TimeMod` = 64 and `RefMod` = 16 stand for 2^32 and 2^16.  `TimeSub` wraps, and only in the
  first `ITEM_UPDATE_INTERVAL` seconds, of which the runs have one or none: that it may
  wrap is left to the theorems.  `MaxCas` = 3 versions.
- Assoc: seven keys, sizes 2, 4 and 8, `nhash_move_size` 1: two expansions, the
  second starting with chains the first one has made; one key has two items, so
  that an insertion after a deletion differs from the deleted item.
- Klog: a ring of six bytes, entries of up to two bytes, nine bytes in all: the
  ring wraps once and a half, at every offset; one system call fails.
- Framing: every pair of twelve kinds of requests and three pipelines of four.
  The buffer has two units and is doubled at most twice (four times in the code),
  it is shrunk above four, a line may have two units: requests are shorter than
  the buffer, straddle it, make it grow to its limit, and shrink with a rest in
  it.  `reqs_per_event` 1 makes every request yield; the socket takes two parts, a
  get writes up to three.
- Listen: two workers, two descriptors, two clients waiting: descriptors are
  reused while their last owner is still closing; a third descriptor adds no
  new owner.  `MaxNotify` keeps failing reads from filling the queue of bytes.

- ItemData: two classes with room for values of one and of three digits, so that
  values grow within their class and out of it, at both ends; three items are the
  linked one, the one its value is copied to, and one a reader keeps; one reader,
  as readers only share the item, which they do not change.
- Hotkey: windows of 0 to 3 samples, so tables of 0 to 6 entries, and three keys
  that collide in some of them (see `Hash`): a probe chain is cut while two keys
  of it are still counted.  `CounterMod` 2 is a multiple of the rates, so that the
  counter never wraps between two samples (2^64 is out of reach); a second has two units, so that a window fills at, above and
  below the redline.
- Stats: two workers, two classes, the last of which the sums should have too
  (`stats_classes`), one lookup and one connection: each property compares two counts of the
  same event, and one event in flight is what it takes to set them apart.

### Fairness

- Assoc: weak fairness of the maintenance thread, which is scheduled and gets
  `cache_lock` in the end.  Nothing is assumed of clients.
- Klog: weak fairness of the klogger: its timer is rearmed at every event, and
  its calls return.  That a write *succeeds* in the end follows from the bound
  on failing calls.
- Listen: weak fairness of the dispatcher and of what a worker does by itself
  (libevent reports a readable pipe); none for clients that connect or leave.
- Framing: weak fairness of the thread (libevent is level-triggered and reports a
  socket as long as it is ready), of the network, and of the client reading what
  it is sent: a client that never reads rightly blocks its connection.
- Stats: weak fairness of the timer (rearmed on both branches of
  `thread_aggregate_stats`), of the aggregation once it has begun, and of replies under way.
  `EventuallyCounted` assumes that replies pause in the end: a semaphore gives no
  guarantee to a thread that wants all of its counts while others keep
  taking one.
- Cache, ItemData and Hotkey have no fairness: only safety is checked.

## 4. What the checks found

1. `framing_swallow`: a storage command with `noreply` for which there is no memory:
   `asc_process_update` sets `write_and_go` to swallow the data block, but without a
   reply to write the connection is already in `CONN_NEW_CMD`, and the data block is
   parsed as a command (`mc_ascii.c:1151`).
2. `framing_end`: where there is no room for the `END` of a get, `mc_ascii.c:1067-1070` says
   that `END` cannot be added, `So we send SERVER_ERROR instead`.  The error is put into
   `wbuf`, and `CONN_WRITE` adds `wbuf` to the response only if that is empty
   (`mc_core.c:712`).  After a hit it is not: the client gets the values, and neither `END`
   nor an error.
3. `stats_classes`: `mc_stats.c:527` says `sum slab level stats over all slab classes and
   store in slab class 0`, but its loop stops before `SLABCLASS_MAX_ID` (`mc_stats.c:529`),
   which the loops that reset and add classes include.  What happens in the class with
   the largest id is not in the sums that `stats` prints.

Met while modelling, without a run of their own:

- *Requests and items.*  An over-long key after a hit in one get: `asc_process_read`
  returns without setting `ileft`, so the references of the hits are never
  released (`mc_ascii.c:984`, action `read_overlong`), and their slabs can never be
  evicted again; out of memory at `END` and a UDP send error leave `ilist` behind in
  a similar way.  A get that found its item before a `flush_all` touches it afterwards:
  the item gets a new access time and escapes the flush (`mc_items.c:525`), though
  `mc_core.h:278` says `ignore existing items older than this`; and a delayed
  `flush_all` overwrites the horizon of an earlier one.
- *The clock.*  `now` is the wall clock (`mc_time.c:80`).  Set back, it makes items that are
  used later stand behind items with later access times, although `mc_items.c:697` says
  `Lru q is sorted in ascending time order`, and the walk of `flush_all` relies on it: it
  stops at the first item older than the horizon and leaves younger ones before it
  alive.  `FlushComplete` excuses a flush that finds its queues so; `LruqKept` says that
  nothing but the clock brings them there.
- *Out of memory.*  Eviction looks at 50 slabs (`mc_slabs.c:485`) and 50 items
  (`mc_items.c:275`).  If they are all in use, an allocation fails though the next one may
  be free; `OomJustified` says just this.
- *Bytes.*  A decr that makes the number in a right-aligned item (one that was
  prepended to) shorter writes it at the old start and then moves the start
  (`mc_items.c:1062`): the value becomes the last digits of the old bytes.  A reply
  that is being sent while an incr or decr works in place is torn, and so is one
  whose two reads of `nbyte` see a prepend in between (`mc_ascii.c:886`).  The
  exceptions in `ValueIntended` and `SentAsStored` are exactly these.
- *Hot keys.*  `config hotkey redline` may begin to reallocate while another thread
  enables the detector or is sampling (`fate = "race"`); a redline below the sample
  rate makes a table without entries, and the first sample divides by zero
  (`mc_kc_map.c:62`); `_hotkey_realloc` does not recompute `hotkey_threshold`; a
  cut probe chain gives a key a second counter, and a hot key can be missed;
  after a failed reallocation the detector cannot be enabled until one succeeds.
- *Stats.*  `config klog interval` sets the interval of stats aggregation
  (`mc_ascii.c:1476`); `conn_curr` may be too large, as workers are added before the
  dispatcher, but never negative; `aggregate_ts` is printed before the semaphore is
  taken, and the maximum of a gauge is updated after it is released; a change in
  place alters the `nbyte` that the gauge `data_value_curr` was incremented with.
- *Accepting.*  `accept` fails for want of a descriptor; before the dispatcher
  switches listening off, a worker closes a connection and switches it on; it then
  stays off although a descriptor is free (`mc_core.c:482`), until another connection
  is closed.  `ChangeLog:69` lists the like as fixed.  `thread_dispatch` queues a
  connection before it writes the pipe, so a failing write leaves a closed socket in
  the queue (fault `pipe` of Listen).
- *Connections.*  Without memory for the read buffer before the first
  request, `conn_add_iov` fails its assertion that there is a msghdr
  (`conn_add_iov_assert`); if `core_update` fails when a thread yields, the connection
  is in `CONN_CLOSE` but nothing drives it on (fault `event` of Framing); requests that
  exactly fill the read buffer are dropped if the client shuts down right after them.
- *Slabs.*  Started with `-M 8`, `slab_get_item` never takes from the free queue but
  `item_free` still fills it, and `slab_get`'s assertion that it is empty fails at
  `mc_slabs.c:553` (`NoAssertFails` with slab LRU eviction only, two classes and one slab); if
  malloc fails for the very first slab under random eviction, `slab_table_rand`
  divides by zero; `config maxbytes` is answered with OK but the limit of the heap is
  computed once, at startup (`mc_slabs.c:219`).
- *Klog.*  When the second of two writes of a wrapped ring fails, the bytes of the
  first are written twice.  The usage text says that `-x` will `size the thread-local
  command log buffer to hold at least this many entires` (`mc.c:256`), and `mc.c:718` accepts
  1; the buffer then has `KLOG_ENTRY_SIZE` bytes (`mc_klog.c:129`), of which `klog_remain`
  leaves one free, so that every entry is discarded (`mc_klog.c:410`; `klog.cfg` with
  `klog_entry = 1` violates `DiscardOnlyWhenFull`).  From two entries on the promise is kept.

## 5. Proofs

Proved with TLAPS, for every value of the constants that their assumptions allow: any
set of connections and keys, any number of slabs, classes and items per slab, any
policy, any faults and any clock, unless the table says otherwise.

| module | theorem | states | under |
| --- | --- | --- | --- |
| CacheProofs | `TypeCorrect` | `Spec => []TypeOK`; counts are naturals, so no release finds a count of zero | |
| | `RefcountsExact` | `Spec => []RefcountExact`: counts of items and slabs are the references to them | |
| | `AlwaysConsistent` | `Spec => []Consistent`, the inductive invariant of the cache | |
| | `HashIsExact` | `Spec => []HashMatchesLinked` | |
| | `NoChunkLost` | `Spec => []ChunksAccounted`, the slab lruq included | |
| | `ReadingIsPrivate` | `Spec => []NreadPrivate` | |
| | `AssertionsHold` | `Spec => []NoAssertFails` | `Ideal` |
| | `ReferencesProtect` | `Spec => HeldItemsKept` | |
| | `CacheImplementsStore` | `Spec => ImplementsStore` | cas ids, no `flush_all`, clock not going back |
| | `OomIsJustified` | `Spec => OomJustified`, for all try limits | |
| | `LruqKeepsOrder` | `Spec => LruqKept`: only a clock that goes back takes a lruq out of order | |
| | `FlushIsComplete` | `Spec => FlushComplete` | |
| AssocProofs | `ItemsReachable` | `Spec => []Reachable` | |
| | `WakeupKept` | `Spec => []NoLostWakeup` | |
| | `TableImplementsMap` | `Spec => ImplementsMap` | |
| ByteProofs | `RingIsFaithful` | `Spec => []RingFaithful` | |
| | `FileIsComplete` | `Spec => []FileComplete` | |
| | `DiscardsWhenFull` | `Spec => DiscardOnlyWhenFull` | `klog_entry > 1` |
| | `GeneratedExact` | the classes made from any slab size, first chunk and factor ascend to the whole slab, and `slab_id` finds the smallest that fits | |
| | `ParserReads` | `mc_strtoull_len` reads every string, of any length, as what it denotes | |
| | `ValuesStayInside` | `DataSpec => []ValueInside` | |
| | `ValuesAsIntended` | `DataSpec => []ValueIntended` | |
| | `RepliesAsStored` | `DataSpec => []SentAsStored` | |
| | `ClassesFit` | `DataSpec => []SlabIdExact` | |
| | `NumbersAreExact` | `DataSpec => []NumbersExact` | |
| ListenProofs | `OneOwner` | `Spec => []SocketsOwned` | no failing write to a notify pipe |
| | `EveryoneNotified` | `Spec => []Notified` | no failing write to a notify pipe |
| FramingProofs | `BufferIsNeverOverrun` | `Spec => []RbufBounds` | |
| | `StreamStaysInSync` | `Spec => []InSync` | |
| | `RepliesAreInOrder` | `Spec => []Answered`; it leaves open how a get cut off by lack of memory ends | |
| StatsProofs | `RepliesAreConsistent` | `Spec => []HitsWithinKeys` | |
| | `SumsAreInBetween` | `Spec => SumsInBetween` | |
| | `CountersOnlyIncrease` | `Spec => CountersIncrease` | |
| HotkeyProofs | `SamplesAreSafe` | `Spec => []SamplesSafe`, which says nothing once `fate` is `"race"` | |
| | `OneWorkerIsSafe` | `Spec => [](SamplesSafe /\ fate # "race")` | one worker thread |
| | `EntriesAreCounted` | `Spec => []EntriesCounted` | |
| | `SignalsAreJustified` | `Spec => []SignalJustified` | |

### Assumptions

`SlabAssumption`, `ItemAssumption`, `CacheAssumption`, `AssocAssumption`, `KlogAssumption`,
`ListenAssumption`, `FramingAssumption`, `StatsAssumption` and `HotkeyAssumption` give the
constants their types (and say that a number fits into an item, and that there are finitely
many keys to sample: a probe of the table has to end).  `ProfileAssumption` and
`ByteAssumption` do the same for ItemData; its `DataAssumption` also says that the classes ascend,
which `GeneratedExact` shows of those made at startup, and that the base is no more than
`UINT64_MAX`; `NumberAssumption`, that every number fits into some class, is the assertion
of `_item_delta`.  `RefAssumption` says that all references there can be, with two to spare,
fit into a refcount: the code does not check for overflow in a release build, and a
count that wraps breaks the theorems.  With 16 bits that is 65533 references to one
slab.

The conditions of single theorems are each needed:

- `Ideal` is `use_freeq`, room for at least one slab, and a `malloc` that does not fail.
  Without the free queue `slab_get`'s assertion fails, and without a first slab
  `slab_table_rand` divides by zero (section 4).
- The store has no `flush_all`: a flush moves `oldest_live`, and a later, delayed one may
  move it into the future again, so that what was flushed comes back.  Without cas
  ids a value that is replaced cannot be told from the one before.  The setting is
  that of run `cache_rs`.
- If the clock goes back, what expired lives again, which the store does not allow.
- With two workers one may enable the detector, or take a sample, between the other's
  check that it is disabled and its reallocation (section 4).
- A failing write to the notify pipe leaves a closed socket in a queue, and a buffer for
  one log entry discards everything (section 4).

### The cache: references

The invariant of CacheProofs is

    Inv == TypeOK /\ now >= 2 /\ Counted(hold, mem, leak)
           /\ \A c \in Conn : PhaseOK(conn[c], hold[c])

`Counted` is `RefcountExact` over explicit arguments together with what it needs
to be inductive: the heap is well-formed (`HeapOK`: queues and hash point into
allocated slabs), slabs not yet allocated have count 0, and leaks of an item are
leaks of its slab, within the bound.  `PhaseOK` relates where a handler is with
what it holds: `RefcountExact` alone is not inductive, as a handler that releases
slot 0 must be known to hold something there.  `now >= 2` keeps `oldest_live`
a natural number.

The proof is layered like the code.  Each operator of Slabs is shown to be
`Quiet` (counts are as before) and to keep `HeapOK`; each operator of Items to be
`Quiet`, `Plus` one reference (`item_acquire_refcount`, `item_alloc`, `item_get`), or
`Minus` one (`item_remove`), given `Room` for the references it takes meanwhile.
These compose: `item_get` then `item_remove` is quiet, so each protocol operation
is.  Eviction needs `CountsOK`: a slab with count 0 has no item with a count, so
re-initialising its items changes none.  At the top there is one lemma per kind
of change to `hold` (take, drop, move, lose), each a computation with the
cardinalities of the reference sets, and one step per action of `Next`.

### The cache: memory

The second half of ItemsProofs adds `Sound(h, X)`: memory is well-formed, every allocated slab is once in the
slab lruq (`SlabsOK`), the queues of each class hold exactly its linked (`LruqOK`) and
free (`FreeqOK`) items, the hash finds exactly the linked ones (`HashOK`), the current
slab of a class is one of its slabs (`CurrentOK`), what is free or was never
handed out has no reference and what is referenced has a key (`ItemOK`), and every
chunk is linked, free, referenced, not handed out yet, or in `X` (`Whereabouts`).  `X` is
what makes this provable: in the middle of an operation an item is in nobody's hands
but the operation's (`item_unlink` has taken it out of the hash, `item_free` has not
put it into the free queue), so each function is specified by the `X` it takes and
the `X` it leaves; between critical sections `X` is empty.  `OneItem` covers the
operations that change a single item.  `Keeps` and `Spares` say that what is
referenced keeps its header and class; `ReferencesProtect` follows from them.

    Consistent == Inv /\ Sound(mem, {}) /\ NreadPrivate /\ OomKeys
                  /\ (Ideal => NoAssertFails)

is inductive.  Its parts need each other: `item_link` keeps the hash exact because the item
whose value is complete has not been linked or freed meanwhile (`NreadPrivate`), and
`NreadPrivate` needs `Sound`, so that no lookup, eviction or flush finds that item;
`oom_delete` needs to have a key (`OomKeys`).

### The cache: versions and times

For the store, every operator of Slabs and Items is `Tame` (it stores nothing: whatever
is linked afterwards was linked before, with the same contents) or `Wrote` one item,
under the next cas id; `Lawful` is either.  All of them keep `Fits`: lengths are lengths
that some class holds.  Every critical section is `Lawful`, and a `Lawful` change is a step of the store
that forgets and writes, or a stutter.

For the queues, `LruqOrdered` says that access times ascend along each lruq *and that none
is later than the clock*; the second half is the strengthening, without which appending an
item touched now need not keep the order, and the half that a clock set back destroys.
Each operator is `Tidy` (keeps that order), and `Tidy` composes; `LruqKept` is the resulting
fact about steps.  `FlushLeaves` then shows by the order of the queue that what the walk
does not reach is older than `oldest_live`, and `FlushEnds` that a connection leaves
`flush_all` only by that walk; as the order is a premise of `FlushComplete`, nothing is
assumed of the clock.

`OomIsJustified` goes down the allocation: `SlabGetDry` (no slab comes back only if the pool is
dry and eviction finds every slab it may try in use), `LruqDry` (the same for the items of a
class), `AllocDry` (an `item_alloc` without an item left free queue, current slab, pool and both
evictions dry, all in the memory it started from, since it has changed nothing by then).

### The other components

- *Assoc.*  `Placed` (an item is in the bucket that `assoc_find` would look in, given how
  far the expansion is), `OneEach` (no key twice) and `Counts`
  (`nhash_item` is the number of items).  Every step is then a step of the map or leaves every lookup as it was.
- *Klog.*  `RingInv` gives the bytes in the ring their numbers, `WorkerInv` and `KloggerInv`
  say what each side may conclude from the copy of the other's index that it has read:
  as the indices only move on, an old `r_idx` makes the ring look fuller than it is and
  an old `w_idx` emptier, so both err on the safe side.
- *Listen.*  What has an owner is open (`OwnedOpen`), has one owner (`OwnedOnce`), what is
  open has an owner (`OpenOwned`), and the bytes in a pipe, with the one a worker is acting
  on and the one the dispatcher is about to write, are no fewer than the connections
  in the queue (`Notified`, which is inductive together with these).
- *Framing.*  `Pos` is the number of units the server is done with: those read less those
  in the buffer.  `Place` ties it to the stream: between requests it is the `End` of the
  last request, while data is read or swallowed it is short of that by what is left to
  read.  Neither `InSync` nor `Answered` is inductive without it.  `Flags` says
  which of the pending reply, `noreply` and the data still to be read may exist together, and
  `Sorted` that the parts on the socket followed by the ones pending are in order, and end
  just the requests that are due a reply.  What is known of `Stream` and `End` for all
  requests is shown by picking the first request for which it would fail, so that no
  induction scheme with a formula as parameter is needed.
- *Stats.*  `Counts` says that the semaphore is what the readers and the aggregator have left
  of it; `Locals`, that a thread has counted no more hits than keys, lookups under way
  included; `Sums`, that the partial sums are between what was true when the aggregation
  began and what is true now; `Replies` and `Printed`, that what a reply has copied so far
  is what is summed, as the semaphore keeps the aggregator out until it is sent.
  `HitsWithinKeys` needs all of them: a hit is counted after its key, but keys and hits are
  summed one thread at a time.
- *Hotkey.*  `Control` says that while a reallocation is under way nobody samples and the
  detector is off, unless `fate` says that it was not; `Filled`, that ring, window
  and table have one size, that a counter of the table is the number of elements of the ring
  that point to it, and that an entry stays free, so that a probe ends.  `NoRace`, for one
  worker: who is about to reallocate has found the detector disabled, and it still is, as
  nobody else could enable it.

### Recursive functions and the bytes of values

`slab_id`, `mc_strtoull_len`, `snprintf` and `mc_generate_profile` are recursive functions, and
nothing is known of such a function before it is shown to exist.  `Recursion` shows it
once: if what a definition says at x depends only on arguments of a smaller measure
(`Descends`), there is a function that satisfies it.  No prover can be given an operator
to induct on, so induction is stated for sets (`SetInduction`, `MeasureInduction`, from the well-foundedness of
`<` in the library), and each fact is the membership of all arguments in the set of those it
holds for.  `SearchFinds` keeps, for the ranges the binary search gets to, that everything below
is too small and the upper end is large enough; `ScanClean` keeps that the number so far
is the one the digits so far denote, and below the limit; where the range check refuses a digit, the
number only grows from there, so that the whole string denotes nothing readable either.

The inductive invariant of ItemData is

    DataInv == Items /\ Writing /\ Readers

`Items`: an item in use is `Good` (header and key are intact, and there is room for value and
terminator), and its bytes are the value wanted unless a number is half overwritten.  `Writing`, while a change in
place has written the bytes and not yet `nbyte`: the new value can be read where it will start, and
when something is added the old value lies within the new one.  `Readers`: what a connection is
to send is still there, within the value.  `ValueInside` is not inductive without the room for
the terminator, as an append in place is allowed by the class of the new length;
`SentAsStored` needs `Writing`, because a reader may come between the two steps of an
append, and then `set_nbyte` moves the start of a right-aligned value away from under
it.  The steps rest on a few facts about runs of bytes: what is written is
read back, what lies elsewhere is spared, adjacent runs make one.

### Only model-checked

Liveness (`ExpansionEnds`, `Drained`, `Served`, `Completed`, `EventuallyCounted`), which is out of
the prover's reach.

## 6. Not modelled

- The text of requests and replies: Framing knows a line is accepted or refused,
  and Cache what it asks for.  Of number formats there is `mc_strtoull_len`, in
  ItemData.
- The object cache: a free list per worker that no other thread uses.
- `stats sizes`, `stats settings` and `stats cachedump`, which only read, and the buffer a
  stats reply is collected in.
- UDP framing, process setup, signals and logging.
- `settings` changes other than `config evict`, `config klog`, `config aggregate` and
  `config hotkey`: `config verbosity` and `config maxbytes` change nothing the models
  have.
- Memory ordering weaker than x86's, for the flags and rings used without a lock.

## 7. Plan

Done: the core (Queues, Slabs, Items, Cache), its abstract store, the hash table,
the klog ring, the dispatch of connections, the framing of requests, the bytes of
values, the slab profile, the hot key detector and the stats; the theorems of
section 5, which settle every safety property that the passing runs check.

Left: UDP framing.
