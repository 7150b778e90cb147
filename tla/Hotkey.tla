------------------------------- MODULE Hotkey -------------------------------
(***************************************************************************)
(* The hot key detector (mc_hotkey.c): item_get samples one in so many     *)
(* keys into a window of the latest samples (mc_key_window.c), a ring of   *)
(* pointers (mc_ring_array.c) to the counters of an open-addressed table   *)
(* (mc_kc_map.c), and marks the item when its key has a large share of the *)
(* window.  "config hotkey" (mc_ascii.c) sets its parameters; two of them  *)
(* reallocate the window and the table.                                    *)
(*                                                                         *)
(* Samples are taken under cache_lock, commands are executed without it.   *)
(* The time since the oldest sample of the window is an input.             *)
(***************************************************************************)
EXTENDS Integers, FiniteSets, Sequences

CONSTANTS
    Thread,         \* worker threads
    Key, hash,      \* keys, and their hash values
    NoKey,
    Redline, Rate,  \* values of the options redline and sample rate
    Share,          \* of the qps threshold, in percent
    Bw,             \* of the bandwidth threshold
    CounterMod,     \* bound for 2^64, a multiple of the rates
    Second,         \* of how many units of time a second consists
    Elapsed,        \* times a window may take to fill
    Size            \* sizes of a key with its value

ASSUME HotkeyAssumption ==
    /\ IsFiniteSet(Key) /\ hash \in [Key -> Nat] /\ NoKey \notin Key
    /\ Redline \subseteq Nat \ {0} /\ Rate \subseteq Nat \ {0}
    /\ Share \subseteq 1..100 /\ Bw \subseteq Nat
    /\ CounterMod \in Nat \ {0} /\ Second \in Nat \ {0}
    /\ Elapsed \subseteq Nat /\ Size \subseteq Nat

VARIABLES
    opt,        \* the parameters, with hotkey_threshold and hotkey_window_size
    enable,     \* settings.hotkey_enable
    realloc,    \* hotkey_realloc
    counter,    \* hotkey_counter
    queue,      \* the ring of table indices, or Null
    key_window, \* key_window_size and key_window_max
    table,      \* the counters, or Null
    at,         \* per thread, where it is
    recent,     \* the keys of the window, oldest first
    verdict,    \* the last complete sample: what was counted and signalled
    fate        \* "ok"; or "race" or "crash", and what follows is undefined

vars == <<opt, enable, realloc, counter, queue, key_window, table, at, recent, verdict, fate>>

Null == << >>

-----------------------------------------------------------------------------
(***************************************************************************)
(* mc_ring_array.c: of cap + 1 places one is always free.                  *)
(***************************************************************************)
ring_array_create(cap) == [cap |-> cap, rpos |-> 0, wpos |-> 0, data |-> [i \in 0..cap |-> 0]]

ring_array_nelem(arr) ==
    IF arr.rpos <= arr.wpos THEN arr.wpos - arr.rpos ELSE arr.wpos + (arr.cap - arr.rpos + 1)

\* A full array stays as it is.
ring_array_push(arr, elem) ==
    IF ring_array_nelem(arr) = arr.cap THEN arr
    ELSE [arr EXCEPT !.data[arr.wpos] = elem, !.wpos = (@ + 1) % (arr.cap + 1)]

\* What is left in a free place does not matter.
ring_array_pop(arr) == [arr EXCEPT !.rpos = (@ + 1) % (arr.cap + 1), !.data[arr.rpos] = 0]

\* The elements, oldest first.
Elements(arr) ==
    [i \in 1..ring_array_nelem(arr) |-> arr.data[(arr.rpos + i - 1) % (arr.cap + 1)]]

-----------------------------------------------------------------------------
(***************************************************************************)
(* mc_kc_map.c: linear probing; an entry with count 0 is free.             *)
(***************************************************************************)
kc_map_entry_reset == [key |-> NoKey, count |-> 0]

kc_map_init(size) == [i \in 0..(2 * size - 1) |-> kc_map_entry_reset]

kc_map_match(tbl, i, key) == tbl[i].count = 0 \/ tbl[i].key = key

\* Mutant: probing stops at a counter with the key only, or at the next place.
kc_map_find_bug(tbl, key) ==
    LET size == Cardinality(DOMAIN tbl)
        home == hash[key] % size
    IN  IF kc_map_match(tbl, home, key) THEN home ELSE (home + 1) % size

\* The first matching entry from the home of the key on.
kc_map_find(tbl, key) ==
    LET size == Cardinality(DOMAIN tbl)
        home == hash[key] % size
        n == CHOOSE n \in 0..(size - 1) :
                /\ kc_map_match(tbl, (home + n) % size, key)
                /\ \A j \in 0..(n - 1) : ~kc_map_match(tbl, (home + j) % size, key)
    IN  (home + n) % size

kc_map_incr(tbl, i, key) ==
    [tbl EXCEPT ![i] = [key |-> IF @.count = 0 THEN key ELSE @.key, count |-> @.count + 1]]

\* Mutant: the entry keeps its last count.
kc_map_decr_bug(tbl, i) ==
    [tbl EXCEPT ![i] = IF @.count = 1 THEN @ ELSE [key |-> @.key, count |-> @.count - 1]]

\* An entry is freed in place: a probe for another key now ends here, although
\* that key may have a counter further on.
kc_map_decr(tbl, i) ==
    [tbl EXCEPT ![i] = IF @.count = 1 THEN kc_map_entry_reset
                       ELSE [key |-> @.key, count |-> @.count - 1]]

key_window_full(size, max) == size = max

-----------------------------------------------------------------------------
\* hotkey_window_size, for a timeframe of 1000 msec.
window_size(redline, rate) == redline \div rate

Idle == [do |-> "idle"]
Alone(t) == \A u \in Thread \ {t} : at[u] = Idle

\* hotkey_init, with options of the command line.
Init ==
    /\ \E redline \in Redline, rate \in Rate, share \in Share, bw \in Bw :
          LET size == window_size(redline, rate)
          IN  /\ opt = [redline |-> redline, rate |-> rate, share |-> share, bw |-> bw,
                        window |-> size, threshold |-> (share * size) \div 100]
              /\ queue = ring_array_create(size)
              /\ key_window = [size |-> 0, max |-> size]
              /\ table = kc_map_init(size)
    /\ enable \in BOOLEAN
    /\ realloc = FALSE
    /\ counter = 0
    /\ at = [t \in Thread |-> Idle]
    /\ recent = << >>
    /\ verdict = Null
    /\ fate = "ok"

-----------------------------------------------------------------------------
(***************************************************************************)
(* Samples.                                                                *)
(***************************************************************************)
\* item_get finds the detector enabled; cache_lock admits one thread.
item_get(t, key) ==
    /\ fate = "ok" /\ at[t] = Idle
    /\ enable
    /\ \A u \in Thread : at[u].do # "sample"
    /\ at' = [at EXCEPT ![t] = [do |-> "sample", key |-> key]]
    /\ verdict' = Null
    /\ UNCHANGED <<opt, enable, realloc, counter, queue, key_window, table, recent, fate>>

\* What hotkey_sample returns for a full window.
Signal(count, size, elapsed) ==
    LET time_diff == IF elapsed > 0 THEN elapsed ELSE 1
        qps == (opt.window * opt.rate * Second) \div time_diff
        bw == (count * size * opt.rate * Second) \div time_diff
    IN  IF qps >= opt.redline /\ count >= opt.threshold THEN "qps"
        ELSE IF bw >= opt.bw THEN "bw" ELSE "none"

Occurrences(keys, key) == Cardinality({i \in DOMAIN keys : keys[i] = key})

\* The key goes into the window; if that is full now, the oldest sample leaves it.
hotkey_push(key, size, elapsed) ==
    LET i    == kc_map_find(table, key)
        tbl  == kc_map_incr(table, i, key)
        arr  == ring_array_push(queue, i)
        now  == Append(recent, key)
        full == key_window_full(key_window.size + 1, key_window.max)
    IN  /\ table' = IF full THEN kc_map_decr(tbl, arr.data[arr.rpos]) ELSE tbl
        /\ queue' = IF full THEN ring_array_pop(arr) ELSE arr
        /\ key_window' = [key_window EXCEPT !.size = IF full THEN @ ELSE @ + 1]
        /\ recent' = IF full THEN Tail(now) ELSE now
        /\ verdict' = IF full
                      THEN [key |-> key, count |-> tbl[i].count, real |-> Occurrences(now, key),
                            of |-> Len(now), need |-> opt.threshold,
                            homes |-> Cardinality(DOMAIN table),
                            signal |-> Signal(tbl[i].count, size, elapsed)]
                      ELSE Null

\* hotkey_sample: all but every rate-th key are skipped.  A window without room
\* for a sample makes a table without entries: hash % 0.
hotkey_sample(t, size, elapsed) ==
    /\ fate = "ok" /\ at[t].do = "sample"
    /\ counter' = (counter + 1) % CounterMod
    /\ at' = [at EXCEPT ![t] = Idle]
    /\ \/ /\ counter' % opt.rate # 0
          /\ UNCHANGED <<queue, key_window, table, recent, verdict, fate>>
       \/ /\ counter' % opt.rate = 0
          /\ DOMAIN table = {}
          /\ fate' = "crash"
          /\ UNCHANGED <<queue, key_window, table, recent, verdict>>
       \/ /\ counter' % opt.rate = 0
          /\ DOMAIN table # {}
          /\ hotkey_push(at[t].key, size, elapsed)
          /\ UNCHANGED fate
    /\ UNCHANGED <<opt, enable, realloc>>

-----------------------------------------------------------------------------
(***************************************************************************)
(* "config hotkey ...": checks and changes are separate steps.             *)
(***************************************************************************)
\* "enable yes" is refused during a reallocation, and after one that failed.
asc_process_hk_enable(t) ==
    /\ fate = "ok" /\ at[t] = Idle
    /\ ~realloc
    /\ at' = [at EXCEPT ![t] = [do |-> "enable"]]
    /\ UNCHANGED <<opt, enable, realloc, counter, queue, key_window, table, recent, verdict, fate>>

hk_enable_store(t) ==
    /\ fate = "ok" /\ at[t].do = "enable"
    /\ enable' = TRUE
    /\ at' = [at EXCEPT ![t] = Idle]
    /\ UNCHANGED <<opt, realloc, counter, queue, key_window, table, recent, verdict, fate>>

hk_disable(t) ==
    /\ fate = "ok" /\ at[t] = Idle
    /\ enable' = FALSE
    /\ UNCHANGED <<opt, realloc, counter, queue, key_window, table, at, recent, verdict, fate>>

\* "redline" and "sample_rate" are refused while the detector is enabled.
asc_process_hk_resize(t, name, value) ==
    /\ fate = "ok" /\ at[t] = Idle
    /\ ~enable
    /\ at' = [at EXCEPT ![t] = [do |-> "update", name |-> name, value |-> value]]
    /\ UNCHANGED <<opt, enable, realloc, counter, queue, key_window, table, recent, verdict, fate>>

\* hotkey_update_redline, hotkey_update_sample_rate: nothing to do for the old
\* value (an ASSERT that the detector is disabled, of debug builds, is not kept
\* for this case).  Nothing keeps other threads out of the window and the table.
hotkey_update(t) ==
    /\ fate = "ok" /\ at[t].do = "update"
    /\ \/ /\ opt[at[t].name] = at[t].value
          /\ at' = [at EXCEPT ![t] = Idle]
          /\ UNCHANGED <<opt, realloc, fate>>
       \/ /\ opt[at[t].name] # at[t].value
          /\ realloc' = TRUE
          /\ opt' = [opt EXCEPT ![at[t].name] = at[t].value]
          /\ at' = [at EXCEPT ![t] = [do |-> "realloc"]]
          /\ fate' = IF Alone(t) /\ ~enable THEN "ok" ELSE "race"
    /\ verdict' = Null
    /\ UNCHANGED <<enable, counter, queue, key_window, table, recent>>

\* Mutant: the flag is lowered also when memory is short.
hotkey_realloc_bug(t, fails) ==
    LET size == window_size(opt.redline, opt.rate)
    IN  /\ fate = "ok" /\ at[t].do = "realloc"
        /\ opt' = [opt EXCEPT !.window = size]
        /\ queue' = IF fails = "window" THEN Null ELSE ring_array_create(size)
        /\ key_window' = [size |-> 0, max |-> IF fails = "window" THEN 0 ELSE size]
        /\ table' = CASE fails = "window" -> table
                      [] fails = "map"    -> Null
                      [] fails = "none"   -> kc_map_init(size)
        /\ realloc' = FALSE
        /\ recent' = << >>
        /\ at' = [at EXCEPT ![t] = Idle]
        /\ UNCHANGED <<enable, counter, verdict, fate>>

\* _hotkey_realloc: the window, then the table; hotkey_threshold stays as it is.
\* If either fails, the flag stays up.
hotkey_realloc(t, fails) ==
    LET size == window_size(opt.redline, opt.rate)
    IN  /\ fate = "ok" /\ at[t].do = "realloc"
        /\ opt' = [opt EXCEPT !.window = size]
        /\ queue' = IF fails = "window" THEN Null ELSE ring_array_create(size)
        /\ key_window' = [size |-> 0, max |-> IF fails = "window" THEN 0 ELSE size]
        /\ table' = CASE fails = "window" -> table
                      [] fails = "map"    -> Null
                      [] fails = "none"   -> kc_map_init(size)
        /\ realloc' = (fails # "none")
        /\ recent' = << >>
        /\ at' = [at EXCEPT ![t] = Idle]
        /\ UNCHANGED <<enable, counter, verdict, fate>>

\* hotkey_update_qps_threshold, hotkey_update_bw_threshold.
hotkey_update_qps_threshold(t, share) ==
    /\ fate = "ok" /\ at[t] = Idle
    /\ share # opt.share
    /\ opt' = [opt EXCEPT !.share = share, !.threshold = (share * opt.window) \div 100]
    /\ UNCHANGED <<enable, realloc, counter, queue, key_window, table, at, recent, verdict, fate>>

hotkey_update_bw_threshold(t, bw) ==
    /\ fate = "ok" /\ at[t] = Idle
    /\ bw # opt.bw
    /\ opt' = [opt EXCEPT !.bw = bw]
    /\ UNCHANGED <<enable, realloc, counter, queue, key_window, table, at, recent, verdict, fate>>

-----------------------------------------------------------------------------
Next ==
    \E t \in Thread :
        \/ \E key \in Key : item_get(t, key)
        \/ \E size \in Size, elapsed \in Elapsed : hotkey_sample(t, size, elapsed)
        \/ asc_process_hk_enable(t) \/ hk_enable_store(t) \/ hk_disable(t)
        \/ \E redline \in Redline : asc_process_hk_resize(t, "redline", redline)
        \/ \E rate \in Rate : asc_process_hk_resize(t, "rate", rate)
        \/ hotkey_update(t)
        \/ \E fails \in {"none", "window", "map"} : hotkey_realloc(t, fails)
        \/ \E share \in Share : hotkey_update_qps_threshold(t, share)
        \/ \E bw \in Bw : hotkey_update_bw_threshold(t, bw)

Spec == Init /\ [][Next]_vars

-----------------------------------------------------------------------------
\* The variables have their types.
TypeOK ==
    /\ opt.redline \in Redline /\ opt.rate \in Rate /\ opt.share \in Share /\ opt.bw \in Bw
    /\ enable \in BOOLEAN /\ realloc \in BOOLEAN
    /\ counter \in 0..(CounterMod - 1)
    /\ recent \in Seq(Key)
    /\ \A t \in Thread : at[t].do \in {"idle", "sample", "enable", "update", "realloc"}
    /\ fate \in {"ok", "race", "crash"}

Sampling == \E t \in Thread : at[t].do = "sample"

\* Whenever a sample may be taken, window and table are there and have the sizes
\* that go with each other, even after reallocations that failed half way; and
\* no sample is taken during a reallocation.  The flag hotkey_realloc and the
\* check of hotkey_enable see to that, unless a reallocation begins while another
\* thread is between a check and what follows it, or has enabled the detector
\* since it was found disabled (fate is "race" then).  A sample finds no room
\* at all only if the redline is below the sampling rate.
SamplesSafe ==
    /\ TypeOK
    /\ fate = "ok" /\ (enable \/ Sampling) =>
          /\ \A t \in Thread : at[t].do # "realloc"
          /\ queue # Null /\ queue.cap = opt.window
          /\ key_window.max = opt.window
          /\ Cardinality(DOMAIN table) = 2 * opt.window
    /\ fate = "crash" => opt.redline < opt.rate

\* The ring holds the latest samples in order, each pointing to a counter of its
\* own key, and every counter counts the elements that point to it, although
\* entries are freed in the middle of probe sequences.  The window is not full
\* between samples, and the table has a free entry to stop every probe at.
EntriesCounted ==
    fate = "ok" /\ ~realloc =>
        LET elems == Elements(queue)
        IN  /\ Len(elems) = Len(recent) /\ key_window.size = Len(recent)
            /\ \A i \in DOMAIN elems : table[elems[i]].key = recent[i]
            /\ \A e \in DOMAIN table :
                  table[e].count = Cardinality({i \in DOMAIN elems : elems[i] = e})
            /\ opt.window > 0 =>
                  /\ key_window.size < key_window.max
                  /\ \E e \in DOMAIN table : table[e].count = 0

Homes(n) == {hash[k] % n : k \in Key}

\* A key is never signalled for its frequency unless it occurs often enough in
\* the window.  It may be missed when it has two counters, which takes another
\* key in its way: without collisions the count is exact.
SignalJustified ==
    verdict # Null =>
        /\ verdict.count <= verdict.real
        /\ Cardinality(Homes(verdict.homes)) = Cardinality(Key) => verdict.count = verdict.real
        /\ verdict.of = opt.window
        /\ verdict.signal = "qps" => verdict.real >= verdict.need
=============================================================================
