------------------------------- MODULE Stats --------------------------------
(***************************************************************************)
(* Metrics (mc_stats.c): every thread counts for itself, under a mutex of  *)
(* its own; the aggregator thread (mc_thread.c) now and then adds up all   *)
(* threads; "stats" and "stats slabs" print the sums.  A semaphore with a  *)
(* count per updating thread keeps the two apart: printing takes one       *)
(* count, aggregation takes all of them.                                   *)
(*                                                                         *)
(* Of the metrics there are one counter per thread (get_key), one counter  *)
(* per slab class (get_key_hit), and one gauge (conn_curr), which is an    *)
(* increasing count of increments, made by the dispatcher, and another of  *)
(* decrements, made by the workers.                                        *)
(***************************************************************************)
EXTENDS Integers, FiniteSets

CONSTANTS
    num_workers,        \* settings.num_workers
    SLABCLASS_MAX_ID,   \* the largest id of a slab class
    MaxGets,            \* bound: keys looked up
    MaxConns            \* bound: connections opened

ASSUME StatsAssumption ==
    /\ num_workers \in Nat \ {0}
    /\ SLABCLASS_MAX_ID \in Nat \ {0}
    /\ MaxGets \in Nat /\ MaxConns \in Nat

SLABCLASS_MIN_ID == 1
ClassId == SLABCLASS_MIN_ID..SLABCLASS_MAX_ID
Summary == 0                    \* the class id of the sums over all classes

Worker == 0..(num_workers - 1)
Dispatcher == num_workers
Thread == 0..num_workers
num_updaters == num_workers + 1

VARIABLES
    local,      \* per thread, its metrics
    agg,        \* aggregator: the sums printed
    tmax,       \* stats_tmax: the largest value of the gauge
    sem,        \* aggregator.stats_sem
    enabled,    \* settings.stats_agg_intvl is not negative
    ag,         \* where the aggregator thread is, and its loop counter
    wk,         \* per worker, where it is and what it has printed
    lo,         \* the true sums when the aggregation under way began
    reported    \* the counters of the last reply to "stats"

vars == <<local, agg, tmax, sem, enabled, ag, wk, lo, reported>>

Zero == [get_key |-> 0, t |-> 0, b |-> 0, hit |-> [cid \in ClassId \cup {Summary} |-> 0]]

\* stats_metric_update on every metric.  A gauge falls through to the case of
\* a maximum, whose value lies in the memory of t: it would raise t to the t - b
\* just added, which is never above t.
stats_metric_update(m1, m2) ==
    [get_key |-> m1.get_key + m2.get_key, t |-> m1.t + m2.t, b |-> m1.b + m2.b,
     hit |-> [cid \in DOMAIN m1.hit |-> m1.hit[cid] + m2.hit[cid]]]

\* A gauge that seems negative is printed as 0.
stats_metric_val(m) == IF m.t >= m.b THEN m.t - m.b ELSE 0

\* f[1] + ... + f[n], for a function f on an interval from 1.
Sum(f, n) ==
    LET sum[i \in Nat] == IF i \in DOMAIN f THEN sum[i - 1] + f[i] ELSE 0
    IN  sum[n]

\* The sums over the first n threads; over all of them, the true sums.
Upto(n) ==
    [get_key |-> Sum([i \in 1..num_updaters |-> local[i - 1].get_key], n),
     t       |-> Sum([i \in 1..num_updaters |-> local[i - 1].t], n),
     b       |-> Sum([i \in 1..num_updaters |-> local[i - 1].b], n),
     hit     |-> [cid \in ClassId \cup {Summary} |->
                     Sum([i \in 1..num_updaters |-> local[i - 1].hit[cid]], n)]]
Total == Upto(num_updaters)

\* The hits of the first n classes.
Hits(m, n) == Sum([cid \in ClassId |-> m.hit[cid]], n)

\* Each metric of one is at most that of the other.
AtMost(m1, m2) ==
    /\ m1.get_key <= m2.get_key /\ m1.t <= m2.t /\ m1.b <= m2.b
    /\ \A cid \in ClassId : m1.hit[cid] <= m2.hit[cid]

Idle == [at |-> "idle", cmd |-> "none", get_key |-> 0, hit |-> 0]

Init ==
    /\ local = [i \in Thread |-> Zero]
    /\ agg = Zero
    /\ tmax = 0
    /\ sem = num_updaters
    /\ enabled = TRUE
    /\ ag = [at |-> "timer", i |-> 0]
    /\ wk = [w \in Worker |-> Idle]
    /\ lo = Zero
    /\ reported = [get_key |-> 0, hit |-> 0]

-----------------------------------------------------------------------------
(***************************************************************************)
(* Threads count, each under its own mutex.                                *)
(***************************************************************************)
\* stats_thread_incr(get_key), then the item is looked up.
asc_process_read(w) ==
    /\ wk[w].at = "idle"
    /\ Total.get_key < MaxGets
    /\ local' = [local EXCEPT ![w].get_key = @ + 1]
    /\ wk' = [wk EXCEPT ![w].at = "lookup"]
    /\ UNCHANGED <<agg, tmax, sem, enabled, ag, lo, reported>>

\* stats_slab_incr(it->id, get_key_hit).
read_hit(w, cid) ==
    /\ wk[w].at = "lookup"
    /\ local' = [local EXCEPT ![w].hit[cid] = @ + 1]
    /\ wk' = [wk EXCEPT ![w] = Idle]
    /\ UNCHANGED <<agg, tmax, sem, enabled, ag, lo, reported>>

read_miss(w) ==
    /\ wk[w].at = "lookup"
    /\ wk' = [wk EXCEPT ![w] = Idle]
    /\ UNCHANGED <<local, agg, tmax, sem, enabled, ag, lo, reported>>

\* stats_thread_incr(conn_curr) in the dispatcher ...
conn_get ==
    /\ Total.t < MaxConns
    /\ local' = [local EXCEPT ![Dispatcher].t = @ + 1]
    /\ UNCHANGED <<agg, tmax, sem, enabled, ag, wk, lo, reported>>

\* ... and stats_thread_decr(conn_curr) in a worker.
conn_close(w) ==
    /\ wk[w].at = "idle"
    /\ Total.b < Total.t
    /\ local' = [local EXCEPT ![w].b = @ + 1]
    /\ UNCHANGED <<agg, tmax, sem, enabled, ag, wk, lo, reported>>

-----------------------------------------------------------------------------
(***************************************************************************)
(* The aggregator thread: _stats_aggregate, when its timer expires.        *)
(***************************************************************************)
\* Mutant: the timer is not set again while aggregation is turned off.
thread_aggregate_stats_bug ==
    /\ ag.at = "timer"
    /\ ag' = [at |-> IF enabled THEN "wait" ELSE "off", i |-> 0]
    /\ UNCHANGED <<local, agg, tmax, sem, enabled, wk, lo, reported>>

\* Turned off, the timer only expires again, five seconds later.
thread_aggregate_stats ==
    /\ ag.at = "timer"
    /\ ag' = [at |-> IF enabled THEN "wait" ELSE "timer", i |-> 0]
    /\ UNCHANGED <<local, agg, tmax, sem, enabled, wk, lo, reported>>

\* Mutant: the counts of the workers are taken, the dispatcher's is forgotten.
aggregate_wait_bug ==
    /\ ag.at = "wait"
    /\ sem > 0
    /\ sem' = sem - 1
    /\ ag' = IF ag.i + 1 >= num_workers THEN [at |-> "reset", i |-> 0] ELSE [ag EXCEPT !.i = @ + 1]
    /\ UNCHANGED <<local, agg, tmax, enabled, wk, lo, reported>>

aggregate_wait ==
    /\ ag.at = "wait"
    /\ sem > 0
    /\ sem' = sem - 1
    /\ ag' = IF ag.i + 1 = num_updaters THEN [at |-> "reset", i |-> 0] ELSE [ag EXCEPT !.i = @ + 1]
    /\ UNCHANGED <<local, agg, tmax, enabled, wk, lo, reported>>

\* Mutant: the old sums stay.
stats_reset_bug ==
    /\ ag.at = "reset"
    /\ agg' = agg
    /\ lo' = Total
    /\ ag' = [ag EXCEPT !.at = "sum"]
    /\ UNCHANGED <<local, tmax, sem, enabled, wk, reported>>

stats_reset ==
    /\ ag.at = "reset"
    /\ agg' = Zero
    /\ lo' = Total
    /\ ag' = [ag EXCEPT !.at = "sum"]
    /\ UNCHANGED <<local, tmax, sem, enabled, wk, reported>>

\* One thread is added, all its metrics under one hold of its mutex.
aggregate_thread ==
    /\ ag.at = "sum"
    /\ agg' = stats_metric_update(agg, local[ag.i])
    /\ ag' = IF ag.i + 1 = num_updaters THEN [at |-> "slabs", i |-> 0] ELSE [ag EXCEPT !.i = @ + 1]
    /\ UNCHANGED <<local, tmax, sem, enabled, wk, lo, reported>>

\* Mutant: the slab metrics are taken in a second pass over the threads.
aggregate_slabs_bug ==
    /\ ag.at = "slabs"
    /\ agg' = [agg EXCEPT !.hit = [Total.hit EXCEPT ![Summary] =
                                      Hits(Total, SLABCLASS_MAX_ID - 1)]]
    /\ lo' = Zero
    /\ ag' = [ag EXCEPT !.at = "post"]
    /\ UNCHANGED <<local, tmax, sem, enabled, wk, reported>>

\* The classes are summed up; the loop stops before the last id.
aggregate_slabs ==
    /\ ag.at = "slabs"
    /\ agg' = [agg EXCEPT !.hit[Summary] = Hits(agg, SLABCLASS_MAX_ID - 1)]
    /\ lo' = Zero
    /\ ag' = [ag EXCEPT !.at = "post"]
    /\ UNCHANGED <<local, tmax, sem, enabled, wk, reported>>

aggregate_post ==
    /\ ag.at = "post"
    /\ sem' = sem + 1
    /\ ag' = IF ag.i + 1 = num_updaters THEN [at |-> "max", i |-> 0] ELSE [ag EXCEPT !.i = @ + 1]
    /\ UNCHANGED <<local, agg, tmax, enabled, wk, lo, reported>>

\* After the counts are back: a reader may be faster.
aggregate_max ==
    /\ ag.at = "max"
    /\ tmax' = IF tmax < agg.t - agg.b THEN agg.t - agg.b ELSE tmax
    /\ ag' = [ag EXCEPT !.at = "timer"]
    /\ UNCHANGED <<local, agg, sem, enabled, wk, lo, reported>>

-----------------------------------------------------------------------------
(***************************************************************************)
(* Commands.                                                               *)
(***************************************************************************)
\* "config aggregate": a negative interval turns aggregation off.  "config klog
\* interval" sets the same interval, to a positive one.
asc_process_aggregate(w, on) ==
    /\ wk[w].at = "idle"
    /\ enabled' = on
    /\ UNCHANGED <<local, agg, tmax, sem, ag, wk, lo, reported>>

asc_process_klog_interval(w) ==
    /\ wk[w].at = "idle"
    /\ enabled' = TRUE
    /\ UNCHANGED <<local, agg, tmax, sem, ag, wk, lo, reported>>

\* "stats" and "stats slabs", unless stats_enabled says no.
asc_process_stats(w, cmd) ==
    /\ wk[w].at = "idle"
    /\ enabled
    /\ wk' = [wk EXCEPT ![w].at = "sem", ![w].cmd = cmd]
    /\ UNCHANGED <<local, agg, tmax, sem, enabled, ag, lo, reported>>

stats_wait(w) ==
    /\ wk[w].at = "sem"
    /\ sem > 0
    /\ sem' = sem - 1
    /\ wk' = [wk EXCEPT ![w].at = IF wk[w].cmd = "stats" THEN "thread" ELSE "classes"]
    /\ UNCHANGED <<local, agg, tmax, enabled, ag, lo, reported>>

\* stats_default prints the metrics of threads, and then the sums over classes.
stats_default_thread(w) ==
    /\ wk[w].at = "thread"
    /\ wk' = [wk EXCEPT ![w].get_key = agg.get_key, ![w].at = "summary"]
    /\ UNCHANGED <<local, agg, tmax, sem, enabled, ag, lo, reported>>

stats_default_slab(w) ==
    /\ wk[w].at = "summary"
    /\ wk' = [wk EXCEPT ![w].hit = agg.hit[Summary], ![w].at = "post"]
    /\ UNCHANGED <<local, agg, tmax, sem, enabled, ag, lo, reported>>

\* stats_slabs prints the metrics of the classes.
stats_slabs(w) ==
    /\ wk[w].at = "classes"
    /\ wk' = [wk EXCEPT ![w].at = "post"]
    /\ UNCHANGED <<local, agg, tmax, sem, enabled, ag, lo, reported>>

stats_post(w) ==
    /\ wk[w].at = "post"
    /\ sem' = sem + 1
    /\ reported' = IF wk[w].cmd = "stats" THEN [get_key |-> wk[w].get_key, hit |-> wk[w].hit]
                   ELSE reported
    /\ wk' = [wk EXCEPT ![w] = Idle]
    /\ UNCHANGED <<local, agg, tmax, enabled, ag, lo>>

-----------------------------------------------------------------------------
Aggregate ==
    \/ aggregate_wait \/ stats_reset \/ aggregate_thread
    \/ aggregate_slabs \/ aggregate_post \/ aggregate_max

Reply(w) ==
    \/ stats_wait(w) \/ stats_default_thread(w) \/ stats_default_slab(w)
    \/ stats_slabs(w) \/ stats_post(w)

Next ==
    \/ thread_aggregate_stats \/ Aggregate \/ conn_get
    \/ \E w \in Worker :
          \/ asc_process_read(w) \/ read_miss(w) \/ conn_close(w) \/ Reply(w)
          \/ \E cid \in ClassId : read_hit(w, cid)
          \/ \E on \in BOOLEAN : asc_process_aggregate(w, on)
          \/ asc_process_klog_interval(w)
          \/ \E cmd \in {"stats", "slabs"} : asc_process_stats(w, cmd)

\* The timer expires, and threads that can go on do.
Fairness ==
    /\ WF_vars(thread_aggregate_stats)
    /\ WF_vars(Aggregate)
    /\ \A w \in Worker : WF_vars(Reply(w))

Spec == Init /\ [][Next]_vars /\ Fairness

-----------------------------------------------------------------------------
Metrics == [get_key : Nat, t : Nat, b : Nat, hit : [ClassId \cup {Summary} -> Nat]]
Reading == {"thread", "summary", "classes", "post"}

\* The variables have their types; the counts of the semaphore are neither lost
\* nor multiplied.
TypeOK ==
    /\ local \in [Thread -> Metrics]
    /\ agg \in Metrics /\ lo \in Metrics
    /\ tmax \in Nat /\ enabled \in BOOLEAN
    /\ sem = num_updaters - Cardinality({w \in Worker : wk[w].at \in Reading})
             - (IF ag.at \in {"reset", "sum", "slabs"} THEN num_updaters
                ELSE IF ag.at = "wait" THEN ag.i
                ELSE IF ag.at = "post" THEN num_updaters - ag.i ELSE 0)

\* The sums may be printed.
Printable == ag.at \in {"timer", "wait", "post", "max"}

\* The sums an aggregation ends with lie between what was true when it began and
\* what is true now, metric by metric, although threads go on counting while
\* they are added up one after the other.  The number of connections, that the
\* dispatcher increments and workers decrement, never seems negative, for the
\* dispatcher is added last.
SumsInBetween ==
    [][~Printable /\ Printable' =>
          /\ AtMost(lo, agg') /\ AtMost(agg', Total)
          /\ stats_metric_val(agg') = agg'.t - agg'.b]_vars

\* "sum slab level stats over all slab classes and store in slab class 0", as
\* stats_aggregate says: what may be printed as the hits of the server are the
\* hits of every class.
SumsOverAllClasses == Printable => agg.hit[Summary] = Hits(agg, SLABCLASS_MAX_ID)

\* No reply shows more hits than keys looked up: the two counters, one of the
\* thread and one of a slab class, are copied under one hold of the mutex, and
\* lines of one reply come from one aggregation.
HitsWithinKeys == TypeOK /\ reported.hit <= reported.get_key

\* Counters are seen to increase only, whichever workers reply.
CountersIncrease ==
    [][reported'.get_key >= reported.get_key /\ reported'.hit >= reported.hit]_vars

\* Every key looked up gets into the sums, unless aggregation is turned off: it
\* resumes by itself when turned on again.  Replies have to pause, for nothing
\* makes the semaphore serve the aggregator that waits for all of its counts.
EventuallyCounted ==
    <>[](\A w \in Worker : wk[w].at \notin Reading)
    => \A n \in 1..MaxGets :
          Total.get_key >= n ~> ((Printable /\ agg.get_key >= n) \/ ~enabled)
=============================================================================
