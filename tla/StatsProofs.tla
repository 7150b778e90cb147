---------------------------- MODULE StatsProofs -----------------------------
(***************************************************************************)
(* The metrics of any number of threads and slab classes: the semaphore    *)
(* keeps replies and aggregation apart, sums lie between what was true     *)
(* before and after, and replies are consistent and never go back.         *)
(***************************************************************************)
EXTENDS Stats, FiniteSetTheorems, WellFoundedInduction, TLAPS

-----------------------------------------------------------------------------
(***************************************************************************)
(* Induction and recursion on the natural numbers, for sets and functions. *)
(***************************************************************************)

\* A set with 0 that is closed under successors holds every number.
LEMMA Induction ==
    ASSUME NEW I \in SUBSET Nat, 0 \in I, \A n \in I : n + 1 \in I
    PROVE  \A n \in Nat : n \in I
<1> SUFFICES ASSUME Nat \ I # {}
             PROVE  FALSE
  OBVIOUS
<1>1. IsWellFoundedOn(OpToRel(<, Nat), Nat)
  BY NatLessThanWellFounded
<1>2. PICK m \in Nat \ I : \A k \in Nat \ I : <<k, m>> \notin OpToRel(<, Nat)
  BY <1>1, WFMin
<1>3. m - 1 \in Nat /\ <<m - 1, m>> \in OpToRel(<, Nat) /\ (m - 1) + 1 = m
  BY DEF OpToRel
<1>4. m - 1 \in I
  BY <1>2, <1>3
<1> QED
  BY <1>3, <1>4

\* A first value and a step give a function.
LEMMA Recursion ==
    ASSUME NEW a \in Nat, NEW g \in [Nat \X Nat -> Nat]
    PROVE  \E f \in [Nat -> Nat] : f[0] = a /\ \A n \in Nat : f[n + 1] = g[<<f[n], n>>]
<1> DEFINE P(h, n) == /\ h \in [0..n -> Nat]
                      /\ h[0] = a
                      /\ \A i \in 0..(n - 1) : h[i + 1] = g[<<h[i], i>>]
           I == {n \in Nat : \E h : P(h, n)}
<1>1. 0 \in I
  <2>1. P([i \in 0..0 |-> a], 0)
    OBVIOUS
  <2> QED
    BY <2>1
<1>2. ASSUME NEW n \in I
      PROVE  n + 1 \in I
  <2>1. PICK h : P(h, n)
    OBVIOUS
  <2> DEFINE k == [i \in 0..(n + 1) |-> IF i <= n THEN h[i] ELSE g[<<h[n], n>>]]
  <2>2. g[<<h[n], n>>] \in Nat
    BY <2>1
  <2>3. k \in [0..(n + 1) -> Nat]
    BY <2>1, <2>2
  <2>4. k[0] = a
    BY <2>1
  <2>5. ASSUME NEW i \in 0..n
        PROVE  k[i + 1] = g[<<k[i], i>>]
    <3>1. CASE i = n
      <4>1. k[i + 1] = g[<<h[n], n>>] /\ k[i] = h[n]
        BY <3>1
      <4> QED
        BY <3>1, <4>1
    <3>2. CASE i < n
      <4>1. k[i + 1] = h[i + 1] /\ k[i] = h[i] /\ i \in 0..(n - 1)
        BY <3>2
      <4> QED
        BY <2>1, <4>1
    <3> QED
      BY <3>1, <3>2
  <2> HIDE DEF k
  <2>6. (n + 1) - 1 = n /\ n + 1 \in Nat
    OBVIOUS
  <2>7. P(k, n + 1)
    BY <2>3, <2>4, <2>5, <2>6
  <2> QED
    BY <2>6, <2>7
<1>3. \A n \in Nat : n \in I
  BY <1>1, <1>2, Induction
<1> DEFINE H(n) == CHOOSE h : P(h, n)
<1>4. \A n \in Nat : P(H(n), n)
  BY <1>3
<1>5. ASSUME NEW n \in Nat
      PROVE  \A i \in Nat : i <= n => H(n)[i] = H(n + 1)[i]
  <2> DEFINE J == {i \in Nat : i <= n => H(n)[i] = H(n + 1)[i]}
  <2> HIDE DEF H
  <2>0. n \in Nat /\ n + 1 \in Nat
    OBVIOUS
  <2>1. P(H(n), n) /\ P(H(n + 1), n + 1)
    <3> HIDE DEF P
    <3> QED
      BY <1>4, <2>0
  <2>2. 0 \in J
    BY <2>1
  <2>3. ASSUME NEW i \in J
        PROVE  i + 1 \in J
    <3> SUFFICES ASSUME i + 1 <= n
                 PROVE  H(n)[i + 1] = H(n + 1)[i + 1]
      OBVIOUS
    <3>1. i \in 0..(n - 1) /\ i \in 0..((n + 1) - 1)
      OBVIOUS
    <3>2. H(n)[i + 1] = g[<<H(n)[i], i>>]
      BY <2>1, <3>1
    <3>3. H(n + 1)[i + 1] = g[<<H(n + 1)[i], i>>]
      BY <2>1, <3>1
    <3> QED
      BY <3>2, <3>3
  <2>4. \A i \in Nat : i \in J
    BY <2>2, <2>3, Induction
  <2> QED
    BY <2>4
<1> DEFINE f == [n \in Nat |-> H(n)[n]]
<1>6. f \in [Nat -> Nat]
  <2> SUFFICES ASSUME NEW n \in Nat
               PROVE  H(n)[n] \in Nat
    OBVIOUS
  <2> HIDE DEF H
  <2> QED
    BY <1>4
<1>7. f[0] = a
  <2> HIDE DEF H
  <2> QED
    BY <1>4
<1>8. ASSUME NEW n \in Nat
      PROVE  f[n + 1] = g[<<f[n], n>>]
  <2> HIDE DEF H
  <2>1. H(n + 1)[n + 1] = g[<<H(n + 1)[n], n>>]
    <3>0. n + 1 \in Nat
      OBVIOUS
    <3>1. P(H(n + 1), n + 1)
      <4> HIDE DEF P
      <4> QED
        BY <1>4, <3>0
    <3> QED
      BY <3>1
  <2>2. H(n + 1)[n] = H(n)[n]
    BY <1>5
  <2> QED
    BY <2>1, <2>2
<1> QED
  BY <1>6, <1>7, <1>8

-----------------------------------------------------------------------------
(***************************************************************************)
(* Sums.                                                                   *)
(***************************************************************************)

\* What a sum is: none is 0, and one more adds its entry.
LEMMA SumFacts ==
    ASSUME NEW N \in Nat, NEW f \in [1..N -> Nat]
    PROVE  /\ Sum(f, 0) = 0
           /\ \A n \in 0..(N - 1) : Sum(f, n + 1) = Sum(f, n) + f[n + 1]
           /\ \A n \in 0..N : Sum(f, n) \in Nat
<1> DEFINE D(s) == [i \in Nat |-> IF i \in DOMAIN f THEN s[i - 1] + f[i] ELSE 0]
           c == CHOOSE s : s = D(s)
           g == [p \in Nat \X Nat |-> IF p[2] + 1 \in 1..N THEN p[1] + f[p[2] + 1] ELSE 0]
<1>1. g \in [Nat \X Nat -> Nat]
  OBVIOUS
<1>2. PICK h \in [Nat -> Nat] : h[0] = 0 /\ \A n \in Nat : h[n + 1] = g[<<h[n], n>>]
  <2> HIDE DEF g
  <2>1. 0 \in Nat
    OBVIOUS
  <2>2. \E h \in [Nat -> Nat] : h[0] = 0 /\ \A n \in Nat : h[n + 1] = g[<<h[n], n>>]
    BY <1>1, <2>1, Recursion
  <2> QED
    BY <2>2
<1>3. \A n \in Nat : h[n + 1] = IF n + 1 \in 1..N THEN h[n] + f[n + 1] ELSE 0
  BY <1>2
<1>4. h = D(h)
  <2>1. ASSUME NEW i \in Nat
        PROVE  h[i] = IF i \in DOMAIN f THEN h[i - 1] + f[i] ELSE 0
    <3>1. CASE i = 0
      BY <1>2, <3>1
    <3>2. CASE i # 0
      <4>1. i - 1 \in Nat /\ (i - 1) + 1 = i
        BY <3>2
      <4>2. h[(i - 1) + 1] = IF (i - 1) + 1 \in 1..N THEN h[i - 1] + f[(i - 1) + 1] ELSE 0
        BY <1>3, <4>1
      <4> QED
        BY <4>1, <4>2
    <3> QED
      BY <3>1, <3>2
  <2> QED
    BY <2>1
<1>5. c = D(c)
  <2> HIDE DEF D
  <2> QED
    BY <1>4
<1>6. \A n : Sum(f, n) = c[n]
  BY DEF Sum
<1> DEFINE Q == {n \in Nat : c[n] = IF n <= N THEN h[n] ELSE 0}
<1>7. \A i \in Nat : c[i] = IF i \in DOMAIN f THEN c[i - 1] + f[i] ELSE 0
  <2> HIDE DEF c
  <2> QED
    BY <1>5
<1> HIDE DEF c
<1>8. 0 \in Q
  BY <1>7, <1>2
<1>9. ASSUME NEW n \in Q
      PROVE  n + 1 \in Q
  <2>1. n \in Nat /\ n + 1 \in Nat /\ (n + 1) - 1 = n
    OBVIOUS
  <2>2. c[n + 1] = IF n + 1 \in DOMAIN f THEN c[(n + 1) - 1] + f[n + 1] ELSE 0
    BY <1>7, <2>1
  <2>3. h[n + 1] = IF n + 1 \in 1..N THEN h[n] + f[n + 1] ELSE 0
    BY <1>3, <2>1
  <2>4. c[n] = IF n <= N THEN h[n] ELSE 0
    OBVIOUS
  <2>5. c[n + 1] = IF n + 1 <= N THEN h[n + 1] ELSE 0
    <3>1. CASE n + 1 <= N
      BY <2>1, <2>2, <2>3, <2>4, <3>1
    <3>2. CASE ~(n + 1 <= N)
      BY <2>1, <2>2, <3>2
    <3> QED
      BY <3>1, <3>2
  <2> QED
    BY <2>1, <2>5
<1>10. \A n \in Nat : n \in Q
  BY <1>8, <1>9, Induction
<1>11. ASSUME NEW n \in 0..N
       PROVE  Sum(f, n) = h[n]
  <2>1. n \in Nat /\ n <= N
    OBVIOUS
  <2>2. c[n] = h[n]
    BY <1>10, <2>1
  <2> QED
    BY <1>6, <2>2
<1> HIDE DEF Q, g, D
<1>12. \A n \in 0..(N - 1) : n \in 0..N /\ n + 1 \in 0..N /\ n \in Nat /\ n + 1 \in 1..N
  OBVIOUS
<1>13. Sum(f, 0) = 0
  BY <1>2, <1>11
<1>14. \A n \in 0..N : Sum(f, n) \in Nat
  BY <1>11
<1>15. ASSUME NEW n \in 0..(N - 1)
       PROVE  Sum(f, n + 1) = Sum(f, n) + f[n + 1]
  <2>1. h[n + 1] = h[n] + f[n + 1]
    BY <1>3, <1>12
  <2>2. Sum(f, n + 1) = h[n + 1] /\ Sum(f, n) = h[n]
    BY <1>11, <1>12
  <2> QED
    BY <2>1, <2>2
<1> QED
  BY <1>13, <1>14, <1>15

\* Induction up to a bound.
LEMMA UptoInduction ==
    ASSUME NEW N \in Nat, NEW I, 0 \in I, \A n \in 0..(N - 1) : n \in I => n + 1 \in I
    PROVE  \A n \in 0..N : n \in I
<1> DEFINE J == {n \in Nat : n <= N => n \in I}
<1>1. 0 \in J
  OBVIOUS
<1>2. ASSUME NEW n \in J
      PROVE  n + 1 \in J
  OBVIOUS
<1>3. \A n \in Nat : n \in J
  <2> HIDE DEF J
  <2>1. J \in SUBSET Nat
    BY DEF J
  <2> QED
    BY <1>1, <1>2, <2>1, Induction
<1> QED
  BY <1>3

\* Larger entries have larger sums.
LEMMA SumMonotone ==
    ASSUME NEW N \in Nat, NEW f \in [1..N -> Nat], NEW g \in [1..N -> Nat],
           \A i \in 1..N : f[i] <= g[i]
    PROVE  \A n \in 0..N : Sum(f, n) <= Sum(g, n)
<1>1. /\ Sum(f, 0) = 0
      /\ \A n \in 0..(N - 1) : Sum(f, n + 1) = Sum(f, n) + f[n + 1]
      /\ \A n \in 0..N : Sum(f, n) \in Nat
  BY SumFacts
<1>2. /\ Sum(g, 0) = 0
      /\ \A n \in 0..(N - 1) : Sum(g, n + 1) = Sum(g, n) + g[n + 1]
      /\ \A n \in 0..N : Sum(g, n) \in Nat
  BY SumFacts
<1> DEFINE I == {n \in 0..N : Sum(f, n) <= Sum(g, n)}
<1>3. 0 \in I
  BY <1>1, <1>2
<1>4. ASSUME NEW n \in 0..(N - 1), n \in I
      PROVE  n + 1 \in I
  <2>1. /\ Sum(f, n + 1) = Sum(f, n) + f[n + 1] /\ Sum(g, n + 1) = Sum(g, n) + g[n + 1]
        /\ n \in 0..N /\ Sum(f, n) \in Nat /\ Sum(g, n) \in Nat
        /\ n + 1 \in 1..N /\ n + 1 \in 0..N /\ f[n + 1] \in Nat /\ g[n + 1] \in Nat
    BY <1>1, <1>2
  <2> QED
    BY <1>4, <2>1
<1>5. \A n \in 0..N : n \in I
  <2> HIDE DEF I
  <2> QED
    BY <1>3, <1>4, UptoInduction
<1> QED
  BY <1>5

\* The sum of sums.
LEMMA SumAdd ==
    ASSUME NEW N \in Nat, NEW f \in [1..N -> Nat], NEW g \in [1..N -> Nat],
           NEW h \in [1..N -> Nat], \A i \in 1..N : h[i] = f[i] + g[i]
    PROVE  \A n \in 0..N : Sum(h, n) = Sum(f, n) + Sum(g, n)
<1>1. /\ Sum(f, 0) = 0
      /\ \A n \in 0..(N - 1) : Sum(f, n + 1) = Sum(f, n) + f[n + 1]
      /\ \A n \in 0..N : Sum(f, n) \in Nat
  BY SumFacts
<1>2. /\ Sum(g, 0) = 0
      /\ \A n \in 0..(N - 1) : Sum(g, n + 1) = Sum(g, n) + g[n + 1]
      /\ \A n \in 0..N : Sum(g, n) \in Nat
  BY SumFacts
<1>3. /\ Sum(h, 0) = 0
      /\ \A n \in 0..(N - 1) : Sum(h, n + 1) = Sum(h, n) + h[n + 1]
      /\ \A n \in 0..N : Sum(h, n) \in Nat
  BY SumFacts
<1> DEFINE I == {n \in 0..N : Sum(h, n) = Sum(f, n) + Sum(g, n)}
<1>4. 0 \in I
  BY <1>1, <1>2, <1>3
<1>5. ASSUME NEW n \in 0..(N - 1), n \in I
      PROVE  n + 1 \in I
  <2>1. /\ Sum(f, n + 1) = Sum(f, n) + f[n + 1] /\ Sum(g, n + 1) = Sum(g, n) + g[n + 1]
        /\ Sum(h, n + 1) = Sum(h, n) + h[n + 1]
        /\ n \in 0..N /\ Sum(f, n) \in Nat /\ Sum(g, n) \in Nat
        /\ n + 1 \in 1..N /\ n + 1 \in 0..N /\ f[n + 1] \in Nat /\ g[n + 1] \in Nat
    BY <1>1, <1>2, <1>3
  <2> QED
    BY <1>5, <2>1
<1>6. \A n \in 0..N : n \in I
  <2> HIDE DEF I
  <2> QED
    BY <1>4, <1>5, UptoInduction
<1> QED
  BY <1>6

\* One more in one entry is one more in the sums that have it.
LEMMA SumOneMore ==
    ASSUME NEW N \in Nat, NEW f \in [1..N -> Nat], NEW g \in [1..N -> Nat], NEW k \in 1..N,
           g[k] = f[k] + 1, \A i \in 1..N : i # k => g[i] = f[i]
    PROVE  \A n \in 0..N : Sum(g, n) = Sum(f, n) + (IF k <= n THEN 1 ELSE 0)
<1>1. /\ Sum(f, 0) = 0
      /\ \A n \in 0..(N - 1) : Sum(f, n + 1) = Sum(f, n) + f[n + 1]
      /\ \A n \in 0..N : Sum(f, n) \in Nat
  BY SumFacts
<1>2. /\ Sum(g, 0) = 0
      /\ \A n \in 0..(N - 1) : Sum(g, n + 1) = Sum(g, n) + g[n + 1]
      /\ \A n \in 0..N : Sum(g, n) \in Nat
  BY SumFacts
<1> DEFINE I == {n \in 0..N : Sum(g, n) = Sum(f, n) + (IF k <= n THEN 1 ELSE 0)}
<1>3. 0 \in I
  BY <1>1, <1>2
<1>4. ASSUME NEW n \in 0..(N - 1), n \in I
      PROVE  n + 1 \in I
  <2>1. /\ Sum(f, n + 1) = Sum(f, n) + f[n + 1] /\ Sum(g, n + 1) = Sum(g, n) + g[n + 1]
        /\ n \in 0..N /\ Sum(f, n) \in Nat /\ Sum(g, n) \in Nat
        /\ n + 1 \in 1..N /\ n + 1 \in 0..N /\ f[n + 1] \in Nat /\ g[n + 1] \in Nat
    BY <1>1, <1>2
  <2>2. g[n + 1] = f[n + 1] + (IF k = n + 1 THEN 1 ELSE 0)
    BY <2>1
  <2> QED
    BY <1>4, <2>1, <2>2
<1>5. \A n \in 0..N : n \in I
  <2> HIDE DEF I
  <2> QED
    BY <1>3, <1>4, UptoInduction
<1> QED
  BY <1>5

\* The sum of nothing but 0.
LEMMA SumZeroes ==
    ASSUME NEW N \in Nat, NEW f \in [1..N -> Nat], NEW m \in 0..N, \A i \in 1..m : f[i] = 0
    PROVE  Sum(f, m) = 0
<1>1. /\ Sum(f, 0) = 0
      /\ \A n \in 0..(N - 1) : Sum(f, n + 1) = Sum(f, n) + f[n + 1]
      /\ \A n \in 0..N : Sum(f, n) \in Nat
  BY SumFacts
<1> DEFINE I == {n \in 0..m : Sum(f, n) = 0}
<1>2. 0 \in I
  BY <1>1
<1>3. ASSUME NEW n \in 0..(m - 1), n \in I
      PROVE  n + 1 \in I
  <2>1. n \in 0..(N - 1) /\ n + 1 \in 1..m /\ n + 1 \in 0..m
    OBVIOUS
  <2>2. Sum(f, n + 1) = Sum(f, n) + f[n + 1]
    BY <2>1, <1>1
  <2> QED
    BY <1>3, <2>1, <2>2
<1>4. \A n \in 0..m : n \in I
  <2> HIDE DEF I
  <2> QED
    BY <1>2, <1>3, UptoInduction
<1> QED
  BY <1>4

-----------------------------------------------------------------------------
(***************************************************************************)
(* The inductive invariant.                                                *)
(***************************************************************************)
KeyCol(l) == [i \in 1..num_updaters |-> l[i - 1].get_key]
TCol(l) == [i \in 1..num_updaters |-> l[i - 1].t]
BCol(l) == [i \in 1..num_updaters |-> l[i - 1].b]
HitCol(l, cid) == [i \in 1..num_updaters |-> l[i - 1].hit[cid]]

\* a, the sum of what the first i threads had when they were added, is at most
\* what they have now, and with what the others have no less than l, the sum
\* when the aggregation began.
Between(l, a, col, i) == a <= Sum(col, i) /\ l + Sum(col, i) <= a + Sum(col, num_updaters)

Readers == {w \in Worker : wk[w].at \in Reading}

\* The types of all variables.
Types ==
    /\ local \in [Thread -> Metrics]
    /\ agg \in Metrics /\ lo \in Metrics
    /\ tmax \in Nat /\ enabled \in BOOLEAN /\ sem \in Nat
    /\ ag \in [at : {"timer", "wait", "reset", "sum", "slabs", "post", "max"}, i : Thread]
    /\ ag.at \in {"timer", "reset", "slabs", "max"} => ag.i = 0
    /\ wk \in [Worker -> [at : {"idle", "lookup", "sem"} \cup Reading,
                          cmd : {"none", "stats", "slabs"}, get_key : Nat, hit : Nat]]
    /\ reported \in [get_key : Nat, hit : Nat]

\* How many counts of the semaphore the aggregator holds.
Held == IF ag.at \in {"reset", "sum", "slabs"} THEN num_updaters
        ELSE IF ag.at = "wait" THEN ag.i
        ELSE IF ag.at = "post" THEN num_updaters - ag.i ELSE 0

\* Whoever reads or adds up holds counts of the semaphore.
Counts == sem = num_updaters - Cardinality(Readers) - Held

\* A thread counts a key before it counts the hit; only the dispatcher opens
\* connections, and none is closed that was not opened.
Pending(i) == IF i \in Worker /\ wk[i].at = "lookup" THEN 1 ELSE 0

Locals ==
    /\ \A i \in Thread : Hits(local[i], SLABCLASS_MAX_ID) + Pending(i) <= local[i].get_key
    /\ \A w \in Worker : local[w].t = 0
    /\ Total.b <= Total.t

\* The sums, from reset to post.
Sums ==
    /\ Hits(agg, SLABCLASS_MAX_ID) <= agg.get_key
    /\ ag.at = "sum" =>
          /\ Between(lo.get_key, agg.get_key, KeyCol(local), ag.i)
          /\ Between(lo.t, agg.t, TCol(local), ag.i)
          /\ Between(lo.b, agg.b, BCol(local), ag.i)
          /\ \A cid \in ClassId : Between(lo.hit[cid], agg.hit[cid], HitCol(local, cid), ag.i)
    /\ ag.at = "slabs" => AtMost(lo, agg) /\ agg.b <= agg.t
    /\ ag.at # "sum" => AtMost(agg, Total)
    /\ ag.at \notin {"sum", "slabs"} => agg.hit[Summary] = Hits(agg, SLABCLASS_MAX_ID - 1)

\* What was replied is at most what is summed up, or will be.
Replies ==
    /\ reported.hit <= reported.get_key
    /\ ag.at \notin {"sum", "slabs"} =>
          reported.get_key <= agg.get_key /\ reported.hit <= agg.hit[Summary]
    /\ ag.at \in {"sum", "slabs"} =>
          reported.get_key <= lo.get_key /\ reported.hit <= Hits(lo, SLABCLASS_MAX_ID - 1)

\* A reply under way has copied the sums, that do not change until it is done.
Printed(w) ==
    /\ wk[w].at \in {"thread", "summary"} => wk[w].cmd = "stats"
    /\ wk[w].at = "classes" => wk[w].cmd # "stats"
    /\ wk[w].at = "summary" => wk[w].get_key = agg.get_key
    /\ wk[w].at = "post" /\ wk[w].cmd = "stats" =>
          wk[w].get_key = agg.get_key /\ wk[w].hit = agg.hit[Summary]

IInv == Types /\ Counts /\ Locals /\ Sums /\ Replies /\ \A w \in Worker : Printed(w)

-----------------------------------------------------------------------------
(***************************************************************************)
(* Facts about the sums of metrics.                                        *)
(***************************************************************************)

\* The constants, and what is counted from them.
LEMMA Sizes ==
    /\ num_workers \in Nat /\ num_workers > 0
    /\ num_updaters \in Nat /\ num_updaters = num_workers + 1
    /\ SLABCLASS_MAX_ID \in Nat /\ SLABCLASS_MAX_ID - 1 \in Nat
    /\ ClassId = 1..SLABCLASS_MAX_ID
    /\ Worker = 0..(num_workers - 1) /\ Thread = 0..num_workers
    /\ Worker \subseteq Thread /\ Dispatcher \in Thread /\ Dispatcher \notin Worker
BY StatsAssumption DEF num_updaters, ClassId, SLABCLASS_MIN_ID, Worker, Thread, Dispatcher

\* Columns hold numbers.
LEMMA ColTypes ==
    ASSUME NEW l \in [Thread -> Metrics]
    PROVE  /\ KeyCol(l) \in [1..num_updaters -> Nat]
           /\ TCol(l) \in [1..num_updaters -> Nat]
           /\ BCol(l) \in [1..num_updaters -> Nat]
           /\ \A cid \in ClassId \cup {Summary} : HitCol(l, cid) \in [1..num_updaters -> Nat]
<1>1. \A i \in 1..num_updaters : i - 1 \in Thread
  BY Sizes
<1>2. \A i \in 1..num_updaters : l[i - 1] \in Metrics
  BY <1>1
<1> QED
  BY <1>2 DEF KeyCol, TCol, BCol, HitCol, Metrics

TotalOf(l) ==
    [get_key |-> Sum(KeyCol(l), num_updaters), t |-> Sum(TCol(l), num_updaters),
     b |-> Sum(BCol(l), num_updaters),
     hit |-> [cid \in ClassId \cup {Summary} |-> Sum(HitCol(l, cid), num_updaters)]]

\* The true sums are sums of columns, ...
LEMMA TotalIs == Total = TotalOf(local) /\ Total' = TotalOf(local')
BY DEF Total, Upto, TotalOf, KeyCol, TCol, BCol, HitCol

\* ... which are numbers.
LEMMA TotalFacts ==
    ASSUME NEW l \in [Thread -> Metrics]
    PROVE  /\ TotalOf(l) \in Metrics
           /\ TotalOf(l).get_key = Sum(KeyCol(l), num_updaters)
           /\ TotalOf(l).t = Sum(TCol(l), num_updaters)
           /\ TotalOf(l).b = Sum(BCol(l), num_updaters)
           /\ \A cid \in ClassId : TotalOf(l).hit[cid] = Sum(HitCol(l, cid), num_updaters)
<1>3. num_updaters \in Nat /\ num_updaters \in 0..num_updaters
  BY Sizes
<1>4. /\ Sum(KeyCol(l), num_updaters) \in Nat
      /\ Sum(TCol(l), num_updaters) \in Nat
      /\ Sum(BCol(l), num_updaters) \in Nat
  BY <1>3, ColTypes, SumFacts
<1>5. \A cid \in ClassId \cup {Summary} : Sum(HitCol(l, cid), num_updaters) \in Nat
  BY <1>3, ColTypes, SumFacts
<1>6. TotalOf(l) \in Metrics
  BY <1>4, <1>5 DEF TotalOf, Metrics
<1> QED
  BY <1>6 DEF TotalOf

HitRow(m) == [cid \in ClassId |-> m.hit[cid]]

\* Hits are a sum over classes, with or without the last one.
LEMMA HitsFacts ==
    ASSUME NEW m \in Metrics
    PROVE  /\ HitRow(m) \in [1..SLABCLASS_MAX_ID -> Nat]
           /\ \A n : Hits(m, n) = Sum(HitRow(m), n)
           /\ Hits(m, SLABCLASS_MAX_ID) \in Nat
           /\ Hits(m, SLABCLASS_MAX_ID - 1) \in Nat
           /\ Hits(m, SLABCLASS_MAX_ID - 1) <= Hits(m, SLABCLASS_MAX_ID)
<1>1. HitRow(m) \in [1..SLABCLASS_MAX_ID -> Nat]
  BY Sizes DEF HitRow, Metrics
<1>2. \A n : Hits(m, n) = Sum(HitRow(m), n)
  BY DEF Hits, HitRow
<1> DEFINE N == SLABCLASS_MAX_ID
<1>3. /\ N \in Nat /\ N \in 0..N /\ N - 1 \in 0..N /\ N - 1 \in 0..(N - 1) /\ (N - 1) + 1 = N
      /\ N \in 1..N
  BY Sizes
<1>4. Sum(HitRow(m), N) \in Nat /\ Sum(HitRow(m), N - 1) \in Nat
  BY <1>1, <1>3, SumFacts
<1>5. Sum(HitRow(m), (N - 1) + 1) = Sum(HitRow(m), N - 1) + HitRow(m)[(N - 1) + 1]
  BY <1>1, <1>3, SumFacts
<1>6. HitRow(m)[N] \in Nat
  BY <1>1, <1>3
<1>7. Sum(HitRow(m), N - 1) <= Sum(HitRow(m), N)
  BY <1>3, <1>4, <1>5, <1>6
<1> QED
  BY <1>1, <1>2, <1>4, <1>7

\* More of each class is more in all.
LEMMA HitsMonotone ==
    ASSUME NEW m1 \in Metrics, NEW m2 \in Metrics, \A cid \in ClassId : m1.hit[cid] <= m2.hit[cid]
    PROVE  Hits(m1, SLABCLASS_MAX_ID - 1) <= Hits(m2, SLABCLASS_MAX_ID - 1)
<1>1. \A i \in 1..SLABCLASS_MAX_ID : HitRow(m1)[i] <= HitRow(m2)[i]
  BY Sizes DEF HitRow
<1>2. SLABCLASS_MAX_ID \in Nat /\ SLABCLASS_MAX_ID - 1 \in 0..SLABCLASS_MAX_ID
  BY Sizes
<1>3. /\ HitRow(m1) \in [1..SLABCLASS_MAX_ID -> Nat]
      /\ HitRow(m2) \in [1..SLABCLASS_MAX_ID -> Nat]
      /\ Hits(m1, SLABCLASS_MAX_ID - 1) = Sum(HitRow(m1), SLABCLASS_MAX_ID - 1)
      /\ Hits(m2, SLABCLASS_MAX_ID - 1) = Sum(HitRow(m2), SLABCLASS_MAX_ID - 1)
  BY HitsFacts
<1> QED
  BY <1>1, <1>2, <1>3, SumMonotone

\* Adding a thread adds its metrics, and its hits.
LEMMA UpdateFacts ==
    ASSUME NEW m1 \in Metrics, NEW m2 \in Metrics
    PROVE  LET m == stats_metric_update(m1, m2)
           IN  /\ m \in Metrics
               /\ m.get_key = m1.get_key + m2.get_key
               /\ m.t = m1.t + m2.t /\ m.b = m1.b + m2.b
               /\ \A cid \in ClassId : m.hit[cid] = m1.hit[cid] + m2.hit[cid]
               /\ Hits(m, SLABCLASS_MAX_ID)
                     = Hits(m1, SLABCLASS_MAX_ID) + Hits(m2, SLABCLASS_MAX_ID)
<1> DEFINE m == stats_metric_update(m1, m2)
           N == SLABCLASS_MAX_ID
<1>1. /\ m.get_key = m1.get_key + m2.get_key
      /\ m.t = m1.t + m2.t /\ m.b = m1.b + m2.b
      /\ \A cid \in ClassId : m.hit[cid] = m1.hit[cid] + m2.hit[cid]
      /\ m \in Metrics
  BY DEF stats_metric_update, Metrics
<1> HIDE DEF m
<1>2. \A i \in 1..N : HitRow(m)[i] = HitRow(m1)[i] + HitRow(m2)[i]
  BY <1>1, Sizes DEF HitRow
<1>3. N \in Nat /\ N \in 0..N
  BY Sizes
<1>4. /\ HitRow(m) \in [1..N -> Nat] /\ HitRow(m1) \in [1..N -> Nat]
      /\ HitRow(m2) \in [1..N -> Nat]
      /\ Hits(m, N) = Sum(HitRow(m), N) /\ Hits(m1, N) = Sum(HitRow(m1), N)
      /\ Hits(m2, N) = Sum(HitRow(m2), N)
  BY <1>1, HitsFacts
<1>5. Sum(HitRow(m), N) = Sum(HitRow(m1), N) + Sum(HitRow(m2), N)
  BY <1>2, <1>3, <1>4, SumAdd
<1>6. Hits(m, N) = Hits(m1, N) + Hits(m2, N)
  BY <1>4, <1>5
<1> QED
  BY <1>1, <1>6 DEF m

\* One more hit of a class is one more in all.
LEMMA HitsOneMore ==
    ASSUME NEW m1 \in Metrics, NEW m2 \in Metrics, NEW cid \in ClassId,
           m2.hit = [m1.hit EXCEPT ![cid] = @ + 1]
    PROVE  Hits(m2, SLABCLASS_MAX_ID) = Hits(m1, SLABCLASS_MAX_ID) + 1
<1> DEFINE N == SLABCLASS_MAX_ID
<1>1. /\ N \in Nat /\ N \in 0..N /\ cid \in 1..N /\ cid <= N
  BY Sizes
<1>2. /\ HitRow(m1) \in [1..N -> Nat] /\ HitRow(m2) \in [1..N -> Nat]
      /\ Hits(m1, N) = Sum(HitRow(m1), N) /\ Hits(m2, N) = Sum(HitRow(m2), N)
  BY HitsFacts
<1>3. /\ HitRow(m2)[cid] = HitRow(m1)[cid] + 1
      /\ \A i \in 1..N : i # cid => HitRow(m2)[i] = HitRow(m1)[i]
  BY <1>1, Sizes DEF HitRow, Metrics
<1>4. Sum(HitRow(m2), N) = Sum(HitRow(m1), N) + (IF cid <= N THEN 1 ELSE 0)
  BY <1>1, <1>2, <1>3, SumOneMore
<1> QED
  BY <1>1, <1>2, <1>4

\* The same hits make the same sums.
LEMMA HitsSame ==
    ASSUME NEW m1, NEW m2, \A cid \in ClassId : m1.hit[cid] = m2.hit[cid]
    PROVE  \A n : Hits(m1, n) = Hits(m2, n)
<1>1. HitRow(m1) = HitRow(m2)
  BY DEF HitRow
<1> QED
  BY <1>1 DEF Hits, HitRow

\* Nothing counted, no hits.
LEMMA ZeroFacts ==
    /\ Zero \in Metrics
    /\ Hits(Zero, SLABCLASS_MAX_ID) = 0 /\ Hits(Zero, SLABCLASS_MAX_ID - 1) = 0
<1>1. Zero \in Metrics
  BY DEF Zero, Metrics
<1>2. /\ SLABCLASS_MAX_ID \in Nat /\ SLABCLASS_MAX_ID \in 0..SLABCLASS_MAX_ID
      /\ SLABCLASS_MAX_ID - 1 \in 0..SLABCLASS_MAX_ID
  BY Sizes
<1>3. \A i \in 1..SLABCLASS_MAX_ID : HitRow(Zero)[i] = 0
  BY Sizes DEF HitRow, Zero
<1>4. HitRow(Zero) \in [1..SLABCLASS_MAX_ID -> Nat]
  BY <1>1, HitsFacts
<1>5. Sum(HitRow(Zero), SLABCLASS_MAX_ID) = 0
  BY <1>2, <1>3, <1>4, SumZeroes
<1>6. \A i \in 1..(SLABCLASS_MAX_ID - 1) : HitRow(Zero)[i] = 0
  BY <1>2, <1>3
<1>7. Sum(HitRow(Zero), SLABCLASS_MAX_ID - 1) = 0
  BY <1>2, <1>4, <1>6, SumZeroes
<1> QED
  BY <1>1, <1>5, <1>7, HitsFacts

-----------------------------------------------------------------------------
(***************************************************************************)
(* Threads count while they are added up.                                  *)
(***************************************************************************)

\* A thread has counted one more, or none has.
Grown(f, g) ==
    \/ g = f
    \/ \E k \in 1..num_updaters :
          g[k] = f[k] + 1 /\ \A i \in 1..num_updaters : i # k => g[i] = f[i]

\* What is true grows, and the sums of the aggregation stay in between.
LEMMA BetweenGrown ==
    ASSUME NEW f \in [1..num_updaters -> Nat], NEW g \in [1..num_updaters -> Nat], Grown(f, g)
    PROVE  /\ Sum(f, num_updaters) <= Sum(g, num_updaters)
           /\ Sum(g, num_updaters) <= Sum(f, num_updaters) + 1
           /\ \A i \in 0..num_updaters, l \in Nat, a \in Nat :
                 Between(l, a, f, i) => Between(l, a, g, i)
<1> DEFINE N == num_updaters
<1>1. N \in Nat /\ N \in 0..N
  BY Sizes
<1>2. \A n \in 0..N : Sum(f, n) \in Nat /\ Sum(g, n) \in Nat
  BY <1>1, SumFacts
<1>3. CASE g = f
  BY <1>1, <1>2, <1>3
<1>4. ASSUME NEW k \in 1..N, g[k] = f[k] + 1, \A i \in 1..N : i # k => g[i] = f[i]
      PROVE  \A n \in 0..N : Sum(g, n) = Sum(f, n) + (IF k <= n THEN 1 ELSE 0)
  BY <1>1, <1>4, SumOneMore
<1>5. CASE g # f
  <2>1. PICK k \in 1..N : \A n \in 0..N : Sum(g, n) = Sum(f, n) + (IF k <= n THEN 1 ELSE 0)
    BY <1>4, <1>5 DEF Grown
  <2>2. Sum(g, N) = Sum(f, N) + 1
    BY <1>1, <1>2, <2>1
  <2>3. ASSUME NEW i \in 0..N, NEW l \in Nat, NEW a \in Nat, Between(l, a, f, i)
        PROVE  Between(l, a, g, i)
    <3>1. Sum(g, i) = Sum(f, i) \/ Sum(g, i) = Sum(f, i) + 1
      BY <1>1, <1>2, <2>1
    <3> QED
      BY <1>1, <1>2, <2>2, <2>3, <3>1 DEF Between
  <2> QED
    BY <1>1, <1>2, <2>2, <2>3
<1> QED
  BY <1>3, <1>5

\* An aggregation begins, ...
LEMMA BetweenStart ==
    ASSUME NEW f \in [1..num_updaters -> Nat]
    PROVE  Between(Sum(f, num_updaters), 0, f, 0)
<1>1. /\ num_updaters \in Nat /\ num_updaters \in 0..num_updaters
  BY Sizes
<1>2. Sum(f, 0) = 0 /\ Sum(f, num_updaters) \in Nat
  BY <1>1, SumFacts
<1> QED
  BY <1>2 DEF Between

\* ... adds a thread, ...
LEMMA BetweenStep ==
    ASSUME NEW f \in [1..num_updaters -> Nat], NEW i \in 0..(num_updaters - 1),
           NEW l \in Nat, NEW a \in Nat, Between(l, a, f, i)
    PROVE  Between(l, a + f[i + 1], f, i + 1)
<1>1. num_updaters \in Nat /\ i \in 0..num_updaters /\ i + 1 \in 1..num_updaters
      /\ num_updaters \in 0..num_updaters
  BY Sizes
<1>2. Sum(f, i) \in Nat /\ Sum(f, i + 1) = Sum(f, i) + f[i + 1] /\ f[i + 1] \in Nat
  BY <1>1, SumFacts
<1>3. Sum(f, num_updaters) \in Nat
  BY <1>1, SumFacts
<1> QED
  BY <1>2, <1>3 DEF Between

\* ... and has added them all.
LEMMA BetweenEnd ==
    ASSUME NEW f \in [1..num_updaters -> Nat], NEW l \in Nat, NEW a \in Nat,
           Between(l, a, f, num_updaters)
    PROVE  l <= a /\ a <= Sum(f, num_updaters)
<1>1. /\ num_updaters \in Nat /\ num_updaters \in 0..num_updaters
  BY Sizes
<1>2. Sum(f, num_updaters) \in Nat
  BY <1>1, SumFacts
<1> QED
  BY <1>2 DEF Between

\* At most one thread has counted, each of its metrics by at most one.
Counted(l1, l2, w) ==
    /\ \A i \in Thread : i # w => l2[i] = l1[i]
    /\ l2[w].get_key \in {l1[w].get_key, l1[w].get_key + 1}
    /\ l2[w].t \in {l1[w].t, l1[w].t + 1}
    /\ l2[w].b \in {l1[w].b, l1[w].b + 1}
    /\ \A cid \in ClassId : l2[w].hit[cid] \in {l1[w].hit[cid], l1[w].hit[cid] + 1}

\* Then columns have grown.
LEMMA ColsGrown ==
    ASSUME NEW l1 \in [Thread -> Metrics], NEW l2 \in [Thread -> Metrics],
           NEW w \in Thread, Counted(l1, l2, w)
    PROVE  /\ Grown(KeyCol(l1), KeyCol(l2)) /\ Grown(TCol(l1), TCol(l2))
           /\ Grown(BCol(l1), BCol(l2))
           /\ \A cid \in ClassId : Grown(HitCol(l1, cid), HitCol(l2, cid))
<1>1. w + 1 \in 1..num_updaters /\ (w + 1) - 1 = w /\ \A i \in 1..num_updaters : i - 1 \in Thread
  BY Sizes
<1>2. \A i \in 1..num_updaters : i # w + 1 => i - 1 # w
  BY Sizes
<1>3. \A i \in 1..num_updaters : i # w + 1 => l2[i - 1] = l1[i - 1]
  BY <1>1, <1>2 DEF Counted
<1>4. ASSUME NEW f \in [1..num_updaters -> Nat], NEW g \in [1..num_updaters -> Nat],
             g[w + 1] \in {f[w + 1], f[w + 1] + 1},
             \A i \in 1..num_updaters : i # w + 1 => g[i] = f[i]
      PROVE  Grown(f, g)
  <2>1. CASE g[w + 1] = f[w + 1]
    <3>1. \A i \in 1..num_updaters : g[i] = f[i]
      BY <1>4, <2>1
    <3>2. g = [i \in 1..num_updaters |-> g[i]] /\ f = [i \in 1..num_updaters |-> f[i]]
      OBVIOUS
    <3>3. g = f
      BY <3>1, <3>2
    <3> QED
      BY <3>3 DEF Grown
  <2>2. CASE g[w + 1] = f[w + 1] + 1
    BY <1>1, <1>4, <2>2 DEF Grown
  <2> QED
    BY <1>4, <2>1, <2>2
<1>5. Grown(KeyCol(l1), KeyCol(l2))
  <2>1. KeyCol(l1) \in [1..num_updaters -> Nat] /\ KeyCol(l2) \in [1..num_updaters -> Nat]
    BY ColTypes
  <2>2. KeyCol(l2)[w + 1] \in {KeyCol(l1)[w + 1], KeyCol(l1)[w + 1] + 1}
    BY <1>1 DEF KeyCol, Counted
  <2>3. \A i \in 1..num_updaters : i # w + 1 => KeyCol(l2)[i] = KeyCol(l1)[i]
    BY <1>3 DEF KeyCol
  <2> QED
    BY <1>4, <2>1, <2>2, <2>3
<1>6. Grown(TCol(l1), TCol(l2))
  <2>1. TCol(l1) \in [1..num_updaters -> Nat] /\ TCol(l2) \in [1..num_updaters -> Nat]
    BY ColTypes
  <2>2. TCol(l2)[w + 1] \in {TCol(l1)[w + 1], TCol(l1)[w + 1] + 1}
    BY <1>1 DEF TCol, Counted
  <2>3. \A i \in 1..num_updaters : i # w + 1 => TCol(l2)[i] = TCol(l1)[i]
    BY <1>3 DEF TCol
  <2> QED
    BY <1>4, <2>1, <2>2, <2>3
<1>7. Grown(BCol(l1), BCol(l2))
  <2>1. BCol(l1) \in [1..num_updaters -> Nat] /\ BCol(l2) \in [1..num_updaters -> Nat]
    BY ColTypes
  <2>2. BCol(l2)[w + 1] \in {BCol(l1)[w + 1], BCol(l1)[w + 1] + 1}
    BY <1>1 DEF BCol, Counted
  <2>3. \A i \in 1..num_updaters : i # w + 1 => BCol(l2)[i] = BCol(l1)[i]
    BY <1>3 DEF BCol
  <2> QED
    BY <1>4, <2>1, <2>2, <2>3
<1>8. ASSUME NEW cid \in ClassId
      PROVE  Grown(HitCol(l1, cid), HitCol(l2, cid))
  <2>1. /\ HitCol(l1, cid) \in [1..num_updaters -> Nat]
        /\ HitCol(l2, cid) \in [1..num_updaters -> Nat]
    BY ColTypes
  <2>2. HitCol(l2, cid)[w + 1] \in {HitCol(l1, cid)[w + 1], HitCol(l1, cid)[w + 1] + 1}
    BY <1>1 DEF HitCol, Counted
  <2>3. \A i \in 1..num_updaters : i # w + 1 => HitCol(l2, cid)[i] = HitCol(l1, cid)[i]
    BY <1>3 DEF HitCol
  <2> QED
    BY <1>4, <2>1, <2>2, <2>3
<1> QED
  BY <1>5, <1>6, <1>7, <1>8

\* Nothing the sums are known for is lost when a thread counts.
LEMMA SumsCounted ==
    ASSUME Types, Types', Sums, NEW w \in Thread, Counted(local, local', w),
           UNCHANGED <<agg, lo, ag>>
    PROVE  Sums' /\ AtMost(Total, Total')
<1>1. local \in [Thread -> Metrics] /\ local' \in [Thread -> Metrics] /\ agg \in Metrics
      /\ lo \in Metrics
  BY DEF Types
<1>2. ag.i \in 0..num_updaters
  BY Sizes DEF Types
<1>3. /\ Grown(KeyCol(local), KeyCol(local')) /\ Grown(TCol(local), TCol(local'))
      /\ Grown(BCol(local), BCol(local'))
      /\ \A cid \in ClassId : Grown(HitCol(local, cid), HitCol(local', cid))
  BY <1>1, ColsGrown
<1>4. /\ KeyCol(local) \in [1..num_updaters -> Nat] /\ KeyCol(local') \in [1..num_updaters -> Nat]
      /\ TCol(local) \in [1..num_updaters -> Nat] /\ TCol(local') \in [1..num_updaters -> Nat]
      /\ BCol(local) \in [1..num_updaters -> Nat] /\ BCol(local') \in [1..num_updaters -> Nat]
  BY <1>1, ColTypes
<1>5. \A cid \in ClassId : /\ HitCol(local, cid) \in [1..num_updaters -> Nat]
                           /\ HitCol(local', cid) \in [1..num_updaters -> Nat]
  BY <1>1, ColTypes
<1>6. /\ Total \in Metrics
      /\ Total.get_key = Sum(KeyCol(local), num_updaters)
      /\ Total.t = Sum(TCol(local), num_updaters)
      /\ Total.b = Sum(BCol(local), num_updaters)
      /\ \A cid \in ClassId : Total.hit[cid] = Sum(HitCol(local, cid), num_updaters)
  BY <1>1, TotalFacts, TotalIs
<1>7. /\ Total' \in Metrics
      /\ Total'.get_key = Sum(KeyCol(local'), num_updaters)
      /\ Total'.t = Sum(TCol(local'), num_updaters)
      /\ Total'.b = Sum(BCol(local'), num_updaters)
      /\ \A cid \in ClassId : Total'.hit[cid] = Sum(HitCol(local', cid), num_updaters)
  BY <1>1, TotalFacts, TotalIs
<1>8. AtMost(Total, Total')
  BY <1>3, <1>4, <1>5, <1>6, <1>7, BetweenGrown DEF AtMost
<1>9. ag.at # "sum" => AtMost(agg, Total')
  <2> SUFFICES ASSUME ag.at # "sum"
               PROVE  AtMost(agg, Total')
    OBVIOUS
  <2>1. AtMost(agg, Total)
    BY DEF Sums
  <2> QED
    BY <1>1, <1>6, <1>7, <1>8, <2>1 DEF AtMost, Metrics
<1>10. ASSUME ag.at = "sum"
       PROVE  /\ Between(lo.get_key, agg.get_key, KeyCol(local'), ag.i)
              /\ Between(lo.t, agg.t, TCol(local'), ag.i)
              /\ Between(lo.b, agg.b, BCol(local'), ag.i)
              /\ \A cid \in ClassId :
                    Between(lo.hit[cid], agg.hit[cid], HitCol(local', cid), ag.i)
  <2>1. /\ Between(lo.get_key, agg.get_key, KeyCol(local), ag.i)
        /\ Between(lo.t, agg.t, TCol(local), ag.i)
        /\ Between(lo.b, agg.b, BCol(local), ag.i)
        /\ \A cid \in ClassId : Between(lo.hit[cid], agg.hit[cid], HitCol(local, cid), ag.i)
    BY <1>10 DEF Sums
  <2>2. /\ lo.get_key \in Nat /\ agg.get_key \in Nat /\ lo.t \in Nat /\ agg.t \in Nat
        /\ lo.b \in Nat /\ agg.b \in Nat
        /\ \A cid \in ClassId : lo.hit[cid] \in Nat /\ agg.hit[cid] \in Nat
    BY <1>1 DEF Metrics
  <2>3. Between(lo.get_key, agg.get_key, KeyCol(local'), ag.i)
    BY <1>2, <1>3, <1>4, <2>1, <2>2, BetweenGrown
  <2>4. Between(lo.t, agg.t, TCol(local'), ag.i)
    BY <1>2, <1>3, <1>4, <2>1, <2>2, BetweenGrown
  <2>5. Between(lo.b, agg.b, BCol(local'), ag.i)
    BY <1>2, <1>3, <1>4, <2>1, <2>2, BetweenGrown
  <2>6. \A cid \in ClassId : Between(lo.hit[cid], agg.hit[cid], HitCol(local', cid), ag.i)
    BY <1>2, <1>3, <1>5, <2>1, <2>2, BetweenGrown
  <2> QED
    BY <2>3, <2>4, <2>5, <2>6
<1> QED
  BY <1>8, <1>9, <1>10 DEF Sums

-----------------------------------------------------------------------------
(***************************************************************************)
(* Steps in which threads count.                                           *)
(***************************************************************************)

\* There are finitely many of them.
LEMMA ReadersFinite == IsFiniteSet(Readers) /\ Cardinality(Readers) \in Nat
<1>1. IsFiniteSet(Worker)
  BY Sizes, FS_Interval
<1>2. Readers \subseteq Worker
  BY DEF Readers
<1> QED
  BY <1>1, <1>2, FS_Subset, FS_CardinalityType

\* A worker's step changes the number of readers by what it does itself.
LEMMA ReadersFacts ==
    ASSUME NEW w \in Worker, \A u \in Worker : u # w => wk'[u] = wk[u]
    PROVE  /\ Cardinality(Readers) \in Nat
           /\ (wk[w].at \in Reading <=> wk'[w].at \in Reading) => Readers' = Readers
           /\ wk[w].at \notin Reading /\ wk'[w].at \in Reading
                 => Cardinality(Readers') = Cardinality(Readers) + 1
           /\ wk[w].at \in Reading /\ wk'[w].at \notin Reading
                 => Cardinality(Readers') = Cardinality(Readers) - 1
<1>2. IsFiniteSet(Readers) /\ Cardinality(Readers) \in Nat
  BY ReadersFinite
<1>3. ASSUME wk[w].at \in Reading <=> wk'[w].at \in Reading
      PROVE  Readers' = Readers
  <2>1. \A u \in Worker : wk[u].at \in Reading <=> wk'[u].at \in Reading
    BY <1>3
  <2> QED
    BY <2>1 DEF Readers
<1>4. ASSUME wk[w].at \notin Reading, wk'[w].at \in Reading
      PROVE  Cardinality(Readers') = Cardinality(Readers) + 1
  <2>1. Readers' = Readers \cup {w} /\ w \notin Readers
    BY <1>4 DEF Readers
  <2> QED
    BY <1>2, <2>1, FS_AddElement
<1>5. ASSUME wk[w].at \in Reading, wk'[w].at \notin Reading
      PROVE  Cardinality(Readers') = Cardinality(Readers) - 1
  <2>1. Readers' = Readers \ {w} /\ w \in Readers
    BY <1>5 DEF Readers
  <2> QED
    BY <1>2, <2>1, FS_RemoveElement
<1> QED
  BY <1>2, <1>3, <1>4, <1>5

\* No reply is under way while the sums change.
LEMMA Exclusion ==
    ASSUME Types, Counts, ag.at \in {"reset", "sum", "slabs"}
    PROVE  \A w \in Worker : wk[w].at \notin Reading
<1>2. IsFiniteSet(Readers) /\ Cardinality(Readers) \in Nat
  BY ReadersFinite
<1>3. sem = num_updaters - Cardinality(Readers) - num_updaters /\ sem \in Nat
  BY DEF Types, Counts, Held
<1>4. Cardinality(Readers) = 0
  BY <1>2, <1>3, Sizes
<1>5. Readers = {}
  BY <1>2, <1>4, FS_EmptySet
<1> QED
  BY <1>5 DEF Readers

\* A metric more or less leaves metrics.
LEMMA MetricsExcept ==
    ASSUME NEW m \in Metrics
    PROVE  /\ [m EXCEPT !.get_key = @ + 1] \in Metrics
           /\ [m EXCEPT !.t = @ + 1] \in Metrics
           /\ [m EXCEPT !.b = @ + 1] \in Metrics
           /\ \A cid \in ClassId : [m EXCEPT !.hit[cid] = @ + 1] \in Metrics
<1>1. PICK k \in Nat, t \in Nat, b \in Nat, h \in [ClassId \cup {Summary} -> Nat] :
         m = [get_key |-> k, t |-> t, b |-> b, hit |-> h]
  BY DEF Metrics
<1>2. [m EXCEPT !.get_key = @ + 1] = [get_key |-> k + 1, t |-> t, b |-> b, hit |-> h]
  BY <1>1
<1>3. [m EXCEPT !.t = @ + 1] = [get_key |-> k, t |-> t + 1, b |-> b, hit |-> h]
  BY <1>1
<1>4. [m EXCEPT !.b = @ + 1] = [get_key |-> k, t |-> t, b |-> b + 1, hit |-> h]
  BY <1>1
<1>5. ASSUME NEW cid \in ClassId
      PROVE  [m EXCEPT !.hit[cid] = @ + 1] \in Metrics
  <2>1. [m EXCEPT !.hit[cid] = @ + 1]
           = [get_key |-> k, t |-> t, b |-> b, hit |-> [h EXCEPT ![cid] = @ + 1]]
    BY <1>1
  <2>2. [h EXCEPT ![cid] = @ + 1] \in [ClassId \cup {Summary} -> Nat]
    OBVIOUS
  <2> QED
    BY <2>1, <2>2 DEF Metrics
<1>6. k + 1 \in Nat /\ t + 1 \in Nat /\ b + 1 \in Nat
  OBVIOUS
<1>7. [m EXCEPT !.get_key = @ + 1] \in Metrics
  BY <1>2, <1>6 DEF Metrics
<1>8. [m EXCEPT !.t = @ + 1] \in Metrics
  BY <1>3, <1>6 DEF Metrics
<1>9. [m EXCEPT !.b = @ + 1] \in Metrics
  BY <1>4, <1>6 DEF Metrics
<1> QED
  BY <1>5, <1>7, <1>8, <1>9

\* A key is looked up.
LEMMA ReadStep ==
    ASSUME IInv, NEW w \in Worker, asc_process_read(w)
    PROVE  IInv'
<1> USE Sizes
<1>1. w \in Thread /\ local[w] \in Metrics
  BY DEF IInv, Types
<1>2. Types'
  <2>1. [local[w] EXCEPT !.get_key = @ + 1] \in Metrics
    BY <1>1, MetricsExcept
  <2>2. local' \in [Thread -> Metrics]
    BY <2>1 DEF IInv, Types, asc_process_read
  <2>3. wk' \in [Worker -> [at : {"idle", "lookup", "sem"} \cup Reading,
                            cmd : {"none", "stats", "slabs"}, get_key : Nat, hit : Nat]]
    BY DEF IInv, Types, asc_process_read
  <2> QED
    BY <2>2, <2>3 DEF IInv, Types, asc_process_read
<1>3. Counted(local, local', w)
  BY <1>1 DEF IInv, Types, asc_process_read, Metrics, Counted
<1>4. Sums' /\ AtMost(Total, Total')
  BY <1>1, <1>2, <1>3, SumsCounted DEF IInv, asc_process_read
<1>5. Counts'
  <2>1. \A u \in Worker : u # w => wk'[u] = wk[u]
    BY DEF asc_process_read
  <2>2. wk[w].at \notin Reading /\ wk'[w].at \notin Reading
    BY DEF asc_process_read, Reading, IInv, Types
  <2>3. Readers' = Readers
    BY <2>1, <2>2, ReadersFacts
  <2> QED
    BY <2>3 DEF IInv, Counts, Held, asc_process_read
<1>6. Locals'
  <2>1. local'[w].hit = local[w].hit /\ local'[w].get_key = local[w].get_key + 1
    BY <1>1 DEF asc_process_read, IInv, Types, Metrics
  <2>2. Hits(local'[w], SLABCLASS_MAX_ID) = Hits(local[w], SLABCLASS_MAX_ID)
    BY <2>1, HitsSame
  <2>3. Hits(local[w], SLABCLASS_MAX_ID) \in Nat /\ local[w].get_key \in Nat
    BY <1>1, HitsFacts DEF Metrics
  <2>4. Hits(local[w], SLABCLASS_MAX_ID) <= local[w].get_key
    <3>1. Hits(local[w], SLABCLASS_MAX_ID) + Pending(w) <= local[w].get_key
      BY <1>1 DEF IInv, Locals
    <3>2. Pending(w) = 0
      BY DEF Pending, asc_process_read
    <3> QED
      BY <2>3, <3>1, <3>2
  <2>5. ASSUME NEW i \in Thread
        PROVE  Hits(local'[i], SLABCLASS_MAX_ID) + Pending(i)' <= local'[i].get_key
    <3>1. CASE i = w
      <4>1. Pending(w)' = 1
        BY DEF Pending, asc_process_read, IInv, Types
      <4> QED
        BY <2>1, <2>2, <2>3, <2>4, <3>1, <4>1
    <3>2. CASE i # w
      <4>1. local'[i] = local[i] /\ Pending(i)' = Pending(i)
        BY <3>2 DEF Pending, asc_process_read, IInv, Types
      <4> QED
        BY <4>1 DEF IInv, Locals
    <3> QED
      BY <3>1, <3>2
  <2>6. \A u \in Worker : local'[u].t = 0
    BY DEF asc_process_read, IInv, Types, Locals, Metrics
  <2>7. Total'.b = Total.b /\ Total'.t = Total.t
    <3>1. \A i \in 1..num_updaters : i - 1 \in Thread
      OBVIOUS
    <3>2. \A i \in Thread : local'[i].b = local[i].b /\ local'[i].t = local[i].t
      BY DEF asc_process_read, IInv, Types, Metrics
    <3>3. BCol(local') = BCol(local) /\ TCol(local') = TCol(local)
      BY <3>1, <3>2 DEF BCol, TCol
    <3> QED
      BY <3>3, TotalIs DEF TotalOf
  <2> QED
    BY <2>5, <2>6, <2>7 DEF Locals, IInv
<1>7. Replies'
  BY DEF IInv, Replies, asc_process_read
<1>8. ASSUME NEW u \in Worker
      PROVE  Printed(u)'
  BY DEF IInv, Printed, asc_process_read, Types
<1> QED
  BY <1>2, <1>4, <1>5, <1>6, <1>7, <1>8 DEF IInv

\* The item is found.
LEMMA HitStep ==
    ASSUME IInv, NEW w \in Worker, NEW cid \in ClassId, read_hit(w, cid)
    PROVE  IInv'
<1> USE Sizes
<1>1. w \in Thread /\ local[w] \in Metrics /\ local[w].hit \in [ClassId \cup {Summary} -> Nat]
  BY DEF IInv, Types, Metrics
<1>2. Types'
  <2>0. [local[w] EXCEPT !.hit[cid] = @ + 1] \in Metrics
    BY <1>1, MetricsExcept
  <2>1. local' \in [Thread -> Metrics]
    BY <2>0 DEF IInv, Types, read_hit
  <2>2. wk' \in [Worker -> [at : {"idle", "lookup", "sem"} \cup Reading,
                            cmd : {"none", "stats", "slabs"}, get_key : Nat, hit : Nat]]
    BY DEF IInv, Types, read_hit, Idle
  <2> QED
    BY <2>1, <2>2 DEF IInv, Types, read_hit
<1>3. Counted(local, local', w)
  BY <1>1 DEF IInv, Types, read_hit, Metrics, Counted
<1>4. Sums' /\ AtMost(Total, Total')
  BY <1>1, <1>2, <1>3, SumsCounted DEF IInv, read_hit
<1>5. Counts'
  <2>1. \A u \in Worker : u # w => wk'[u] = wk[u]
    BY DEF read_hit
  <2>2. wk[w].at \notin Reading /\ wk'[w].at \notin Reading
    BY DEF read_hit, Reading, IInv, Types, Idle
  <2>3. Readers' = Readers
    BY <2>1, <2>2, ReadersFacts
  <2> QED
    BY <2>3 DEF IInv, Counts, Held, read_hit
<1>6. Locals'
  <2>1. /\ local'[w].hit = [local[w].hit EXCEPT ![cid] = @ + 1]
        /\ local'[w].get_key = local[w].get_key
    BY <1>1 DEF read_hit, IInv, Types, Metrics
  <2>2. local'[w] \in Metrics
    BY <1>1, <1>2 DEF Types
  <2>3. Hits(local'[w], SLABCLASS_MAX_ID) = Hits(local[w], SLABCLASS_MAX_ID) + 1
    BY <1>1, <2>1, <2>2, HitsOneMore
  <2>4. Hits(local[w], SLABCLASS_MAX_ID) + 1 <= local[w].get_key
    <3>1. Hits(local[w], SLABCLASS_MAX_ID) + Pending(w) <= local[w].get_key
      BY <1>1 DEF IInv, Locals
    <3>2. Pending(w) = 1
      BY DEF Pending, read_hit
    <3> QED
      BY <3>1, <3>2
  <2>5. ASSUME NEW i \in Thread
        PROVE  Hits(local'[i], SLABCLASS_MAX_ID) + Pending(i)' <= local'[i].get_key
    <3>1. CASE i = w
      <4>1. Pending(w)' = 0
        BY DEF Pending, read_hit, IInv, Types, Idle
      <4>2. Hits(local[w], SLABCLASS_MAX_ID) \in Nat
        BY <1>1, HitsFacts
      <4> QED
        BY <2>1, <2>3, <2>4, <3>1, <4>1, <4>2
    <3>2. CASE i # w
      <4>1. local'[i] = local[i] /\ Pending(i)' = Pending(i)
        BY <3>2 DEF Pending, read_hit, IInv, Types
      <4> QED
        BY <4>1 DEF IInv, Locals
    <3> QED
      BY <3>1, <3>2
  <2>6. \A u \in Worker : local'[u].t = 0
    BY DEF read_hit, IInv, Types, Locals, Metrics
  <2>7. Total'.b = Total.b /\ Total'.t = Total.t
    <3>1. \A i \in 1..num_updaters : i - 1 \in Thread
      OBVIOUS
    <3>2. \A i \in Thread : local'[i].b = local[i].b /\ local'[i].t = local[i].t
      BY DEF read_hit, IInv, Types, Metrics
    <3>3. BCol(local') = BCol(local) /\ TCol(local') = TCol(local)
      BY <3>1, <3>2 DEF BCol, TCol
    <3> QED
      BY <3>3, TotalIs DEF TotalOf
  <2> QED
    BY <2>5, <2>6, <2>7 DEF Locals, IInv
<1>7. Replies'
  BY DEF IInv, Replies, read_hit
<1>8. ASSUME NEW u \in Worker
      PROVE  Printed(u)'
  BY DEF IInv, Printed, read_hit, Types, Idle
<1> QED
  BY <1>2, <1>4, <1>5, <1>6, <1>7, <1>8 DEF IInv

\* The dispatcher opens a connection.
LEMMA ConnGetStep ==
    ASSUME IInv, conn_get
    PROVE  IInv'
<1> USE Sizes
<1>1. Dispatcher \in Thread /\ local[Dispatcher] \in Metrics
  BY DEF IInv, Types
<1>2. Types'
  <2>1. [local[Dispatcher] EXCEPT !.t = @ + 1] \in Metrics
    BY <1>1, MetricsExcept
  <2>2. local' \in [Thread -> Metrics]
    BY <2>1 DEF IInv, Types, conn_get
  <2> QED
    BY <2>2 DEF IInv, Types, conn_get
<1>3. Counted(local, local', Dispatcher)
  BY <1>1 DEF IInv, Types, conn_get, Metrics, Counted
<1>4. Sums' /\ AtMost(Total, Total')
  BY <1>1, <1>2, <1>3, SumsCounted DEF IInv, conn_get
<1>5. Counts' /\ Replies' /\ \A u \in Worker : Printed(u)'
  BY DEF IInv, Counts, Held, Readers, Replies, Printed, conn_get
<1>6. Locals'
  <2>1. ASSUME NEW i \in Thread
        PROVE  Hits(local'[i], SLABCLASS_MAX_ID) + Pending(i)' <= local'[i].get_key
    <3>1. local'[i].hit = local[i].hit /\ local'[i].get_key = local[i].get_key
      BY DEF conn_get, IInv, Types, Metrics
    <3>2. Hits(local'[i], SLABCLASS_MAX_ID) = Hits(local[i], SLABCLASS_MAX_ID)
      BY <3>1, HitsSame
    <3>3. Pending(i)' = Pending(i)
      BY DEF conn_get, Pending
    <3> QED
      BY <3>1, <3>2, <3>3 DEF IInv, Locals
  <2>2. \A u \in Worker : local'[u] = local[u]
    BY DEF conn_get, IInv, Types
  <2>3. Total'.b = Total.b
    <3>1. \A i \in 1..num_updaters : i - 1 \in Thread
      OBVIOUS
    <3>2. \A i \in Thread : local'[i].b = local[i].b
      BY DEF conn_get, IInv, Types, Metrics
    <3>3. BCol(local') = BCol(local)
      BY <3>1, <3>2 DEF BCol
    <3> QED
      BY <3>3, TotalIs DEF TotalOf
  <2>4. Total'.t >= Total.t
    BY <1>4 DEF AtMost
  <2>5. Total \in Metrics /\ Total' \in Metrics
    BY <1>2, TotalIs, TotalFacts DEF IInv, Types
  <2>6. Total'.b <= Total'.t
    BY <2>3, <2>4, <2>5 DEF IInv, Locals, Metrics
  <2> QED
    BY <2>1, <2>2, <2>6 DEF Locals, IInv
<1> QED
  BY <1>2, <1>4, <1>5, <1>6 DEF IInv

\* A worker closes one.
LEMMA ConnCloseStep ==
    ASSUME IInv, NEW w \in Worker, conn_close(w)
    PROVE  IInv'
<1> USE Sizes
<1>1. w \in Thread /\ local[w] \in Metrics
  BY DEF IInv, Types
<1>2. Types'
  <2>1. [local[w] EXCEPT !.b = @ + 1] \in Metrics
    BY <1>1, MetricsExcept
  <2>2. local' \in [Thread -> Metrics]
    BY <2>1 DEF IInv, Types, conn_close
  <2> QED
    BY <2>2 DEF IInv, Types, conn_close
<1>3. Counted(local, local', w)
  BY <1>1 DEF IInv, Types, conn_close, Metrics, Counted
<1>4. Sums'
  BY <1>1, <1>2, <1>3, SumsCounted DEF IInv, conn_close
<1>5. Counts' /\ Replies' /\ \A u \in Worker : Printed(u)'
  BY DEF IInv, Counts, Held, Readers, Replies, Printed, conn_close
<1>6. Locals'
  <2>1. ASSUME NEW i \in Thread
        PROVE  Hits(local'[i], SLABCLASS_MAX_ID) + Pending(i)' <= local'[i].get_key
    <3>1. local'[i].hit = local[i].hit /\ local'[i].get_key = local[i].get_key
      BY DEF conn_close, IInv, Types, Metrics
    <3>2. Hits(local'[i], SLABCLASS_MAX_ID) = Hits(local[i], SLABCLASS_MAX_ID)
      BY <3>1, HitsSame
    <3>3. Pending(i)' = Pending(i)
      BY DEF conn_close, Pending
    <3> QED
      BY <3>1, <3>2, <3>3 DEF IInv, Locals
  <2>2. \A u \in Thread : local'[u].t = local[u].t
    BY DEF conn_close, IInv, Types, Metrics
  <2>3. Total'.t = Total.t
    <3>1. \A i \in 1..num_updaters : i - 1 \in Thread
      OBVIOUS
    <3>2. TCol(local') = TCol(local)
      BY <2>2, <3>1 DEF TCol
    <3> QED
      BY <3>2, TotalIs DEF TotalOf
  <2>4. Total'.b <= Total.b + 1
    <3>1. Grown(BCol(local), BCol(local'))
      BY <1>1, <1>2, <1>3, ColsGrown DEF IInv, Types
    <3>2. BCol(local) \in [1..num_updaters -> Nat] /\ BCol(local') \in [1..num_updaters -> Nat]
      BY <1>2, ColTypes DEF IInv, Types
    <3>3. Sum(BCol(local'), num_updaters) <= Sum(BCol(local), num_updaters) + 1
      BY <3>1, <3>2, BetweenGrown
    <3> QED
      BY <3>3, TotalIs DEF TotalOf
  <2>5. Total \in Metrics /\ Total' \in Metrics
    BY <1>2, TotalIs, TotalFacts DEF IInv, Types
  <2>6. Total.b < Total.t
    BY DEF conn_close
  <2>7. Total'.b <= Total'.t
    BY <2>3, <2>4, <2>5, <2>6 DEF Metrics
  <2> QED
    BY <2>1, <2>2, <2>7 DEF Locals, IInv
<1> QED
  BY <1>2, <1>4, <1>5, <1>6 DEF IInv

-----------------------------------------------------------------------------
(***************************************************************************)
(* Steps of commands.                                                      *)
(***************************************************************************)

\* Steps that count nothing.
LEMMA Kept ==
    ASSUME IInv, UNCHANGED local, \A u \in Worker : wk'[u].at = "lookup" => wk[u].at = "lookup"
    PROVE  /\ Locals'
           /\ UNCHANGED <<agg, lo, ag>> => Sums'
<1>1. Total' = Total
  BY TotalIs
<1>2. \A i \in Thread : Pending(i)' \in {0, 1} /\ Pending(i) \in {0, 1} /\ Pending(i)' <= Pending(i)
  BY DEF Pending
<1>3. \A i \in Thread : Hits(local[i], SLABCLASS_MAX_ID) \in Nat /\ local[i].get_key \in Nat
  <2>1. \A i \in Thread : local[i] \in Metrics
    BY DEF IInv, Types
  <2> QED
    BY <2>1, HitsFacts DEF Metrics
<1>4. ASSUME NEW i \in Thread
      PROVE  Hits(local[i], SLABCLASS_MAX_ID) + Pending(i)' <= local[i].get_key
  <2>1. Hits(local[i], SLABCLASS_MAX_ID) + Pending(i) <= local[i].get_key
    BY DEF IInv, Locals
  <2> QED
    BY <1>2, <1>3, <2>1
<1>5. Locals'
  BY <1>1, <1>4 DEF Locals, IInv
<1>6. ASSUME UNCHANGED <<agg, lo, ag>>
      PROVE  Sums'
  BY <1>1, <1>6 DEF IInv, Sums
<1> QED
  BY <1>5, <1>6

\* The key is not found; and commands that only set the interval.
LEMMA IdleSteps ==
    ASSUME IInv, NEW w \in Worker,
           \/ read_miss(w) \/ asc_process_klog_interval(w)
           \/ \E on \in BOOLEAN : asc_process_aggregate(w, on)
           \/ \E cmd \in {"stats", "slabs"} : asc_process_stats(w, cmd)
    PROVE  IInv'
<1>1. CASE read_miss(w)
  <2>1. Types'
    BY <1>1 DEF IInv, Types, read_miss, Idle
  <2>2. /\ \A u \in Worker : u # w => wk'[u] = wk[u]
        /\ wk[w].at \notin Reading /\ wk'[w].at \notin Reading
        /\ wk'[w].at = "idle"
    BY <1>1 DEF IInv, Types, read_miss, Reading, Idle
  <2>3. Counts'
    BY <1>1, <2>2, ReadersFacts DEF IInv, Counts, Held, read_miss
  <2>4. Locals' /\ Sums'
    <3>1. UNCHANGED <<local, agg, lo, ag>>
      BY <1>1 DEF read_miss
    <3>2. \A u \in Worker : wk'[u].at = "lookup" => wk[u].at = "lookup"
      BY <2>2
    <3> QED
      BY <3>1, <3>2, Kept
  <2>5. Replies' /\ \A u \in Worker : Printed(u)'
    BY <1>1, <2>2 DEF IInv, Replies, Printed, read_miss
  <2> QED
    BY <2>1, <2>3, <2>4, <2>5 DEF IInv
<1>2. ASSUME NEW cmd \in {"stats", "slabs"}, asc_process_stats(w, cmd)
      PROVE  IInv'
  <2>1. Types'
    BY <1>2 DEF IInv, Types, asc_process_stats
  <2>2. /\ \A u \in Worker : u # w => wk'[u] = wk[u]
        /\ wk[w].at \notin Reading /\ wk'[w].at \notin Reading
        /\ wk'[w].at = "sem"
    BY <1>2 DEF IInv, Types, asc_process_stats, Reading
  <2>3. Counts'
    BY <1>2, <2>2, ReadersFacts DEF IInv, Counts, Held, asc_process_stats
  <2>4. Locals' /\ Sums'
    <3>1. UNCHANGED <<local, agg, lo, ag>>
      BY <1>2 DEF asc_process_stats
    <3>2. \A u \in Worker : wk'[u].at = "lookup" => wk[u].at = "lookup"
      BY <2>2
    <3> QED
      BY <3>1, <3>2, Kept
  <2>5. Replies'
    BY <1>2 DEF IInv, Replies, asc_process_stats
  <2>6. ASSUME NEW u \in Worker
        PROVE  Printed(u)'
    <3>1. CASE u = w
      BY <2>2, <3>1 DEF Printed
    <3>2. CASE u # w
      BY <1>2, <2>2, <3>2 DEF IInv, Printed, asc_process_stats
    <3> QED
      BY <3>1, <3>2
  <2> QED
    BY <2>1, <2>3, <2>4, <2>5, <2>6 DEF IInv
<1>3. ASSUME asc_process_klog_interval(w) \/ \E on \in BOOLEAN : asc_process_aggregate(w, on)
      PROVE  IInv'
  <2>1. enabled' \in BOOLEAN /\ UNCHANGED <<local, agg, tmax, sem, ag, wk, lo, reported>>
    BY <1>3 DEF asc_process_klog_interval, asc_process_aggregate
  <2>2. Types' /\ Counts' /\ Replies' /\ \A u \in Worker : Printed(u)'
    BY <2>1 DEF IInv, Types, Counts, Held, Readers, Replies, Printed
  <2>3. Locals' /\ Sums'
    BY <2>1, Kept
  <2> QED
    BY <2>2, <2>3 DEF IInv
<1> QED
  BY <1>1, <1>2, <1>3

\* A reply begins.
LEMMA WaitStep ==
    ASSUME IInv, NEW w \in Worker, stats_wait(w)
    PROVE  IInv'
<1>1. Types'
  BY DEF IInv, Types, stats_wait, Reading
<1>2. /\ \A u \in Worker : u # w => wk'[u] = wk[u]
      /\ wk[w].at \notin Reading /\ wk'[w].at \in Reading
      /\ wk'[w].at \in {"thread", "classes"}
      /\ wk'[w].at = "thread" => wk'[w].cmd = "stats"
      /\ wk'[w].at = "classes" => wk'[w].cmd # "stats"
  BY DEF IInv, Types, stats_wait, Reading
<1>3. Counts'
  <2>1. Cardinality(Readers') = Cardinality(Readers) + 1 /\ Cardinality(Readers) \in Nat
    BY <1>2, ReadersFacts
  <2>2. Held' = Held /\ Held \in Int /\ num_updaters \in Nat
    BY Sizes DEF IInv, Types, Held, stats_wait
  <2>3. sem = num_updaters - Cardinality(Readers) - Held
    BY DEF IInv, Counts
  <2>4. sem' = num_updaters - Cardinality(Readers') - Held'
    BY <2>1, <2>2, <2>3 DEF stats_wait
  <2> QED
    BY <2>4 DEF Counts
<1>4. Locals' /\ Sums'
  <2>1. UNCHANGED <<local, agg, lo, ag>>
    BY DEF stats_wait
  <2>2. \A u \in Worker : wk'[u].at = "lookup" => wk[u].at = "lookup"
    BY <1>2
  <2> QED
    BY <2>1, <2>2, Kept
<1>5. Replies' /\ \A u \in Worker : Printed(u)'
  BY <1>2 DEF IInv, Replies, Printed, stats_wait
<1> QED
  BY <1>1, <1>3, <1>4, <1>5 DEF IInv

\* A reply goes on.
LEMMA PrintSteps ==
    ASSUME IInv, NEW w \in Worker,
           stats_default_thread(w) \/ stats_default_slab(w) \/ stats_slabs(w)
    PROVE  IInv'
<1> USE DEF stats_default_thread, stats_default_slab, stats_slabs
<1>1. agg.get_key \in Nat /\ agg.hit[Summary] \in Nat
  BY DEF IInv, Types, Metrics
<1>2. Types'
  BY <1>1 DEF IInv, Types, Reading
<1>3. /\ \A u \in Worker : u # w => wk'[u] = wk[u]
      /\ wk[w].at \in Reading /\ wk'[w].at \in Reading
      /\ wk'[w].at \in {"summary", "post"}
  BY DEF IInv, Types, Reading
<1>4. Counts'
  <2>1. Readers' = Readers
    BY <1>3, ReadersFacts
  <2> QED
    BY <2>1 DEF IInv, Counts, Held
<1>5. Locals' /\ Sums'
  <2>1. UNCHANGED <<local, agg, lo, ag>>
    OBVIOUS
  <2>2. \A u \in Worker : wk'[u].at = "lookup" => wk[u].at = "lookup"
    BY <1>3
  <2> QED
    BY <2>1, <2>2, Kept
<1>6. Replies'
  BY DEF IInv, Replies
<1>7. ASSUME NEW u \in Worker
      PROVE  Printed(u)'
  <2>1. CASE u # w
    BY <1>3, <2>1 DEF IInv, Printed
  <2>2. CASE u = w /\ stats_default_thread(w)
    BY <2>2 DEF IInv, Types, Printed
  <2>3. CASE u = w /\ stats_default_slab(w)
    BY <2>3 DEF IInv, Types, Printed
  <2>4. CASE u = w /\ stats_slabs(w)
    BY <2>4 DEF IInv, Types, Printed
  <2> QED
    BY <2>1, <2>2, <2>3, <2>4
<1> QED
  BY <1>2, <1>4, <1>5, <1>6, <1>7 DEF IInv

\* A reply ends.
LEMMA PostStep ==
    ASSUME IInv, NEW w \in Worker, stats_post(w)
    PROVE  /\ IInv'
           /\ reported'.get_key >= reported.get_key /\ reported'.hit >= reported.hit
<1>1. Types'
  BY DEF IInv, Types, stats_post, Idle
<1>2. /\ \A u \in Worker : u # w => wk'[u] = wk[u]
      /\ wk[w].at \in Reading /\ wk'[w].at \notin Reading
      /\ wk'[w].at = "idle"
  BY DEF IInv, Types, stats_post, Reading, Idle
<1>3. Counts'
  <2>1. Cardinality(Readers') = Cardinality(Readers) - 1 /\ Cardinality(Readers) \in Nat
    BY <1>2, ReadersFacts
  <2>2. Held' = Held /\ Held \in Int /\ num_updaters \in Nat
    BY Sizes DEF IInv, Types, Held, stats_post
  <2>3. sem = num_updaters - Cardinality(Readers) - Held
    BY DEF IInv, Counts
  <2>4. sem' = num_updaters - Cardinality(Readers') - Held'
    BY <2>1, <2>2, <2>3 DEF stats_post
  <2> QED
    BY <2>4 DEF Counts
<1>4. Locals' /\ Sums'
  <2>1. UNCHANGED <<local, agg, lo, ag>>
    BY DEF stats_post
  <2>2. \A u \in Worker : wk'[u].at = "lookup" => wk[u].at = "lookup"
    BY <1>2
  <2> QED
    BY <2>1, <2>2, Kept
<1>5. ag.at \notin {"reset", "sum", "slabs"}
  BY <1>2, Exclusion DEF IInv
<1>6. /\ agg \in Metrics
      /\ Hits(agg, SLABCLASS_MAX_ID) <= agg.get_key
      /\ agg.hit[Summary] = Hits(agg, SLABCLASS_MAX_ID - 1)
      /\ reported.get_key <= agg.get_key /\ reported.hit <= agg.hit[Summary]
  BY <1>5 DEF IInv, Types, Sums, Replies
<1>7. agg.hit[Summary] <= agg.get_key /\ agg.get_key \in Nat /\ agg.hit[Summary] \in Nat
  <2>1. agg.get_key \in Nat
    BY <1>6 DEF Metrics
  <2>2. /\ Hits(agg, SLABCLASS_MAX_ID) \in Nat /\ Hits(agg, SLABCLASS_MAX_ID - 1) \in Nat
        /\ Hits(agg, SLABCLASS_MAX_ID - 1) <= Hits(agg, SLABCLASS_MAX_ID)
    BY <1>6, HitsFacts
  <2> QED
    BY <1>6, <2>1, <2>2
<1>8. CASE wk[w].cmd = "stats"
  <2>1. reported' = [get_key |-> agg.get_key, hit |-> agg.hit[Summary]]
    BY <1>8 DEF stats_post, IInv, Printed
  <2>2. UNCHANGED <<agg, ag>>
    BY DEF stats_post
  <2>3. Replies'
    BY <1>5, <1>7, <2>1, <2>2 DEF Replies
  <2>4. reported'.get_key >= reported.get_key /\ reported'.hit >= reported.hit
    BY <1>6, <1>7, <2>1 DEF IInv, Types
  <2> QED
    BY <1>1, <1>2, <1>3, <1>4, <2>2, <2>3, <2>4 DEF IInv, Printed
<1>9. CASE wk[w].cmd # "stats"
  <2>1. UNCHANGED <<reported, agg, ag, lo>>
    BY <1>9 DEF stats_post
  <2>2. Replies'
    BY <2>1 DEF IInv, Replies
  <2>3. reported'.get_key >= reported.get_key /\ reported'.hit >= reported.hit
    BY <2>1 DEF IInv, Types
  <2> QED
    BY <1>1, <1>2, <1>3, <1>4, <2>1, <2>2, <2>3 DEF IInv, Printed
<1> QED
  BY <1>8, <1>9

-----------------------------------------------------------------------------
(***************************************************************************)
(* Steps of the aggregator.                                                *)
(***************************************************************************)

\* Steps around an aggregation: the timer, the counts of the semaphore, the
\* largest value.
LEMMA AroundSteps ==
    ASSUME IInv, thread_aggregate_stats \/ aggregate_wait \/ aggregate_post \/ aggregate_max
    PROVE  IInv'
<1> USE DEF thread_aggregate_stats, aggregate_wait, aggregate_post, aggregate_max
<1>1. UNCHANGED <<local, agg, enabled, wk, lo, reported>>
  OBVIOUS
<1>2. ag.at \notin {"reset", "sum", "slabs"} /\ ag'.at \notin {"sum", "slabs"}
  BY DEF IInv, Types
<1>3. ag' \in [at : {"timer", "wait", "reset", "sum", "slabs", "post", "max"}, i : Thread]
      /\ (ag'.at \in {"timer", "reset", "slabs", "max"} => ag'.i = 0)
  <2>1. CASE thread_aggregate_stats
    BY <2>1, Sizes DEF IInv, Types
  <2>2. CASE aggregate_wait
    <3>1. /\ ag \in [at : {"timer", "wait", "reset", "sum", "slabs", "post", "max"}, i : Thread]
          /\ ag.i \in 0..num_workers /\ 0 \in Thread
      BY Sizes DEF IInv, Types
    <3>2. CASE ag.i + 1 = num_updaters
      <4>1. ag' = [at |-> "reset", i |-> 0]
        BY <2>2, <3>2
      <4> QED
        BY <3>1, <4>1
    <3>3. CASE ag.i + 1 # num_updaters
      <4>1. ag.i + 1 \in Thread
        BY <3>1, <3>3, Sizes
      <4>2. ag' = [ag EXCEPT !.i = ag.i + 1] /\ ag.at = "wait"
        BY <2>2, <3>3
      <4> QED
        BY <3>1, <4>1, <4>2
    <3> QED
      BY <3>2, <3>3
  <2>3. CASE aggregate_post
    <3>1. /\ ag \in [at : {"timer", "wait", "reset", "sum", "slabs", "post", "max"}, i : Thread]
          /\ ag.i \in 0..num_workers /\ 0 \in Thread
      BY Sizes DEF IInv, Types
    <3>2. CASE ag.i + 1 = num_updaters
      <4>1. ag' = [at |-> "max", i |-> 0]
        BY <2>3, <3>2
      <4> QED
        BY <3>1, <4>1
    <3>3. CASE ag.i + 1 # num_updaters
      <4>1. ag.i + 1 \in Thread
        BY <3>1, <3>3, Sizes
      <4>2. ag' = [ag EXCEPT !.i = ag.i + 1] /\ ag.at = "post"
        BY <2>3, <3>3
      <4> QED
        BY <3>1, <4>1, <4>2
    <3> QED
      BY <3>2, <3>3
  <2>4. CASE aggregate_max
    BY <2>4, Sizes DEF IInv, Types
  <2> QED
    BY <2>1, <2>2, <2>3, <2>4
<1>4. tmax' \in Nat
  <2>1. agg.t \in Nat /\ agg.b \in Nat /\ tmax \in Nat
    BY DEF IInv, Types, Metrics
  <2> QED
    BY <2>1
<1>5. sem' \in Nat
  BY DEF IInv, Types
<1>6. Types'
  BY <1>1, <1>3, <1>4, <1>5 DEF IInv, Types
<1>7. Counts'
  <2>1. Readers' = Readers
    BY <1>1 DEF Readers
  <2>2. Cardinality(Readers) \in Nat
    BY ReadersFinite
  <2>3. Held \in Int /\ Held' \in Int /\ Held' - Held = sem - sem'
    <3>1. CASE thread_aggregate_stats
      BY <3>1, Sizes DEF IInv, Types, Held
    <3>2. CASE aggregate_wait
      BY <3>2, Sizes DEF IInv, Types, Held
    <3>3. CASE aggregate_post
      <4>1. ag.i \in Nat /\ num_updaters \in Nat /\ sem \in Nat
        BY Sizes DEF IInv, Types
      <4>2. ag.at = "post" /\ sem' = sem + 1 /\ Held = num_updaters - ag.i
        BY <3>3 DEF Held
      <4>3. CASE ag.i + 1 = num_updaters
        <5>1. Held' = 0
          BY <3>3, <4>3 DEF Held
        <5> QED
          BY <4>1, <4>2, <4>3, <5>1
      <4>4. CASE ag.i + 1 # num_updaters
        <5>1. ag'.at = "post" /\ ag'.i = ag.i + 1
          BY <3>3, <4>4 DEF IInv, Types
        <5>2. Held' = num_updaters - (ag.i + 1)
          BY <5>1 DEF Held
        <5> QED
          BY <4>1, <4>2, <5>2
      <4> QED
        BY <4>3, <4>4
    <3>4. CASE aggregate_max
      BY <3>4, Sizes DEF IInv, Types, Held
    <3> QED
      BY <3>1, <3>2, <3>3, <3>4
  <2>4. sem = num_updaters - Cardinality(Readers) - Held
    BY DEF IInv, Counts
  <2>5. sem \in Nat /\ num_updaters \in Nat
    BY Sizes DEF IInv, Types
  <2>6. sem' = num_updaters - Cardinality(Readers) - Held'
    BY <1>5, <2>2, <2>3, <2>4, <2>5
  <2> QED
    BY <2>1, <2>6 DEF Counts
<1>8. Locals'
  BY <1>1, Kept
<1>9. Sums'
  <2>1. Total' = Total
    BY <1>1, TotalIs
  <2> QED
    BY <1>1, <1>2, <2>1 DEF IInv, Sums
<1>10. Replies' /\ \A u \in Worker : Printed(u)'
  BY <1>1, <1>2 DEF IInv, Replies, Printed
<1> QED
  BY <1>6, <1>7, <1>8, <1>9, <1>10 DEF IInv

\* The sums are cleared.
LEMMA ResetStep ==
    ASSUME IInv, stats_reset
    PROVE  IInv'
<1>1. /\ UNCHANGED <<local, tmax, sem, enabled, wk, reported>>
      /\ agg' = Zero /\ lo' = Total /\ ag.at = "reset" /\ ag'.at = "sum" /\ ag'.i = 0 /\ ag.i = 0
      /\ ag' \in [at : {"timer", "wait", "reset", "sum", "slabs", "post", "max"}, i : Thread]
  BY Sizes DEF stats_reset, IInv, Types
<1>2. local \in [Thread -> Metrics]
  BY DEF IInv, Types
<1>3. Total \in Metrics
  BY <1>2, TotalIs, TotalFacts
<1>4. Types'
  BY <1>1, <1>3, ZeroFacts DEF IInv, Types
<1>5. Counts'
  BY <1>1 DEF IInv, Counts, Readers, Held
<1>6. Locals'
  BY <1>1, Kept
<1>7. Sums'
  <2>1. Hits(agg', SLABCLASS_MAX_ID) <= agg'.get_key
    BY <1>1, ZeroFacts DEF Zero
  <2>2. /\ Between(lo'.get_key, agg'.get_key, KeyCol(local'), ag'.i)
        /\ Between(lo'.t, agg'.t, TCol(local'), ag'.i)
        /\ Between(lo'.b, agg'.b, BCol(local'), ag'.i)
    <3>1. /\ KeyCol(local) \in [1..num_updaters -> Nat] /\ TCol(local) \in [1..num_updaters -> Nat]
          /\ BCol(local) \in [1..num_updaters -> Nat]
      BY <1>2, ColTypes
    <3>2. /\ Total.get_key = Sum(KeyCol(local), num_updaters)
          /\ Total.t = Sum(TCol(local), num_updaters)
          /\ Total.b = Sum(BCol(local), num_updaters)
      BY <1>2, TotalFacts, TotalIs
    <3> QED
      BY <1>1, <3>1, <3>2, BetweenStart DEF Zero
  <2>3. ASSUME NEW cid \in ClassId
        PROVE  Between(lo'.hit[cid], agg'.hit[cid], HitCol(local', cid), ag'.i)
    <3>1. HitCol(local, cid) \in [1..num_updaters -> Nat]
      BY <1>2, ColTypes
    <3>2. Total.hit[cid] = Sum(HitCol(local, cid), num_updaters)
      BY <1>2, TotalFacts, TotalIs
    <3>3. agg'.hit[cid] = 0
      BY <1>1 DEF Zero
    <3> QED
      BY <1>1, <3>1, <3>2, <3>3, BetweenStart
  <2> QED
    BY <1>1, <2>1, <2>2, <2>3 DEF Sums
<1>8. Replies'
  <2>1. /\ reported.get_key <= agg.get_key /\ reported.hit <= agg.hit[Summary]
        /\ AtMost(agg, Total) /\ agg.hit[Summary] = Hits(agg, SLABCLASS_MAX_ID - 1)
        /\ agg \in Metrics
    BY <1>1 DEF IInv, Types, Replies, Sums
  <2>2. agg.get_key <= Total.get_key /\ Hits(agg, SLABCLASS_MAX_ID - 1) <= Hits(Total, SLABCLASS_MAX_ID - 1)
    BY <1>3, <2>1, HitsMonotone DEF AtMost
  <2>3. /\ agg.get_key \in Nat /\ Total.get_key \in Nat
        /\ reported.get_key \in Nat /\ reported.hit \in Nat
    BY <1>3, <2>1 DEF Metrics, IInv, Types
  <2>4. Hits(agg, SLABCLASS_MAX_ID - 1) \in Nat /\ Hits(Total, SLABCLASS_MAX_ID - 1) \in Nat
    BY <1>3, <2>1, HitsFacts
  <2>5. reported.get_key <= Total.get_key /\ reported.hit <= Hits(Total, SLABCLASS_MAX_ID - 1)
    BY <2>1, <2>2, <2>3, <2>4
  <2> QED
    BY <1>1, <2>5 DEF IInv, Replies
<1>9. \A u \in Worker : Printed(u)'
  <2>1. \A u \in Worker : wk[u].at \notin Reading
    BY <1>1, Exclusion DEF IInv
  <2> QED
    BY <1>1, <2>1 DEF Printed, Reading
<1> QED
  BY <1>4, <1>5, <1>6, <1>7, <1>8, <1>9 DEF IInv

\* A thread is added.
LEMMA AddStep ==
    ASSUME IInv, aggregate_thread
    PROVE  IInv'
<1>1. /\ UNCHANGED <<local, tmax, sem, enabled, wk, lo, reported>>
      /\ agg' = stats_metric_update(agg, local[ag.i]) /\ ag.at = "sum"
      /\ ag.i \in Thread /\ ag'.at \in {"sum", "slabs"}
      /\ ag'.at = "sum" => ag'.i = ag.i + 1
      /\ ag'.at = "slabs" => ag.i + 1 = num_updaters
      /\ ag' \in [at : {"timer", "wait", "reset", "sum", "slabs", "post", "max"}, i : Thread]
      /\ ag'.at = "slabs" => ag'.i = 0
  BY Sizes DEF aggregate_thread, IInv, Types
<1>2. /\ local \in [Thread -> Metrics] /\ local[ag.i] \in Metrics
      /\ agg \in Metrics /\ lo \in Metrics
  BY <1>1 DEF IInv, Types
<1>3. /\ agg' \in Metrics
      /\ agg'.get_key = agg.get_key + local[ag.i].get_key
      /\ agg'.t = agg.t + local[ag.i].t /\ agg'.b = agg.b + local[ag.i].b
      /\ \A cid \in ClassId : agg'.hit[cid] = agg.hit[cid] + local[ag.i].hit[cid]
      /\ Hits(agg', SLABCLASS_MAX_ID) = Hits(agg, SLABCLASS_MAX_ID) + Hits(local[ag.i], SLABCLASS_MAX_ID)
  BY <1>1, <1>2, UpdateFacts
<1>4. Types'
  BY <1>1, <1>3 DEF IInv, Types
<1>5. Counts'
  BY <1>1 DEF IInv, Counts, Readers, Held
<1>6. Locals'
  BY <1>1, Kept
<1>7. ag.i \in 0..(num_updaters - 1) /\ ag.i + 1 \in 1..num_updaters /\ (ag.i + 1) - 1 = ag.i
  BY <1>1, Sizes
<1>8. /\ lo.get_key \in Nat /\ agg.get_key \in Nat /\ lo.t \in Nat /\ agg.t \in Nat
      /\ lo.b \in Nat /\ agg.b \in Nat
      /\ \A cid \in ClassId : lo.hit[cid] \in Nat /\ agg.hit[cid] \in Nat
  BY <1>2 DEF Metrics
<1>9. /\ Between(lo.get_key, agg'.get_key, KeyCol(local), ag.i + 1)
      /\ Between(lo.t, agg'.t, TCol(local), ag.i + 1)
      /\ Between(lo.b, agg'.b, BCol(local), ag.i + 1)
  <2>1. /\ KeyCol(local) \in [1..num_updaters -> Nat] /\ TCol(local) \in [1..num_updaters -> Nat]
        /\ BCol(local) \in [1..num_updaters -> Nat]
    BY <1>2, ColTypes
  <2>2. /\ KeyCol(local)[ag.i + 1] = local[ag.i].get_key
        /\ TCol(local)[ag.i + 1] = local[ag.i].t /\ BCol(local)[ag.i + 1] = local[ag.i].b
    BY <1>7 DEF KeyCol, TCol, BCol
  <2>3. /\ Between(lo.get_key, agg.get_key, KeyCol(local), ag.i)
        /\ Between(lo.t, agg.t, TCol(local), ag.i)
        /\ Between(lo.b, agg.b, BCol(local), ag.i)
    BY <1>1 DEF IInv, Sums
  <2>4. Between(lo.get_key, agg.get_key + KeyCol(local)[ag.i + 1], KeyCol(local), ag.i + 1)
    BY <1>7, <1>8, <2>1, <2>3, BetweenStep
  <2>5. Between(lo.t, agg.t + TCol(local)[ag.i + 1], TCol(local), ag.i + 1)
    BY <1>7, <1>8, <2>1, <2>3, BetweenStep
  <2>6. Between(lo.b, agg.b + BCol(local)[ag.i + 1], BCol(local), ag.i + 1)
    BY <1>7, <1>8, <2>1, <2>3, BetweenStep
  <2> QED
    BY <1>3, <2>2, <2>4, <2>5, <2>6
<1>10. ASSUME NEW cid \in ClassId
       PROVE  Between(lo.hit[cid], agg'.hit[cid], HitCol(local, cid), ag.i + 1)
  <2>1. HitCol(local, cid) \in [1..num_updaters -> Nat]
    BY <1>2, ColTypes
  <2>2. HitCol(local, cid)[ag.i + 1] = local[ag.i].hit[cid]
    BY <1>7 DEF HitCol
  <2>3. Between(lo.hit[cid], agg.hit[cid], HitCol(local, cid), ag.i)
    BY <1>1 DEF IInv, Sums
  <2>4. Between(lo.hit[cid], agg.hit[cid] + HitCol(local, cid)[ag.i + 1], HitCol(local, cid), ag.i + 1)
    BY <1>7, <1>8, <2>1, <2>3, BetweenStep
  <2> QED
    BY <1>3, <2>2, <2>4
<1>11. Hits(agg', SLABCLASS_MAX_ID) <= agg'.get_key
  <2>1. Hits(local[ag.i], SLABCLASS_MAX_ID) + Pending(ag.i) <= local[ag.i].get_key
        /\ Pending(ag.i) \in {0, 1}
    BY <1>1 DEF IInv, Locals, Pending
  <2>2. /\ Hits(agg, SLABCLASS_MAX_ID) \in Nat /\ Hits(local[ag.i], SLABCLASS_MAX_ID) \in Nat
        /\ local[ag.i].get_key \in Nat
    BY <1>2, HitsFacts DEF Metrics
  <2>3. Hits(agg, SLABCLASS_MAX_ID) <= agg.get_key
    BY DEF IInv, Sums
  <2> QED
    BY <1>3, <1>8, <2>1, <2>2, <2>3
<1>12. CASE ag'.at = "sum"
  <2>1. Sums'
    BY <1>1, <1>9, <1>10, <1>11, <1>12 DEF Sums
  <2>2. Replies'
    BY <1>1, <1>12 DEF IInv, Replies
  <2>3. \A u \in Worker : Printed(u)'
    <3>1. \A u \in Worker : wk[u].at \notin Reading
      BY <1>1, Exclusion DEF IInv
    <3> QED
      BY <1>1, <3>1 DEF Printed, Reading
  <2> QED
    BY <1>4, <1>5, <1>6, <2>1, <2>2, <2>3 DEF IInv
<1>13. CASE ag'.at = "slabs"
  <2>1. ag.i + 1 = num_updaters /\ ag.i = num_workers
    BY <1>1, <1>13, Sizes
  <2>2. /\ agg'.get_key \in Nat /\ agg'.t \in Nat /\ agg'.b \in Nat
        /\ \A cid \in ClassId : agg'.hit[cid] \in Nat
    BY <1>3 DEF Metrics
  <2>3. /\ KeyCol(local) \in [1..num_updaters -> Nat] /\ TCol(local) \in [1..num_updaters -> Nat]
        /\ BCol(local) \in [1..num_updaters -> Nat]
    BY <1>2, ColTypes
  <2>4. /\ lo.get_key <= agg'.get_key /\ agg'.get_key <= Sum(KeyCol(local), num_updaters)
        /\ lo.t <= agg'.t /\ agg'.t <= Sum(TCol(local), num_updaters)
        /\ lo.b <= agg'.b /\ agg'.b <= Sum(BCol(local), num_updaters)
    BY <1>8, <1>9, <2>1, <2>2, <2>3, BetweenEnd
  <2>5. ASSUME NEW cid \in ClassId
        PROVE  lo.hit[cid] <= agg'.hit[cid] /\ agg'.hit[cid] <= Sum(HitCol(local, cid), num_updaters)
    <3>1. HitCol(local, cid) \in [1..num_updaters -> Nat]
      BY <1>2, ColTypes
    <3> QED
      BY <1>8, <1>10, <2>1, <2>2, <3>1, BetweenEnd
  <2>6. /\ Total.get_key = Sum(KeyCol(local), num_updaters)
        /\ Total.t = Sum(TCol(local), num_updaters)
        /\ Total.b = Sum(BCol(local), num_updaters)
        /\ \A cid \in ClassId : Total.hit[cid] = Sum(HitCol(local, cid), num_updaters)
        /\ Total' = Total /\ Total \in Metrics
    BY <1>1, <1>2, TotalFacts, TotalIs
  <2>7. AtMost(lo, agg') /\ AtMost(agg', Total)
    BY <2>4, <2>5, <2>6 DEF AtMost
  <2>8. agg'.b <= agg'.t
    <3>1. Sum(TCol(local), num_workers) = 0
      <4>1. num_workers \in 0..num_updaters /\ num_updaters \in Nat
        BY Sizes
      <4>2. \A i \in 1..num_workers : i - 1 \in Worker /\ i \in 1..num_updaters
        BY Sizes
      <4>3. \A i \in 1..num_workers : TCol(local)[i] = 0
        BY <4>2 DEF TCol, IInv, Locals
      <4> QED
        BY <2>3, <4>1, <4>3, SumZeroes
    <3>2. Sum(TCol(local), num_workers + 1) = Sum(TCol(local), num_workers) + TCol(local)[num_workers + 1]
      <4>1. num_workers \in 0..(num_updaters - 1) /\ num_updaters \in Nat
        BY Sizes
      <4> QED
        BY <2>3, <4>1, SumFacts
    <3>3. TCol(local)[num_workers + 1] = local[ag.i].t
      BY <1>7, <2>1 DEF TCol
    <3>4. Total.t = local[ag.i].t
      <4>1. local[ag.i].t \in Nat
        BY <1>2 DEF Metrics
      <4> QED
        BY <2>6, <3>1, <3>2, <3>3, <4>1, Sizes
    <3>5. Total.t <= agg'.t
      <4>1. local[ag.i].t \in Nat
        BY <1>2 DEF Metrics
      <4> QED
        BY <1>3, <1>8, <3>4, <4>1
    <3>6. agg'.b <= Total.b /\ Total.b <= Total.t
      BY <2>4, <2>6 DEF IInv, Locals
    <3> QED
      BY <2>2, <2>6, <3>5, <3>6 DEF Metrics
  <2>9. Sums'
    BY <1>1, <1>11, <1>13, <2>6, <2>7, <2>8 DEF Sums
  <2>10. Replies'
    BY <1>1, <1>13 DEF IInv, Replies
  <2>11. \A u \in Worker : Printed(u)'
    <3>1. \A u \in Worker : wk[u].at \notin Reading
      BY <1>1, Exclusion DEF IInv
    <3> QED
      BY <1>1, <3>1 DEF Printed, Reading
  <2> QED
    BY <1>4, <1>5, <1>6, <2>9, <2>10, <2>11 DEF IInv
<1> QED
  BY <1>1, <1>12, <1>13

\* The classes are summed up.
LEMMA SlabsStep ==
    ASSUME IInv, aggregate_slabs
    PROVE  /\ IInv'
           /\ AtMost(lo, agg') /\ AtMost(agg', Total)
           /\ stats_metric_val(agg') = agg'.t - agg'.b
<1>1. /\ UNCHANGED <<local, tmax, sem, enabled, wk, reported>>
      /\ agg' = [agg EXCEPT !.hit[Summary] = Hits(agg, SLABCLASS_MAX_ID - 1)]
      /\ lo' = Zero /\ ag.at = "slabs" /\ ag'.at = "post" /\ ag.i = 0 /\ ag'.i = 0
      /\ ag' \in [at : {"timer", "wait", "reset", "sum", "slabs", "post", "max"}, i : Thread]
  BY Sizes DEF aggregate_slabs, IInv, Types
<1>2. /\ local \in [Thread -> Metrics] /\ agg \in Metrics /\ lo \in Metrics
      /\ Hits(agg, SLABCLASS_MAX_ID - 1) \in Nat
  BY HitsFacts DEF IInv, Types
<1>3. \A cid \in ClassId : cid # Summary
  BY Sizes DEF Summary
<1>4. /\ agg' \in Metrics
      /\ agg'.get_key = agg.get_key /\ agg'.t = agg.t /\ agg'.b = agg.b
      /\ \A cid \in ClassId : agg'.hit[cid] = agg.hit[cid]
      /\ agg'.hit[Summary] = Hits(agg, SLABCLASS_MAX_ID - 1)
  <2>1. PICK k \in Nat, t \in Nat, b \in Nat, h \in [ClassId \cup {Summary} -> Nat] :
           agg = [get_key |-> k, t |-> t, b |-> b, hit |-> h]
    BY <1>2 DEF Metrics
  <2> DEFINE h2 == [h EXCEPT ![Summary] = Hits(agg, SLABCLASS_MAX_ID - 1)]
  <2>2. agg' = [get_key |-> k, t |-> t, b |-> b, hit |-> h2]
    BY <1>1, <2>1
  <2>3. /\ h2 \in [ClassId \cup {Summary} -> Nat]
        /\ h2[Summary] = Hits(agg, SLABCLASS_MAX_ID - 1)
        /\ \A cid \in ClassId : h2[cid] = h[cid]
    BY <1>2, <1>3
  <2> HIDE DEF h2
  <2> QED
    BY <2>1, <2>2, <2>3 DEF Metrics
<1>5. \A n : Hits(agg', n) = Hits(agg, n)
  BY <1>4, HitsSame
<1>6. Types'
  BY <1>1, <1>4, ZeroFacts DEF IInv, Types
<1>7. Counts'
  BY <1>1, Sizes DEF IInv, Counts, Readers, Held
<1>8. Locals'
  BY <1>1, Kept
<1>9. AtMost(lo, agg) /\ agg.b <= agg.t /\ AtMost(agg, Total) /\ Total' = Total
  BY <1>1, TotalIs DEF IInv, Sums
<1>10. AtMost(lo, agg') /\ AtMost(agg', Total)
  BY <1>4, <1>9 DEF AtMost
<1>11. stats_metric_val(agg') = agg'.t - agg'.b
  BY <1>2, <1>4, <1>9 DEF stats_metric_val, Metrics
<1>12. agg'.hit[Summary] = Hits(agg', SLABCLASS_MAX_ID - 1)
  BY <1>4, <1>5
<1>13. Sums'
  <2>1. Hits(agg', SLABCLASS_MAX_ID) <= agg'.get_key
    BY <1>4, <1>5 DEF IInv, Sums
  <2> QED
    BY <1>1, <1>9, <1>10, <1>12, <2>1 DEF Sums
<1>14. Replies'
  <2>1. reported.get_key <= lo.get_key /\ reported.hit <= Hits(lo, SLABCLASS_MAX_ID - 1)
    BY <1>1 DEF IInv, Replies
  <2>2. lo.get_key <= agg.get_key /\ Hits(lo, SLABCLASS_MAX_ID - 1) <= Hits(agg, SLABCLASS_MAX_ID - 1)
    BY <1>2, <1>9, HitsMonotone DEF AtMost
  <2>3. /\ reported.get_key \in Nat /\ reported.hit \in Nat
        /\ lo.get_key \in Nat /\ agg.get_key \in Nat
        /\ Hits(lo, SLABCLASS_MAX_ID - 1) \in Nat
    BY <1>2, HitsFacts DEF Metrics, IInv, Types
  <2>4. reported.get_key <= agg.get_key /\ reported.hit <= Hits(agg, SLABCLASS_MAX_ID - 1)
    BY <1>2, <2>1, <2>2, <2>3
  <2> QED
    BY <1>1, <1>4, <2>4 DEF IInv, Replies
<1>15. \A u \in Worker : Printed(u)'
  <2>1. \A u \in Worker : wk[u].at \notin Reading
    BY <1>1, Exclusion DEF IInv
  <2> QED
    BY <1>1, <2>1 DEF Printed, Reading
<1> QED
  BY <1>6, <1>7, <1>8, <1>10, <1>11, <1>12, <1>13, <1>14, <1>15 DEF IInv

-----------------------------------------------------------------------------
(***************************************************************************)
(* The theorems.                                                           *)
(***************************************************************************)

\* Nothing is counted at first.
LEMMA InitIInv ==
    ASSUME Init
    PROVE  IInv
<1>1. Types
  BY ZeroFacts, Sizes DEF Init, Types, Idle, Reading
<1>2. \A w \in Worker : wk[w] = Idle
  BY DEF Init
<1>3. Counts
  <2>1. Readers = {}
    BY <1>2 DEF Readers, Reading, Idle
  <2>2. Cardinality(Readers) = 0
    BY <2>1, FS_EmptySet
  <2> QED
    BY <2>2, Sizes DEF Init, Counts, Held
<1>4. local \in [Thread -> Metrics] /\ \A i \in Thread : local[i] = Zero
  BY <1>1 DEF Init, Types
<1>5. Total \in Metrics
  BY <1>4, TotalIs, TotalFacts
<1>6. Total.b = 0
  <2>1. \A i \in 1..num_updaters : i - 1 \in Thread
    BY Sizes
  <2>2. \A i \in 1..num_updaters : BCol(local)[i] = 0
    BY <1>4, <2>1 DEF BCol, Zero
  <2>3. BCol(local) \in [1..num_updaters -> Nat] /\ num_updaters \in Nat
        /\ num_updaters \in 0..num_updaters
    BY <1>4, ColTypes, Sizes
  <2>4. Sum(BCol(local), num_updaters) = 0
    BY <2>2, <2>3, SumZeroes
  <2> QED
    BY <1>4, <2>4, TotalIs, TotalFacts
<1>7. Locals
  <2>1. Total.b <= Total.t
    BY <1>5, <1>6 DEF Metrics
  <2>2. \A i \in Thread : Pending(i) = 0
    BY <1>2 DEF Pending, Idle
  <2>3. \A i \in Thread : Hits(local[i], SLABCLASS_MAX_ID) = 0 /\ local[i].get_key = 0 /\ local[i].t = 0
    BY <1>4, ZeroFacts DEF Zero
  <2>4. \A i \in Thread : Hits(local[i], SLABCLASS_MAX_ID) + Pending(i) <= local[i].get_key
    BY <2>2, <2>3
  <2> QED
    BY <2>1, <2>3, <2>4, Sizes DEF Locals
<1>8. Sums
  <2>1. agg = Zero /\ ag.at = "timer"
    BY DEF Init
  <2>2. AtMost(Zero, Total)
    BY <1>5 DEF AtMost, Zero, Metrics
  <2>3. Zero.hit[Summary] = 0 /\ Zero.get_key = 0
    BY DEF Zero
  <2>4. Hits(Zero, SLABCLASS_MAX_ID) <= Zero.get_key /\ Zero.hit[Summary] = Hits(Zero, SLABCLASS_MAX_ID - 1)
    BY <2>3, ZeroFacts
  <2> QED
    BY <2>1, <2>2, <2>4 DEF Sums
<1>9. Replies /\ \A w \in Worker : Printed(w)
  BY <1>2 DEF Init, Replies, Printed, Idle, Zero
<1> QED
  BY <1>1, <1>3, <1>7, <1>8, <1>9 DEF IInv

\* Nothing changes when no step is taken.
LEMMA StutterIInv ==
    ASSUME IInv, UNCHANGED vars
    PROVE  IInv'
<1>1. UNCHANGED <<local, agg, tmax, sem, enabled, ag, wk, lo, reported>>
  BY DEF vars
<1>2. Types' /\ Counts' /\ Replies' /\ \A u \in Worker : Printed(u)'
  BY <1>1 DEF IInv, Types, Counts, Held, Readers, Replies, Printed
<1>3. Locals' /\ Sums'
  BY <1>1, Kept
<1> QED
  BY <1>2, <1>3 DEF IInv

\* Every step keeps the invariant.
LEMMA NextIInv ==
    ASSUME IInv, [Next]_vars
    PROVE  IInv'
<1>1. CASE UNCHANGED vars
  BY <1>1, StutterIInv
<1>2. CASE thread_aggregate_stats \/ aggregate_wait \/ aggregate_post \/ aggregate_max
  BY <1>2, AroundSteps
<1>3. CASE stats_reset
  BY <1>3, ResetStep
<1>4. CASE aggregate_thread
  BY <1>4, AddStep
<1>5. CASE aggregate_slabs
  BY <1>5, SlabsStep
<1>6. CASE conn_get
  BY <1>6, ConnGetStep
<1>7. ASSUME NEW w \in Worker, asc_process_read(w)
      PROVE  IInv'
  BY <1>7, ReadStep
<1>8. ASSUME NEW w \in Worker, NEW cid \in ClassId, read_hit(w, cid)
      PROVE  IInv'
  BY <1>8, HitStep
<1>9. ASSUME NEW w \in Worker, conn_close(w)
      PROVE  IInv'
  BY <1>9, ConnCloseStep
<1>10. ASSUME NEW w \in Worker,
              \/ read_miss(w) \/ asc_process_klog_interval(w)
              \/ \E on \in BOOLEAN : asc_process_aggregate(w, on)
              \/ \E cmd \in {"stats", "slabs"} : asc_process_stats(w, cmd)
       PROVE  IInv'
  BY <1>10, IdleSteps
<1>11. ASSUME NEW w \in Worker, Reply(w)
       PROVE  IInv'
  BY <1>11, WaitStep, PrintSteps, PostStep DEF Reply
<1> QED
  BY <1>1, <1>2, <1>3, <1>4, <1>5, <1>6, <1>7, <1>8, <1>9, <1>10, <1>11 DEF Next, Aggregate

\* The invariant holds always.
LEMMA Invariance == Spec => []IInv
<1>1. Init => IInv
  BY InitIInv
<1>2. IInv /\ [Next]_vars => IInv'
  BY NextIInv
<1> QED
  BY <1>1, <1>2, PTL DEF Spec

\* Whatever the number of threads and of classes: the counts of the semaphore
\* are neither lost nor multiplied, and no reply to "stats" shows more hits than
\* keys looked up, although threads count while they are added up and workers
\* print while others wait for the semaphore.
THEOREM RepliesAreConsistent == Spec => []HitsWithinKeys
<1>1. IInv => HitsWithinKeys
  BY DEF IInv, Types, Counts, Held, Readers, Replies, HitsWithinKeys, TypeOK
<1> QED
  BY <1>1, Invariance, PTL

\* An aggregation ends with sums between what was true when it began and what
\* is true when it ends, and with a number of connections that is not negative.
THEOREM SumsAreInBetween == Spec => SumsInBetween
<1>1. IInv /\ [Next]_vars =>
        [~Printable /\ Printable' =>
            /\ AtMost(lo, agg') /\ AtMost(agg', Total)
            /\ stats_metric_val(agg') = agg'.t - agg'.b]_vars
  <2> SUFFICES ASSUME IInv, [Next]_vars, ~Printable, Printable'
               PROVE  aggregate_slabs
    BY SlabsStep
  <2>1. ag' # ag
    BY DEF Printable
  <2>2. ag.at \in {"reset", "sum", "slabs"}
    BY DEF IInv, Types, Printable
  <2>3. ~stats_reset /\ ~aggregate_thread
    BY <2>2 DEF stats_reset, aggregate_thread, Printable, IInv, Types
  <2>4. ~thread_aggregate_stats /\ ~aggregate_wait /\ ~aggregate_post /\ ~aggregate_max
    BY <2>2 DEF thread_aggregate_stats, aggregate_wait, aggregate_post, aggregate_max
  <2>5. ~conn_get /\ ~UNCHANGED vars
    BY <2>1 DEF conn_get, vars
  <2>6. ASSUME NEW w \in Worker
        PROVE  /\ ~asc_process_read(w) /\ ~read_miss(w) /\ ~conn_close(w) /\ ~Reply(w)
               /\ \A cid \in ClassId : ~read_hit(w, cid)
               /\ \A on \in BOOLEAN : ~asc_process_aggregate(w, on)
               /\ ~asc_process_klog_interval(w)
               /\ \A cmd \in {"stats", "slabs"} : ~asc_process_stats(w, cmd)
    BY <2>1 DEF asc_process_read, read_miss, conn_close, Reply, read_hit, asc_process_aggregate,
                asc_process_klog_interval, asc_process_stats, stats_wait, stats_default_thread,
                stats_default_slab, stats_slabs, stats_post
  <2> QED
    BY <2>3, <2>4, <2>5, <2>6 DEF Next, Aggregate
<1> QED
  BY <1>1, Invariance, PTL DEF Spec, SumsInBetween

\* Whichever workers reply, one counter after the other is seen to increase only.
THEOREM CountersOnlyIncrease == Spec => CountersIncrease
<1>1. IInv /\ [Next]_vars =>
        [reported'.get_key >= reported.get_key /\ reported'.hit >= reported.hit]_vars
  <2> SUFFICES ASSUME IInv, [Next]_vars
               PROVE  reported'.get_key >= reported.get_key /\ reported'.hit >= reported.hit
    OBVIOUS
  <2>1. reported \in [get_key : Nat, hit : Nat]
    BY DEF IInv, Types
  <2>2. CASE reported' = reported
    BY <2>1, <2>2
  <2>3. ASSUME NEW w \in Worker, stats_post(w)
        PROVE  reported'.get_key >= reported.get_key /\ reported'.hit >= reported.hit
    BY <2>3, PostStep
  <2>4. (\E w \in Worker : stats_post(w)) \/ reported' = reported
    <3>1. CASE UNCHANGED vars
      BY <3>1 DEF vars
    <3>2. CASE thread_aggregate_stats \/ Aggregate \/ conn_get
      BY <3>2 DEF thread_aggregate_stats, Aggregate, conn_get, aggregate_wait, stats_reset,
                  aggregate_thread, aggregate_slabs, aggregate_post, aggregate_max
    <3>3. ASSUME NEW w \in Worker, ~stats_post(w),
                 \/ asc_process_read(w) \/ read_miss(w) \/ conn_close(w) \/ Reply(w)
                 \/ \E cid \in ClassId : read_hit(w, cid)
                 \/ \E on \in BOOLEAN : asc_process_aggregate(w, on)
                 \/ asc_process_klog_interval(w)
                 \/ \E cmd \in {"stats", "slabs"} : asc_process_stats(w, cmd)
          PROVE  reported' = reported
      BY <3>3 DEF asc_process_read, read_miss, conn_close, Reply, read_hit, asc_process_aggregate,
                  asc_process_klog_interval, asc_process_stats, stats_wait, stats_default_thread,
                  stats_default_slab, stats_slabs
    <3> QED
      BY <3>1, <3>2, <3>3 DEF Next
  <2> QED
    BY <2>2, <2>3, <2>4
<1> QED
  BY <1>1, Invariance, PTL DEF Spec, CountersIncrease
=============================================================================
