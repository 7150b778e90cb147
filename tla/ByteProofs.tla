----------------------------- MODULE ByteProofs -----------------------------
(***************************************************************************)
(* Proofs about the two components whose bytes matter.                     *)
(*                                                                         *)
(* Klog, for every size of buffer, entry and file: with no lock between    *)
(* them, the worker never overwrites a byte that is not read, and the      *)
(* klogger never passes a byte that is not in the file, whichever writes   *)
(* fail or are short.                                                      *)
(*                                                                         *)
(* ItemData, for all values, numbers, classes and readers: what is stored, *)
(* changed in place or copied, and sent at the same time, is byte for byte *)
(* what it is to be.  The functions it is built from (slab_id,             *)
(* mc_strtoull_len, snprintf, mc_generate_profile) are recursive: a lemma  *)
(* on recursion that descends says that they are defined, and induction    *)
(* over a set, as no prover takes an operator, what they compute.          *)
(***************************************************************************)
EXTENDS Klog, ItemData, SequenceTheorems, WellFoundedInduction, NaturalsInduction, TLAPS

-----------------------------------------------------------------------------
(***************************************************************************)
(* The command log.                                                        *)
(***************************************************************************)

\* Bytes logged and not read.
Unread == logged - read

\* Bytes of the ring from r_idx on that have their final contents: those
\* logged, and those of an entry composed and not published.
Written == Unread + (IF worker.at = "publish" THEN worker.len ELSE 0)

\* Bytes from r_idx to the copy of w_idx the klogger works with.
Seen == (klogger.w_idx - kbuf.r_idx) % size

InFile(n) == \E i \in DOMAIN file : file[i] = n

\* The ring: the unread bytes leave one free, and they are in place.
RingInv ==
    /\ Unread \in 0..(size - 1)
    /\ kbuf.w_idx = CIRCULAR_INCR(kbuf.r_idx, Unread)
    /\ \A i \in 0..(Written - 1) : kbuf.buf[CIRCULAR_INCR(kbuf.r_idx, i)] = read + i + 1

\* The worker has seen room for its entry; r_idx has only moved on since.
WorkerInv ==
    worker.at # "idle" =>
        /\ Unread + worker.len < size
        /\ logged + worker.len <= MaxByte

\* The klogger's copy of w_idx may be old, but it is not behind r_idx; what
\* it has written is in the file.
KloggerInv ==
    klogger.at # "idle" =>
        /\ Seen <= Unread
        /\ klogger.ret <= Seen
        /\ klogger.at = "first" => klogger.ret = 0
        /\ klogger.at = "second" => Wraps /\ klogger.ret = size - kbuf.r_idx
        /\ \A n \in (read + 1)..(read + klogger.ret) : InFile(n)

Inv == TypeOK /\ RingInv /\ WorkerInv /\ KloggerInv /\ FileComplete
-----------------------------------------------------------------------------
\* The buffer has room for at least one entry of the largest length.
LEMMA SizeFacts ==
    /\ KLOG_ENTRY_SIZE \in Nat /\ KLOG_ENTRY_SIZE > 0
    /\ size \in Nat /\ size >= KLOG_ENTRY_SIZE /\ size > 0
<1>1. ASSUME NEW a \in Nat \ {0}, NEW b \in Nat \ {0}
      PROVE  a * b \in Nat /\ a * b >= a
  OBVIOUS
<1> QED
  BY <1>1, KlogAssumption DEF size

\* CIRCULAR_INCR of an index by less than the size of the buffer wraps around
\* at most once, and the distance between two indices undoes it.
LEMMA CircularFacts ==
    /\ \A i \in Index, d \in 0..size :
           /\ CIRCULAR_INCR(i, d) \in Index
           /\ CIRCULAR_INCR(i, d) = IF i + d < size THEN i + d ELSE i + d - size
    /\ \A i, j \in Index : (j - i) % size = IF i <= j THEN j - i ELSE j - i + size
<1>1. size \in Nat /\ size > 0
  BY SizeFacts
<1>2. ASSUME NEW n \in Nat, n > 0
      PROVE  /\ \A a \in Int : 0 <= a /\ a < n => a % n = a
             /\ \A a \in Int : n <= a /\ a < 2 * n => a % n = a - n
             /\ \A a \in Int : -n <= a /\ a < 0 => a % n = a + n
  <2>1. ASSUME NEW a \in Int, 0 <= a, a < n PROVE a % n = a
    BY <1>2, <2>1
  <2>2. ASSUME NEW a \in Int, n <= a, a < 2 * n PROVE a % n = a - n
    BY <1>2, <2>2
  <2>3. ASSUME NEW a \in Int, -n <= a, a < 0 PROVE a % n = a + n
    BY <1>2, <2>3
  <2> QED
    BY <2>1, <2>2, <2>3
<1>3. ASSUME NEW i \in Index, NEW d \in 0..size
      PROVE  /\ CIRCULAR_INCR(i, d) \in Index
             /\ CIRCULAR_INCR(i, d) = IF i + d < size THEN i + d ELSE i + d - size
  <2>1. i \in Int /\ d \in Int /\ 0 <= i + d /\ i + d < 2 * size
    BY <1>1 DEF Index
  <2>2. CASE i + d < size
    BY <1>1, <1>2, <2>1, <2>2 DEF CIRCULAR_INCR, Index
  <2>3. CASE i + d >= size
    BY <1>1, <1>2, <2>1, <2>3 DEF CIRCULAR_INCR, Index
  <2> QED
    BY <1>1, <2>1, <2>2, <2>3
<1>4. ASSUME NEW i \in Index, NEW j \in Index
      PROVE  (j - i) % size = IF i <= j THEN j - i ELSE j - i + size
  <2>1. i \in Int /\ j \in Int /\ -size <= j - i /\ j - i < size
    BY <1>1 DEF Index
  <2> QED
    BY <1>1, <1>2, <2>1
<1> QED
  BY <1>3, <1>4

\* From r_idx to w_idx it is as far as there are unread bytes.
LEMMA RingDistance ==
    ASSUME TypeOK, RingInv
    PROVE  (kbuf.w_idx - kbuf.r_idx) % size = Unread
<1>1. /\ size \in Nat /\ size > 0 /\ kbuf.r_idx \in Index /\ kbuf.w_idx \in Index
      /\ Unread \in 0..(size - 1)
  BY SizeFacts DEF TypeOK, RingInv
<1>2. /\ kbuf.w_idx = IF kbuf.r_idx + Unread < size THEN kbuf.r_idx + Unread
                      ELSE kbuf.r_idx + Unread - size
      /\ (kbuf.w_idx - kbuf.r_idx) % size =
            IF kbuf.r_idx <= kbuf.w_idx THEN kbuf.w_idx - kbuf.r_idx
            ELSE kbuf.w_idx - kbuf.r_idx + size
  BY <1>1, CircularFacts DEF RingInv
<1> HIDE DEF Unread
<1> QED
  BY <1>1, <1>2 DEF Index

\* klog_remain is one less than the bytes not in use.
LEMMA RemainFacts ==
    ASSUME TypeOK, RingInv
    PROVE  klog_remain = size - 1 - Unread
<1>1. size \in Nat /\ size > 0
  BY SizeFacts
<1>2. kbuf.r_idx \in Index /\ kbuf.w_idx \in Index /\ Unread \in 0..(size - 1)
  BY DEF TypeOK, RingInv
<1>3. kbuf.w_idx = IF kbuf.r_idx + Unread < size THEN kbuf.r_idx + Unread
                   ELSE kbuf.r_idx + Unread - size
  BY <1>1, <1>2, CircularFacts DEF RingInv
<1> HIDE DEF Unread
<1> QED
  BY <1>1, <1>2, <1>3 DEF klog_remain, Index

\* What the klogger sees is the distance from r_idx to its copy of w_idx.
LEMMA SeenFacts ==
    ASSUME TypeOK
    PROVE  /\ Seen \in 0..(size - 1)
           /\ Seen = IF Wraps THEN klogger.w_idx - kbuf.r_idx + size
                     ELSE klogger.w_idx - kbuf.r_idx
<1>1. size \in Nat /\ size > 0 /\ kbuf.r_idx \in Index /\ klogger.w_idx \in Index
  BY SizeFacts DEF TypeOK
<1>2. Seen = IF kbuf.r_idx <= klogger.w_idx THEN klogger.w_idx - kbuf.r_idx
             ELSE klogger.w_idx - kbuf.r_idx + size
  BY <1>1, CircularFacts DEF Seen
<1> QED
  BY <1>1, <1>2 DEF Wraps, Index

-----------------------------------------------------------------------------
\* The log starts empty, with the worker and the klogger at rest.
LEMMA InitInv == Init => Inv
<1> SUFFICES ASSUME Init PROVE Inv
  OBVIOUS
<1>1. size \in Nat /\ size > 0 /\ 0 \in Index /\ CIRCULAR_INCR(0, 0) = 0
  BY SizeFacts, CircularFacts DEF Index
<1>2. KLOG_ENTRY_SIZE \in Nat /\ KLOG_ENTRY_SIZE > 0
  BY SizeFacts
<1>3. TypeOK
  BY <1>1, <1>2, KlogAssumption DEF Init, TypeOK, NUL
<1>4. RingInv
  BY <1>1 DEF Init, RingInv, Unread, Written
<1>5. FileComplete
  BY DEF Init, FileComplete
<1> QED
  BY <1>3, <1>4, <1>5 DEF Inv, Init, WorkerInv, KloggerInv

\* The decision to log: when it is positive, the longest entry fits.
LEMMA WriteStep ==
    ASSUME Inv, klog_write
    PROVE  Inv'
<1>1. klog_remain = size - 1 - Unread /\ Unread \in Nat /\ size \in Nat
  BY RemainFacts, SizeFacts DEF Inv, RingInv
<1>2. /\ kbuf' = [kbuf EXCEPT !.entries = kbuf'.entries] /\ kbuf'.entries \in Nat
      /\ UNCHANGED <<klogger, file, fd_open, kfs, running, rate, logged, read, nfail>>
  BY DEF klog_write, Inv, TypeOK
<1>3. /\ kbuf'.r_idx = kbuf.r_idx /\ kbuf'.w_idx = kbuf.w_idx /\ kbuf'.buf = kbuf.buf
      /\ kbuf' \in [r_idx : Index, w_idx : Index, entries : Nat, buf : [Index -> 0..MaxByte]]
  BY <1>2 DEF Inv, TypeOK
<1>4. \/ worker' = worker
      \/ /\ worker.at = "idle" /\ worker'.at = "compose"
         /\ worker' \in [at : {"idle", "compose", "publish"}, len : 0..(KLOG_ENTRY_SIZE - 1)]
         /\ klog_remain >= KLOG_ENTRY_SIZE
         /\ logged + worker'.len <= MaxByte
  BY KlogAssumption DEF klog_write
<1>5. TypeOK'
  BY <1>2, <1>3, <1>4 DEF Inv, TypeOK
<1>6. Unread' = Unread /\ Written' = Written
  BY <1>2, <1>4 DEF Unread, Written
<1>7. RingInv'
  BY <1>2, <1>3, <1>6 DEF Inv, RingInv, CIRCULAR_INCR
<1>8. WorkerInv'
  <2>1. CASE worker' = worker
    BY <1>2, <1>6, <2>1 DEF Inv, WorkerInv
  <2>2. CASE worker' # worker
    <3>1. worker'.len \in Nat /\ worker'.len < KLOG_ENTRY_SIZE /\ klog_remain >= KLOG_ENTRY_SIZE
      BY <1>4, <2>2, SizeFacts
    <3>2. Unread' + worker'.len < size
      BY <1>1, <1>6, <3>1, SizeFacts
    <3> QED
      BY <1>2, <1>4, <2>2, <3>2 DEF WorkerInv
  <2> QED
    BY <2>1, <2>2
<1>9. KloggerInv'
  BY <1>2, <1>3, <1>6 DEF Inv, KloggerInv, Seen, Wraps, InFile
<1> QED
  BY <1>2, <1>5, <1>7, <1>8, <1>9 DEF Inv, FileComplete
\* Composing an entry touches only bytes that are not in use.
LEMMA ComposeStep ==
    ASSUME Inv, klog_compose
    PROVE  Inv'
<1> DEFINE n == worker.len
           w == kbuf.w_idx
           r == kbuf.r_idx
<1>1. /\ worker.at = "compose" /\ worker'.at = "publish" /\ worker'.len = n
      /\ UNCHANGED <<klogger, file, fd_open, kfs, running, rate, logged, read, nfail>>
  BY DEF klog_compose, Inv, TypeOK
<1>2. /\ size \in Nat /\ size > 0 /\ r \in Index /\ w \in Index
      /\ n \in Nat /\ logged \in Nat /\ read \in Nat /\ Unread \in Nat
      /\ Unread + n < size /\ logged + n <= MaxByte /\ MaxByte \in Nat
  BY <1>1, SizeFacts, KlogAssumption DEF Inv, TypeOK, RingInv, WorkerInv
<1>3. w = IF r + Unread < size THEN r + Unread ELSE r + Unread - size
  BY <1>2, CircularFacts DEF Inv, RingInv
<1>4. /\ kbuf'.r_idx = r /\ kbuf'.w_idx = w /\ kbuf'.entries = kbuf.entries
      /\ kbuf' \in [r_idx : Index, w_idx : Index, entries : Nat, buf : [Index -> 0..MaxByte]]
      /\ \A j \in Index : LET i == CIRCULAR_INCR(j, size - w)
                          IN  /\ i < n => kbuf'.buf[j] = logged + 1 + i
                              /\ i > n => kbuf'.buf[j] = kbuf.buf[j]
  <2>1. kbuf' = [kbuf EXCEPT !.buf = kbuf'.buf]
    BY DEF klog_compose, Inv, TypeOK
  <2>2. \A j \in Index : CIRCULAR_INCR(j, size - w) \in Nat
    <3>1. size - w \in 0..size
      BY <1>2 DEF Index
    <3>2. \A j \in Index : CIRCULAR_INCR(j, size - w) \in Index
      BY <3>1, CircularFacts
    <3> QED
      BY <1>2, <3>2 DEF Index
  <2>3. \A j \in Index :
          kbuf'.buf[j] = LET i == CIRCULAR_INCR(j, size - w)
                         IN  IF i < n THEN logged + 1 + i
                             ELSE IF i = n /\ size - w >= KLOG_ENTRY_SIZE THEN NUL
                             ELSE kbuf.buf[j]
    BY DEF klog_compose, Inv, TypeOK
  <2>4. ASSUME NEW j \in Index
        PROVE  /\ LET i == CIRCULAR_INCR(j, size - w)
                  IN  /\ i < n => kbuf'.buf[j] = logged + 1 + i
                      /\ i > n => kbuf'.buf[j] = kbuf.buf[j]
               /\ kbuf'.buf[j] \in 0..MaxByte
    <3>1. kbuf.buf[j] \in 0..MaxByte
      BY DEF Inv, TypeOK
    <3> HIDE DEF n, w
    <3> QED
      BY <1>2, <2>2, <2>3, <3>1 DEF NUL
  <2>5. kbuf'.buf \in [Index -> 0..MaxByte]
    <3>1. /\ kbuf'.buf = [j \in Index |-> kbuf'.buf[j]]
      BY DEF klog_compose, Inv, TypeOK
    <3> QED
      BY <2>4, <3>1
  <2>6. /\ kbuf'.r_idx = r /\ kbuf'.w_idx = w /\ kbuf'.entries = kbuf.entries
        /\ kbuf' \in [r_idx : Index, w_idx : Index, entries : Nat, buf : [Index -> 0..MaxByte]]
    BY <2>1, <2>5 DEF Inv, TypeOK
  <2> QED
    BY <2>4, <2>6
<1>5. TypeOK'
  BY <1>1, <1>4 DEF Inv, TypeOK, klog_compose
<1>6. Unread' = Unread /\ Written = Unread /\ Written' = Unread + n
  BY <1>1, <1>2 DEF Unread, Written
<1>7. ASSUME NEW i \in 0..(Written' - 1)
      PROVE  kbuf'.buf[CIRCULAR_INCR(r, i)] = read + i + 1
  <2> DEFINE j == CIRCULAR_INCR(r, i)
             b == CIRCULAR_INCR(j, size - w)
  <2>1. i \in 0..size /\ i < Unread + n
    BY <1>2, <1>6
  <2>2. j \in Index /\ j = IF r + i < size THEN r + i ELSE r + i - size
    BY <1>2, <2>1, CircularFacts
  <2>3. size - w \in 0..size
    BY <1>2 DEF Index
  <2>4. b = IF j + (size - w) < size THEN j + (size - w) ELSE j + (size - w) - size
    BY <2>2, <2>3, CircularFacts
  <2>5. b = IF i < Unread THEN i - Unread + size ELSE i - Unread
    <3> HIDE DEF b, j, r, w, n, Unread
    <3> QED
      BY <1>2, <1>3, <2>1, <2>2, <2>4 DEF Index
  <2>6. CASE i < Unread
    <3>1. kbuf.buf[j] = read + i + 1
      BY <1>6, <2>1, <2>6 DEF Inv, RingInv
    <3>2. b > n
      BY <1>2, <2>1, <2>5, <2>6
    <3> QED
      BY <1>4, <2>2, <3>1, <3>2
  <2>7. CASE i >= Unread
    <3>1. b < n
      BY <1>2, <2>1, <2>5, <2>7
    <3>2. kbuf'.buf[j] = logged + 1 + (i - Unread)
      BY <1>2, <1>4, <2>1, <2>2, <2>5, <2>7, <3>1
    <3> QED
      BY <1>2, <2>1, <3>2 DEF Unread
  <2> QED
    BY <1>2, <2>1, <2>6, <2>7
<1>8. RingInv'
  BY <1>1, <1>4, <1>6, <1>7 DEF Inv, RingInv, CIRCULAR_INCR
<1>9. WorkerInv'
  BY <1>1, <1>2, <1>6 DEF WorkerInv
<1>10. KloggerInv'
  BY <1>1, <1>4, <1>6 DEF Inv, KloggerInv, Seen, Wraps, InFile
<1> QED
  BY <1>1, <1>5, <1>8, <1>9, <1>10 DEF Inv, FileComplete

\* Publishing an entry makes its bytes unread ones.
LEMMA PublishStep ==
    ASSUME Inv, klog_publish
    PROVE  Inv'
<1> DEFINE n == worker.len
           w == kbuf.w_idx
           r == kbuf.r_idx
<1>1. /\ worker.at = "publish" /\ worker'.at = "idle" /\ worker' = [at |-> "idle", len |-> 0]
      /\ logged' = logged + n
      /\ UNCHANGED <<klogger, file, fd_open, kfs, running, rate, read, nfail>>
  BY DEF klog_publish, Inv, TypeOK
<1>2. /\ size \in Nat /\ size > 0 /\ r \in Index /\ w \in Index
      /\ n \in Nat /\ logged \in Nat /\ read \in Nat /\ Unread \in Nat
      /\ Unread + n < size /\ logged + n <= MaxByte
  BY <1>1, SizeFacts DEF Inv, TypeOK, RingInv, WorkerInv
<1>3. w = IF r + Unread < size THEN r + Unread ELSE r + Unread - size
  <2>1. w = CIRCULAR_INCR(r, Unread)
    BY DEF Inv, RingInv
  <2>2. Unread \in 0..size
    BY <1>2
  <2> HIDE DEF r, w, n, Unread
  <2> QED
    BY <1>2, <2>1, <2>2, CircularFacts
<1>4. CIRCULAR_INCR(w, n) \in Index /\ CIRCULAR_INCR(w, n) = CIRCULAR_INCR(r, Unread + n)
  <2>1. n \in 0..size /\ Unread + n \in 0..size
    BY <1>2
  <2>2. /\ CIRCULAR_INCR(w, n) \in Index
        /\ CIRCULAR_INCR(w, n) = IF w + n < size THEN w + n ELSE w + n - size
        /\ CIRCULAR_INCR(r, Unread + n) = IF r + (Unread + n) < size THEN r + (Unread + n)
                                          ELSE r + (Unread + n) - size
    BY <1>2, <2>1, CircularFacts
  <2> HIDE DEF r, w, n, Unread
  <2> QED
    BY <1>2, <1>3, <2>2 DEF Index
<1>5. /\ kbuf'.r_idx = r /\ kbuf'.w_idx = CIRCULAR_INCR(w, n) /\ kbuf'.buf = kbuf.buf
      /\ kbuf' \in [r_idx : Index, w_idx : Index, entries : Nat, buf : [Index -> 0..MaxByte]]
  BY <1>4 DEF klog_publish, Inv, TypeOK
<1>6. TypeOK'
  <2>1. TypeOK
    BY DEF Inv
  <2>2. worker' \in [at : {"idle", "compose", "publish"}, len : 0..(KLOG_ENTRY_SIZE - 1)]
    BY <1>1, KlogAssumption
  <2>3. logged' \in 0..MaxByte /\ read' \in 0..logged'
    BY <1>1, <1>2, <2>1 DEF TypeOK
  <2> HIDE DEF n, w, r
  <2> QED
    BY <1>1, <1>5, <2>1, <2>2, <2>3 DEF TypeOK
<1>7. Unread' = Unread + n /\ Written' = Written /\ Written = Unread + n
  BY <1>1, <1>2 DEF Unread, Written
<1>8. RingInv'
  BY <1>1, <1>2, <1>4, <1>5, <1>7 DEF Inv, RingInv, CIRCULAR_INCR
<1>9. WorkerInv'
  BY <1>1 DEF WorkerInv
<1>10. KloggerInv'
  <2>1. Seen' = Seen /\ Seen \in Int
    BY <1>1, <1>5, SeenFacts DEF Seen, Inv
  <2> QED
    BY <1>1, <1>2, <1>5, <1>7, <2>1 DEF Inv, KloggerInv, Wraps, InFile
<1> QED
  BY <1>1, <1>6, <1>8, <1>9, <1>10 DEF Inv, FileComplete
-----------------------------------------------------------------------------
\* klog_read begins with a copy of w_idx that is up to date.
LEMMA CollectStep ==
    ASSUME Inv, klog_collect
    PROVE  Inv'
<1>1. /\ klogger' = [at |-> "first", w_idx |-> kbuf.w_idx, ret |-> 0]
      /\ UNCHANGED <<kbuf, worker, file, fd_open, kfs, running, rate, logged, read, nfail>>
  BY DEF klog_collect
<1>2. size \in Nat /\ size > 0 /\ 0 \in Index /\ read \in Nat
  BY SizeFacts DEF Index, Inv, TypeOK
<1>3. TypeOK'
  BY <1>1, <1>2 DEF Inv, TypeOK
<1>4. Unread' = Unread /\ Written' = Written
  BY <1>1 DEF Unread, Written
<1>5. RingInv' /\ WorkerInv' /\ FileComplete'
  BY <1>1, <1>4 DEF Inv, RingInv, WorkerInv, FileComplete, CIRCULAR_INCR
<1>6. Seen' = Unread /\ Unread \in Nat
  BY <1>1, <1>2, RingDistance DEF Seen, Inv, RingInv
<1> QED
  BY <1>1, <1>2, <1>3, <1>4, <1>5, <1>6 DEF Inv, KloggerInv

\* The first l bytes of f have the bytes up to b, and none is there before the
\* byte it follows.
HasUpTo(f, l, b) == \A k \in 1..b : \E i \in 1..l : f[i] = k
InOrder(f, l) == \A i \in 1..l : f[i] = 1 \/ \E j \in 1..(i - 1) : f[j] = f[i] - 1
Extends(g, f, l, n, b) ==
    /\ \A i \in 1..l : g[i] = f[i] /\ f[i] \in Nat
    /\ \A i \in 1..n : g[l + i] = b + i

\* Bytes b + 1 .. b + n behind a file that holds the bytes up to b: all are
\* there then, and none before the byte it follows.
LEMMA BytesFollow ==
    ASSUME NEW b \in Nat, NEW n \in Nat, NEW l \in Nat, NEW f, NEW g,
           Extends(g, f, l, n, b), HasUpTo(f, l, b), InOrder(f, l)
    PROVE  HasUpTo(g, l + n, b + n) /\ InOrder(g, l + n)
<1> USE DEF HasUpTo, InOrder, Extends
<1>1. ASSUME NEW k \in 1..(b + n)
      PROVE  \E i \in 1..(l + n) : g[i] = k
  <2>1. CASE k <= b
    BY <2>1
  <2>2. CASE k > b
    <3>1. k - b \in 1..n /\ l + (k - b) \in 1..(l + n)
      BY <2>2
    <3>2. g[l + (k - b)] = b + (k - b)
      BY <3>1
    <3>3. b + (k - b) = k
      OBVIOUS
    <3> QED
      BY <3>1, <3>2, <3>3
  <2> QED
    BY <2>1, <2>2
<1>2. ASSUME NEW i \in 1..(l + n)
      PROVE  g[i] = 1 \/ \E j \in 1..(i - 1) : g[j] = g[i] - 1
  <2>1. CASE i <= l
    BY <2>1
  <2>2. CASE i > l
    <3>1. i - l \in 1..n /\ l + (i - l) = i
      BY <2>2
    <3>2. g[i] = b + (i - l)
      BY <3>1
    <3>3. CASE i - l = 1
      <4>1. b = 0 \/ b \in 1..b
        OBVIOUS
      <4>2. b = 0 \/ \E j \in 1..l : f[j] = b /\ g[j] = b
        BY <4>1
      <4>3. \A j \in 1..l : j \in 1..(i - 1)
        BY <2>2
      <4> QED
        BY <3>2, <3>3, <4>2, <4>3
    <3>4. CASE i - l > 1
      <4>1. i - l - 1 \in 1..n /\ l + (i - l - 1) = i - 1 /\ i - 1 \in 1..(i - 1)
        BY <3>1, <3>4
      <4>2. g[l + (i - l - 1)] = b + (i - l - 1)
        BY <4>1
      <4>3. b + (i - l - 1) = b + (i - l) - 1
        OBVIOUS
      <4> QED
        BY <3>2, <4>1, <4>2, <4>3
    <3> QED
      BY <3>1, <3>3, <3>4
  <2> QED
    BY <2>1, <2>2
<1> QED
  BY <1>1, <1>2

\* The same for the file as a sequence.
LEMMA FileGrows ==
    ASSUME NEW b \in Nat, NEW n \in Nat, NEW top \in Nat, b + n <= top,
           NEW f \in Seq(0..top), NEW a, a = [i \in 1..n |-> b + i],
           HasUpTo(f, Len(f), b), InOrder(f, Len(f))
    PROVE  /\ f \o a \in Seq(0..top)
           /\ HasUpTo(f \o a, Len(f \o a), b + n) /\ InOrder(f \o a, Len(f \o a))
<1> DEFINE g == f \o a
           l == Len(f)
<1>1. a \in Seq(0..top) /\ Len(a) = n /\ \A i \in 1..n : a[i] = b + i
  <2>1. a \in [1..n -> 0..top]
    OBVIOUS
  <2> QED
    BY <2>1
<1>2. /\ g \in Seq(0..top) /\ Len(g) = l + n /\ l \in Nat
      /\ DOMAIN f = 1..l /\ DOMAIN g = 1..(l + n)
      /\ \A i \in 1..l : g[i] = f[i] /\ f[i] \in Nat
      /\ \A i \in 1..n : g[l + i] = b + i
  BY <1>1
<1> HIDE DEF g, l
<1>3. HasUpTo(f, l, b) /\ InOrder(f, l)
  BY DEF l
<1>4. Extends(g, f, l, n, b)
  BY <1>2 DEF Extends
<1>5. HasUpTo(g, l + n, b + n) /\ InOrder(g, l + n)
  BY <1>2, <1>3, <1>4, BytesFollow
<1> QED
  BY <1>2, <1>5 DEF g

\* The next piece to write is the unread bytes that follow those written, and
\* none that the klogger has not seen.
LEMMA PieceFacts ==
    ASSUME Inv, klogger.at \in {"first", "second"}
    PROVE  /\ Piece.len \in Nat /\ klogger.ret \in Nat /\ klogger.ret + Piece.len <= Seen
           /\ Seen \in Nat /\ Seen <= Unread /\ Seen < size
           /\ klogger.at = "first" /\ Wraps => klogger.ret + Piece.len = size - kbuf.r_idx
           /\ \A i \in 1..Piece.len :
                  kbuf.buf[Piece.from + i - 1] = read + klogger.ret + i
<1> DEFINE r == kbuf.r_idx
           w == klogger.w_idx
           ret == klogger.ret
<1>1. /\ size \in Nat /\ size > 0 /\ r \in Index /\ w \in Index /\ ret \in Nat
      /\ read \in Nat /\ Unread \in Nat /\ Unread < size
  BY SizeFacts DEF Inv, TypeOK, RingInv, Index
<1>2. /\ Seen \in Nat /\ Seen <= Unread /\ ret <= Seen /\ Seen < size
      /\ Seen = IF r > w THEN w - r + size ELSE w - r
      /\ klogger.at = "first" => ret = 0
      /\ klogger.at = "second" => r > w /\ ret = size - r
  BY <1>1, SeenFacts DEF Inv, KloggerInv, Wraps
<1>3. ASSUME NEW i \in 0..(Unread - 1)
      PROVE  kbuf.buf[IF r + i < size THEN r + i ELSE r + i - size] = read + i + 1
  <2>1. i \in 0..size /\ i \in 0..(Written - 1)
    BY <1>1 DEF Written, Inv, TypeOK
  <2>2. CIRCULAR_INCR(r, i) = IF r + i < size THEN r + i ELSE r + i - size
    BY <1>1, <2>1, CircularFacts
  <2>3. kbuf.buf[CIRCULAR_INCR(r, i)] = read + i + 1
    BY <2>1 DEF Inv, RingInv
  <2> QED
    BY <2>2, <2>3
<1>4. r \in Nat /\ w \in Nat /\ r < size /\ w < size
  BY <1>1 DEF Index
<1>5. CASE klogger.at = "first"
  <2>1. Piece = [from |-> r, len |-> IF r <= w THEN w - r ELSE size - r] /\ ret = 0
    BY <1>2, <1>5 DEF Piece
  <2>2. Piece.from = r /\ Piece.len = (IF r <= w THEN w - r ELSE size - r)
    BY <2>1
  <2> HIDE DEF r, w, ret
  <2>3. Piece.len \in Nat /\ Piece.len <= Seen /\ r + Piece.len <= size
    BY <1>1, <1>2, <1>4, <2>2
  <2>4. ASSUME NEW i \in 1..Piece.len
        PROVE  kbuf.buf[Piece.from + i - 1] = read + ret + i
    <3>1. i - 1 \in 0..(Unread - 1) /\ r + (i - 1) < size /\ r + (i - 1) = Piece.from + i - 1
      BY <1>1, <1>2, <1>4, <2>2, <2>3
    <3>2. kbuf.buf[r + (i - 1)] = read + (i - 1) + 1
      BY <1>3, <3>1
    <3> QED
      BY <1>1, <2>1, <3>1, <3>2
  <2>5. Wraps => Piece.len = size - r
    BY <1>4, <2>2 DEF Wraps, r, w
  <2> QED
    BY <1>1, <1>2, <2>1, <2>3, <2>4, <2>5 DEF r, w, ret
<1>6. CASE klogger.at = "second"
  <2>1. Piece = [from |-> 0, len |-> w] /\ ret = size - r /\ r > w
    BY <1>2, <1>6 DEF Piece
  <2>2. Piece.from = 0 /\ Piece.len = w
    BY <2>1
  <2> HIDE DEF r, w, ret
  <2>3. Piece.len \in Nat /\ ret + Piece.len = Seen
    BY <1>1, <1>2, <1>4, <2>1, <2>2
  <2>4. ASSUME NEW i \in 1..Piece.len
        PROVE  kbuf.buf[Piece.from + i - 1] = read + ret + i
    <3>1. /\ ret + (i - 1) \in 0..(Unread - 1) /\ r + (ret + (i - 1)) >= size
          /\ r + (ret + (i - 1)) - size = Piece.from + i - 1
      BY <1>1, <1>2, <1>4, <2>1, <2>2, <2>3
    <3>2. kbuf.buf[r + (ret + (i - 1)) - size] = read + (ret + (i - 1)) + 1
      BY <1>1, <1>3, <1>4, <3>1
    <3> QED
      BY <1>1, <3>1, <3>2
  <2> QED
    BY <1>1, <1>2, <1>6, <2>3, <2>4 DEF r, w, ret
<1> QED
  BY <1>5, <1>6
\* What klog_read appends to the file is the bytes that follow.
LEMMA ReadWriteStep ==
    ASSUME Inv, klog_read_write
    PROVE  Inv'
<1> DEFINE b == read + klogger.ret
<1>1. PICK n \in IF "short" \in Faults THEN 0..Piece.len ELSE {Piece.len} :
        /\ klogger.at \in {"first", "second"}
        /\ file' = file \o [i \in 1..n |-> kbuf.buf[Piece.from + i - 1]]
        /\ klogger' = [klogger EXCEPT
                         !.at = IF @ = "first" /\ Wraps /\ n = Piece.len
                                THEN "second" ELSE "end",
                         !.ret = @ + n]
        /\ UNCHANGED <<kbuf, worker, fd_open, kfs, running, rate, logged, read, nfail>>
  BY DEF klog_read_write
<1>2. /\ Piece.len \in Nat /\ klogger.ret \in Nat /\ klogger.ret + Piece.len <= Seen
      /\ Seen \in Nat /\ Seen <= Unread /\ Seen < size
      /\ klogger.at = "first" /\ Wraps => klogger.ret + Piece.len = size - kbuf.r_idx
      /\ \A i \in 1..Piece.len : kbuf.buf[Piece.from + i - 1] = b + i
  BY <1>1, PieceFacts
<1>3. /\ n \in Nat /\ n <= Piece.len /\ size \in Nat
      /\ read \in Nat /\ logged \in Nat /\ MaxByte \in Nat /\ logged <= MaxByte
      /\ file \in Seq(0..MaxByte)
  <2>1. n \in 0..Piece.len
    BY <1>2
  <2> QED
    BY <1>2, <2>1, SizeFacts, KlogAssumption DEF Inv, TypeOK
<1>4. b \in Nat /\ b + n <= MaxByte
  BY <1>2, <1>3 DEF Unread
<1>5. [i \in 1..n |-> kbuf.buf[Piece.from + i - 1]] = [i \in 1..n |-> b + i]
  BY <1>2, <1>3
<1>6. /\ \A k \in 1..b : InFile(k)
      /\ \A i \in DOMAIN file : file[i] = 1 \/ \E j \in 1..(i - 1) : file[j] = file[i] - 1
  <2>1. \A k \in (read + 1)..b : InFile(k)
    BY <1>1 DEF Inv, KloggerInv
  <2>2. \A k \in 1..read : InFile(k)
    BY DEF Inv, FileComplete, InFile
  <2>3. \A k \in 1..b : k \in 1..read \/ k \in (read + 1)..b
    BY <1>3
  <2> QED
    BY <2>1, <2>2, <2>3 DEF Inv, FileComplete
<1> HIDE DEF b
<1>7. /\ file' \in Seq(0..MaxByte)
      /\ \A k \in 1..(b + n) : InFile(k)'
      /\ \A i \in DOMAIN file' : file'[i] = 1 \/ \E j \in 1..(i - 1) : file'[j] = file'[i] - 1
  <2> DEFINE a == [i \in 1..n |-> b + i]
  <2>1. file' = file \o a
    BY <1>1, <1>5
  <2>2. HasUpTo(file, Len(file), b) /\ InOrder(file, Len(file))
    <3>1. DOMAIN file = 1..Len(file)
      BY <1>3
    <3> QED
      BY <1>6, <3>1 DEF InFile, HasUpTo, InOrder
  <2> HIDE DEF a
  <2>3. a = [i \in 1..n |-> b + i]
    BY DEF a
  <2>4. /\ file' \in Seq(0..MaxByte)
        /\ HasUpTo(file', Len(file'), b + n) /\ InOrder(file', Len(file'))
    BY <1>3, <1>4, <2>1, <2>2, <2>3, FileGrows
  <2>5. DOMAIN file' = 1..Len(file')
    BY <2>4
  <2> QED
    BY <2>4, <2>5 DEF InFile, HasUpTo, InOrder
<1>8. /\ klogger'.w_idx = klogger.w_idx /\ klogger'.ret = klogger.ret + n
      /\ klogger'.at \in {"second", "end"}
      /\ klogger'.at = "second" => klogger.at = "first" /\ Wraps /\ n = Piece.len
      /\ klogger' \in [at : {"idle", "first", "second", "end"}, w_idx : Index, ret : Index]
  <2>1. klogger.ret + n \in Index
    BY <1>2, <1>3 DEF Index
  <2> QED
    BY <1>1, <2>1 DEF Inv, TypeOK
<1>9. TypeOK'
  BY <1>1, <1>7, <1>8 DEF Inv, TypeOK
<1>10. Unread' = Unread /\ Written' = Written /\ Seen' = Seen /\ Wraps' = Wraps
  BY <1>1, <1>8 DEF Unread, Written, Seen, Wraps
<1>11. RingInv' /\ WorkerInv'
  BY <1>1, <1>10 DEF Inv, RingInv, WorkerInv, CIRCULAR_INCR
<1>12. KloggerInv'
  <2>1. \A k \in (read + 1)..(read + klogger'.ret) : k \in 1..(b + n)
    BY <1>2, <1>3, <1>8 DEF b
  <2>2. \A k \in (read' + 1)..(read' + klogger'.ret) : InFile(k)'
    BY <1>1, <1>7, <2>1
  <2>3. klogger'.ret <= Seen
    BY <1>2, <1>3, <1>8
  <2>4. klogger'.at = "second" => Wraps /\ klogger'.ret = size - kbuf'.r_idx
    BY <1>1, <1>2, <1>8
  <2>5. Seen' <= Unread' /\ klogger'.ret <= Seen' /\ klogger'.at # "first"
    BY <1>2, <1>8, <1>10, <2>3
  <2>6. klogger'.at = "second" => Wraps'
    BY <1>10, <2>4
  <2> QED
    BY <2>2, <2>4, <2>5, <2>6 DEF KloggerInv
<1>13. FileComplete'
  <2>1. \A k \in 1..read : k \in 1..(b + n)
    BY <1>2, <1>3 DEF b
  <2> QED
    BY <1>1, <1>7, <2>1 DEF FileComplete, InFile
<1> QED
  BY <1>9, <1>11, <1>12, <1>13 DEF Inv

\* A write that fails leaves buffer and file alone.
LEMMA ReadErrorStep ==
    ASSUME Inv, klog_read_error
    PROVE  Inv'
<1>1. /\ klogger' = [klogger EXCEPT !.at = "idle"]
      /\ UNCHANGED <<kbuf, worker, file, fd_open, kfs, running, rate, logged, read>>
  BY DEF klog_read_error
<1>2. nfail' \in 0..MaxFail
  <2>1. nfail' = nfail \/ (nfail < MaxFail /\ nfail' = nfail + 1)
    BY Zenon DEF klog_read_error
  <2> QED
    BY <2>1, KlogAssumption DEF Inv, TypeOK
<1>3. klogger'.at = "idle" /\ TypeOK'
  BY <1>1, <1>2 DEF Inv, TypeOK
<1>4. Unread' = Unread /\ Written' = Written
  BY <1>1 DEF Unread, Written
<1> QED
  BY <1>1, <1>3, <1>4 DEF Inv, RingInv, WorkerInv, KloggerInv, FileComplete, CIRCULAR_INCR

\* r_idx moves past the bytes written and no further.
LEMMA ReadEndStep ==
    ASSUME Inv, klog_read_end
    PROVE  Inv'
<1> DEFINE r == kbuf.r_idx
           ret == klogger.ret
           q == CIRCULAR_INCR(r, ret)
<1>1. /\ klogger.at = "end" /\ klogger' = [klogger EXCEPT !.at = "idle"]
      /\ kbuf' = [kbuf EXCEPT !.r_idx = q] /\ read' = read + ret
      /\ UNCHANGED <<worker, file, rate, logged>>
  BY DEF klog_read_end
<1>2. /\ size \in Nat /\ size > 0 /\ r \in Index /\ ret \in Nat /\ kbuf.w_idx \in Index
      /\ read \in Nat /\ logged \in Nat /\ Unread \in Nat /\ Unread < size
      /\ worker.len \in Nat
  BY SizeFacts DEF Inv, TypeOK, RingInv, Index
<1>3. ret <= Unread
  BY <1>1, <1>2, SeenFacts DEF Inv, KloggerInv
<1>4. q \in Index /\ q = IF r + ret < size THEN r + ret ELSE r + ret - size
  <2>1. ret \in 0..size
    BY <1>2, <1>3
  <2> QED
    BY <1>2, <2>1, CircularFacts
<1>5. /\ kbuf'.r_idx = q /\ kbuf'.w_idx = kbuf.w_idx /\ kbuf'.buf = kbuf.buf
      /\ kbuf' \in [r_idx : Index, w_idx : Index, entries : Nat, buf : [Index -> 0..MaxByte]]
      /\ klogger'.at = "idle"
      /\ klogger' \in [at : {"idle", "first", "second", "end"}, w_idx : Index, ret : Index]
  BY <1>1, <1>4 DEF Inv, TypeOK
<1>6. /\ kfs' \in 0..KLOG_MAX_SIZE /\ fd_open' \in BOOLEAN /\ running' \in BOOLEAN
      /\ nfail' \in 0..MaxFail
  <2>1. kfs' \in 0..KLOG_MAX_SIZE
    <3>1. kfs \in Nat /\ KLOG_MAX_SIZE \in Nat
      BY KlogAssumption DEF Inv, TypeOK
    <3>2. kfs' = IF kfs + ret > KLOG_MAX_SIZE THEN 0 ELSE kfs + ret
      BY DEF klog_read_end
    <3> QED
      BY <1>2, <3>1, <3>2
  <2>2. nfail' \in 0..MaxFail
    <3>1. nfail' = nfail \/ (nfail < MaxFail /\ nfail' = nfail + 1)
      BY DEF klog_read_end
    <3> QED
      BY <3>1, KlogAssumption DEF Inv, TypeOK
  <2>3. fd_open' \in BOOLEAN /\ running' \in BOOLEAN
    BY DEF klog_read_end, Inv, TypeOK
  <2> QED
    BY <2>1, <2>2, <2>3
<1>7. read' \in 0..logged'
  BY <1>1, <1>2, <1>3 DEF Unread
<1>8. TypeOK'
  BY <1>1, <1>5, <1>6, <1>7 DEF Inv, TypeOK
<1>9. Unread' = Unread - ret /\ Written' = Written - ret /\ Written \in Int /\ Unread' \in 0..(size - 1)
  BY <1>1, <1>2, <1>3 DEF Unread, Written
<1>10. Written < size
  BY <1>2 DEF Written, Inv, WorkerInv
<1>11. ASSUME NEW i \in 0..(size - 1), ret + i < size
       PROVE  CIRCULAR_INCR(q, i) = CIRCULAR_INCR(r, ret + i)
  <2>1. /\ CIRCULAR_INCR(q, i) = IF q + i < size THEN q + i ELSE q + i - size
        /\ CIRCULAR_INCR(r, ret + i) = IF r + (ret + i) < size THEN r + (ret + i)
                                       ELSE r + (ret + i) - size
    <3>1. i \in 0..size /\ ret + i \in 0..size
      BY <1>2, <1>11
    <3> QED
      BY <1>2, <1>4, <3>1, CircularFacts
  <2> HIDE DEF q, r, ret
  <2> QED
    BY <1>2, <1>4, <1>11, <2>1 DEF Index
<1>12. kbuf'.w_idx = CIRCULAR_INCR(q, Unread')
  <2>1. ret + Unread' = Unread
    BY <1>2, <1>9
  <2>2. kbuf.w_idx = CIRCULAR_INCR(r, Unread)
    BY DEF Inv, RingInv
  <2>3. CIRCULAR_INCR(q, Unread') = CIRCULAR_INCR(r, ret + Unread')
    BY <1>2, <1>9, <1>11, <2>1
  <2> QED
    BY <1>5, <2>1, <2>2, <2>3
<1>13. ASSUME NEW i \in 0..(Written' - 1)
       PROVE  kbuf'.buf[CIRCULAR_INCR(q, i)] = read' + i + 1
  <2>1. i \in 0..(size - 1) /\ ret + i < size /\ ret + i \in 0..(Written - 1)
    BY <1>2, <1>9, <1>10
  <2>2. kbuf.buf[CIRCULAR_INCR(r, ret + i)] = read + (ret + i) + 1
    BY <2>1 DEF Inv, RingInv
  <2>3. read + (ret + i) + 1 = read' + i + 1
    BY <1>1, <1>2
  <2> QED
    BY <1>5, <1>11, <2>1, <2>2, <2>3
<1>14. RingInv'
  BY <1>5, <1>9, <1>12, <1>13 DEF RingInv, CIRCULAR_INCR
<1>15. WorkerInv'
  BY <1>1, <1>2, <1>3, <1>9 DEF Inv, WorkerInv
<1>16. FileComplete'
  <2>1. \A k \in (read + 1)..(read + ret) : InFile(k)
    BY <1>1 DEF Inv, KloggerInv
  <2>2. \A k \in 1..read' : k \in 1..read \/ k \in (read + 1)..(read + ret)
    BY <1>1, <1>2
  <2> QED
    BY <1>1, <2>1, <2>2 DEF Inv, FileComplete, InFile
<1>17. KloggerInv'
  BY <1>5 DEF KloggerInv
<1> QED
  BY <1>8, <1>14, <1>15, <1>16, <1>17 DEF Inv
\* config klog start, stop and sampling touch neither buffer nor file.
LEMMA ConfigStep ==
    ASSUME Inv, asc_process_klog
    PROVE  Inv'
<1>1. /\ UNCHANGED <<kbuf, worker, klogger, file, fd_open, kfs, logged, read, nfail>>
      /\ running' \in BOOLEAN /\ rate' \in SampleRate
  BY DEF asc_process_klog, Inv, TypeOK
<1>2. TypeOK'
  BY <1>1 DEF Inv, TypeOK
<1>3. Unread' = Unread /\ Written' = Written /\ Seen' = Seen
  BY <1>1 DEF Unread, Written, Seen
<1> QED
  BY <1>1, <1>2, <1>3
     DEF Inv, RingInv, WorkerInv, KloggerInv, FileComplete, CIRCULAR_INCR, InFile, Wraps

\* Inv is inductive.
LEMMA NextInv == Inv /\ [Next]_vars => Inv'
<1> SUFFICES ASSUME Inv, [Next]_vars PROVE Inv'
  OBVIOUS
<1>1. CASE UNCHANGED vars
  <2>1. UNCHANGED <<kbuf, worker, klogger, file, fd_open, kfs, running, rate, logged, read, nfail>>
    BY <1>1 DEF vars
  <2>2. TypeOK'
    BY <2>1 DEF Inv, TypeOK
  <2>3. Unread' = Unread /\ Written' = Written /\ Seen' = Seen
    BY <2>1 DEF Unread, Written, Seen
  <2> QED
    BY <2>1, <2>2, <2>3
       DEF Inv, RingInv, WorkerInv, KloggerInv, FileComplete, CIRCULAR_INCR, InFile, Wraps
<1> QED
  BY <1>1, WriteStep, ComposeStep, PublishStep, CollectStep, ReadWriteStep, ReadErrorStep,
     ReadEndStep, ConfigStep DEF Next

\* The inductive invariant holds throughout.
LEMMA Invariance == Spec => []Inv
  BY InitInv, NextInv, PTL DEF Spec

\* RingFaithful: from r_idx to w_idx the buffer of a worker (struct kbuf) holds
\* exactly the bytes logged and not read, in order, although _klog_write works
\* with an old r_idx and klog_read with an old w_idx and no lock is held.
THEOREM RingIsFaithful == Spec => []RingFaithful
<1>1. Inv => RingFaithful
  <2> SUFFICES ASSUME Inv PROVE RingFaithful
    OBVIOUS
  <2>1. (kbuf.w_idx - kbuf.r_idx) % size = logged - read
    BY RingDistance DEF Inv, Unread
  <2>2. /\ logged \in Nat /\ read \in Nat /\ worker.len \in Nat
    BY SizeFacts DEF Inv, TypeOK
  <2>3. ASSUME NEW i \in 1..(logged - read)
        PROVE  kbuf.buf[CIRCULAR_INCR(kbuf.r_idx, i - 1)] = read + i
    <3>1. i - 1 \in 0..(Written - 1) /\ read + (i - 1) + 1 = read + i
      BY <2>2 DEF Written, Unread
    <3> QED
      BY <3>1 DEF Inv, RingInv
  <2> QED
    BY <2>1, <2>3 DEF RingFaithful, Inv
<1> QED
  BY <1>1, Invariance, PTL

\* FileComplete: what klog_read has moved r_idx past is in the file or its
\* backups, and no byte is there before the byte logged before it, whichever
\* writes fail, are short or are made twice.
THEOREM FileIsComplete == Spec => []FileComplete
<1>1. Inv => FileComplete
  BY DEF Inv
<1> QED
  BY <1>1, Invariance, PTL

\* DiscardOnlyWhenFull: if the buffer was made for two entries or more,
\* _klog_write discards an entry only when the unread bytes are more than
\* klog_entry - 1 of the longest entries.  A buffer for one entry discards
\* them all: klog_remain leaves a byte free, and is never KLOG_ENTRY_SIZE.
THEOREM DiscardsWhenFull ==
    ASSUME klog_entry > 1
    PROVE  Spec => DiscardOnlyWhenFull
<1>1. Inv /\ Discard => logged - read > (klog_entry - 1) * (KLOG_ENTRY_SIZE - 1)
  <2> SUFFICES ASSUME Inv, Discard
               PROVE  Unread > (klog_entry - 1) * (KLOG_ENTRY_SIZE - 1)
    BY DEF Unread
  <2>1. klog_remain = size - 1 - Unread /\ Unread \in Nat
    BY RemainFacts, SizeFacts DEF Inv, RingInv
  <2>2. klog_remain < KLOG_ENTRY_SIZE
    BY DEF Discard, klog_write
  <2>3. ASSUME NEW k \in Nat, NEW e \in Nat, k > 0, e > 1
        PROVE  k * e - 1 - k >= (e - 1) * (k - 1)
    <3>1. (e - 1) * (k - 1) = k * e - e - k + 1
      BY <2>3
    <3>2. k * e \in Int
      BY <2>3
    <3> QED
      BY <2>3, <3>1, <3>2
  <2>4. size - 1 - KLOG_ENTRY_SIZE >= (klog_entry - 1) * (KLOG_ENTRY_SIZE - 1)
    BY <2>3, SizeFacts, KlogAssumption DEF size
  <2>5. (klog_entry - 1) * (KLOG_ENTRY_SIZE - 1) \in Int
    BY KlogAssumption
  <2> QED
    BY <2>1, <2>2, <2>4, <2>5, SizeFacts
<1> QED
  BY <1>1, Invariance, PTL DEF Spec, DiscardOnlyWhenFull

-----------------------------------------------------------------------------
(***************************************************************************)
(* Induction and recursion.                                                *)
(***************************************************************************)

\* A nonempty set of natural numbers has a least element.
LEMMA LeastElement ==
    ASSUME NEW I \in SUBSET Nat, I # {}
    PROVE  \E i \in I : \A j \in I : i <= j
<1>1. IsWellFoundedOn(OpToRel(<, Nat), Nat)
  BY NatLessThanWellFounded
<1>2. PICK i \in I : \A j \in I : <<j, i>> \notin OpToRel(<, Nat)
  BY <1>1, WFMin
<1>3. \A j \in I : ~(j < i)
  BY <1>2 DEF OpToRel
<1> QED
  BY <1>3

\* Induction, for a set in place of a formula.
LEMMA SetInduction ==
    ASSUME NEW I, 0 \in I, \A n \in Nat : n \in I => n + 1 \in I
    PROVE  \A n \in Nat : n \in I
<1> DEFINE J == {n \in Nat : n \notin I}
<1>1. ASSUME J # {} PROVE FALSE
  <2>1. PICK i \in J : \A j \in J : i <= j
    BY <1>1, LeastElement
  <2>2. i \in Nat /\ i # 0
    BY <2>1
  <2>3. i - 1 \in Nat /\ i - 1 \in I
    BY <2>1, <2>2
  <2> QED
    BY <2>1, <2>2, <2>3
<1> QED
  BY <1>1

\* Induction on a measure: what holds for x if it holds for all that measure
\* less holds for all.
LEMMA MeasureInduction ==
    ASSUME NEW D, NEW m \in [D -> Nat], NEW I,
           \A x \in D : (\A y \in D : m[y] < m[x] => y \in I) => x \in I
    PROVE  \A x \in D : x \in I
<1> DEFINE J == {n \in Nat : \E x \in D : m[x] = n /\ x \notin I}
<1>1. ASSUME J # {} PROVE FALSE
  <2>1. PICK i \in J : \A j \in J : i <= j
    BY <1>1, LeastElement
  <2>2. PICK x \in D : m[x] = i /\ x \notin I
    BY <2>1
  <2>3. ASSUME NEW y \in D, m[y] < m[x] PROVE y \in I
    BY <2>1, <2>2, <2>3
  <2> QED
    BY <2>2, <2>3
<1> QED
  BY <1>1

\* B takes functions to functions, and the value it gives one at x depends only
\* on the values this has at arguments of smaller measure.
Descends(D, R, m, B) ==
    /\ m \in [D -> Nat]
    /\ B \in [[D -> R] -> [D -> R]]
    /\ [D -> R] # {}
    /\ \A f, g \in [D -> R] : \A x \in D :
          (\A y \in D : m[y] < m[x] => f[y] = g[y]) => B[f][x] = B[g][x]

Recurs(D, R, B) == \E f \in [D -> R] : f = B[f]

\* Then there is a function that is defined by this recursion.
LEMMA Recursion ==
    ASSUME NEW D, NEW R, NEW m, NEW B, Descends(D, R, m, B)
    PROVE  Recurs(D, R, B)
<1>0. /\ m \in [D -> Nat]
      /\ B \in [[D -> R] -> [D -> R]]
      /\ [D -> R] # {}
      /\ \A f, g \in [D -> R] : \A x \in D :
            (\A y \in D : m[y] < m[x] => f[y] = g[y]) => B[f][x] = B[g][x]
  BY DEF Descends
<1> USE <1>0
<1> DEFINE Upto(n) == {f \in [D -> R] : \A x \in D : m[x] < n => B[f][x] = f[x]}
<1>1. \A n \in Nat : Upto(n) # {}
  <2> DEFINE I == {n \in Nat : Upto(n) # {}}
  <2>1. 0 \in I
    <3>1. PICK f0 \in [D -> R] : TRUE
      OBVIOUS
    <3>2. f0 \in Upto(0)
      OBVIOUS
    <3> QED
      BY <3>2
  <2>2. ASSUME NEW n \in Nat, n \in I PROVE n + 1 \in I
    <3>1. PICK f \in [D -> R] : \A x \in D : m[x] < n => B[f][x] = f[x]
      BY <2>2
    <3>2. B[f] \in [D -> R]
      OBVIOUS
    <3>3. ASSUME NEW x \in D, m[x] < n + 1 PROVE B[B[f]][x] = B[f][x]
      <4>1. \A y \in D : m[y] < m[x] => B[f][y] = f[y]
        BY <3>1, <3>3
      <4> QED
        BY <4>1, <3>2
    <3>4. B[f] \in Upto(n + 1)
      BY <3>2, <3>3
    <3> QED
      BY <3>4
  <2>3. \A n \in Nat : n \in I
    <3> HIDE DEF I
    <3> QED
      BY <2>1, <2>2, SetInduction
  <2> QED
    BY <2>3
<1>2. ASSUME NEW n \in Nat, NEW k \in Nat, NEW f \in Upto(n), NEW g \in Upto(k),
             NEW z \in D, m[z] < n, m[z] < k
      PROVE  f[z] = g[z]
  <2> DEFINE I == {x \in D : m[x] < n /\ m[x] < k => f[x] = g[x]}
  <2>1. ASSUME NEW x \in D, \A y \in D : m[y] < m[x] => y \in I PROVE x \in I
    <3>1. SUFFICES ASSUME m[x] < n, m[x] < k PROVE f[x] = g[x]
      OBVIOUS
    <3>2. \A y \in D : m[y] < m[x] => f[y] = g[y]
      BY <2>1, <3>1
    <3>3. B[f][x] = B[g][x]
      BY <3>2
    <3> QED
      BY <3>1, <3>3
  <2>2. \A x \in D : x \in I
    <3> HIDE DEF I
    <3> QED
      BY <2>1, MeasureInduction
  <2> QED
    BY <2>2, <1>2
<1> DEFINE F == [n \in Nat |-> CHOOSE f : f \in Upto(n)]
           h == [x \in D |-> F[m[x] + 1][x]]
<1>3. \A n \in Nat : F[n] \in Upto(n)
  <2> HIDE DEF Upto
  <2> QED
    BY <1>1
<1>4. \A n \in Nat : F[n] \in [D -> R] /\ \A x \in D : m[x] < n => B[F[n]][x] = F[n][x]
  <2> HIDE DEF F
  <2> QED
    BY <1>3
<1> HIDE DEF F, Upto
<1>5. h \in [D -> R]
  BY <1>4
<1>6. ASSUME NEW x \in D PROVE B[h][x] = h[x]
  <2>1. m[x] + 1 \in Nat /\ F[m[x] + 1] \in [D -> R] /\ F[m[x] + 1] \in Upto(m[x] + 1)
    BY <1>3, <1>4
  <2>2. ASSUME NEW y \in D, m[y] < m[x] PROVE h[y] = F[m[x] + 1][y]
    <3>1. m[y] + 1 \in Nat /\ F[m[y] + 1] \in Upto(m[y] + 1) /\ m[y] < m[y] + 1 /\ m[y] < m[x] + 1
      BY <1>3, <2>2
    <3> QED
      BY <3>1, <2>1, <1>2
  <2>3. B[h][x] = B[F[m[x] + 1]][x]
    <3> HIDE DEF h
    <3> QED
      BY <2>1, <2>2, <1>5
  <2> QED
    BY <2>3, <1>4, <2>1
<1>7. B[h] \in [D -> R]
  <2> HIDE DEF h
  <2> QED
    BY <1>5
<1> HIDE DEF h
<1> QED
  BY <1>5, <1>6, <1>7 DEF Recurs
-----------------------------------------------------------------------------
(***************************************************************************)
(* The search for the class of an item.                                    *)
(***************************************************************************)
Ranges == Nat \X Nat

\* One round of the loop of slab_id, with f for the rounds that follow.
SearchRound(p, n, f, range) ==
    LET imin == range[1]
        imax == range[2]
        id == (imin + imax) \div 2
    IN  IF imax < imin THEN SLABCLASS_INVALID_ID
        ELSE IF n > p[id] THEN f[<<id + 1, imax>>]
        ELSE IF id > SLABCLASS_MIN_ID /\ n <= p[id - 1]
             THEN f[<<imin, id - 1>>]
        ELSE id

Search(p, n) == CHOOSE f : f = [range \in Ranges |-> SearchRound(p, n, f, range)]

\* The loop of slab_id ends: every round leaves a smaller range.
LEMMA SearchEnds ==
    ASSUME NEW p, NEW n
    PROVE  /\ \A a, b \in Nat : Search(p, n)[<<a, b>>] = SearchRound(p, n, Search(p, n), <<a, b>>)
           /\ slab_id(p, n) = Search(p, n)[<<SLABCLASS_MIN_ID, Len(p)>>]
<1> DEFINE m == [r \in Ranges |-> IF r[2] < r[1] THEN 0 ELSE r[2] - r[1] + 1]
           B == [f \in [Ranges -> Nat] |-> [r \in Ranges |-> SearchRound(p, n, f, r)]]
<1>1. m \in [Ranges -> Nat]
  BY DEF Ranges
<1>2. ASSUME NEW f \in [Ranges -> Nat], NEW r \in Ranges
      PROVE  SearchRound(p, n, f, r) \in Nat
  <2>1. PICK a \in Nat, b \in Nat : r = <<a, b>>
    BY DEF Ranges
  <2>2. (a + b) \div 2 \in Nat /\ (a + b) \div 2 + 1 \in Nat
    OBVIOUS
  <2>3. (a + b) \div 2 > 1 => (a + b) \div 2 - 1 \in Nat
    BY <2>2
  <2>4. SLABCLASS_INVALID_ID \in Nat
    BY ProfileAssumption DEF SLABCLASS_INVALID_ID
  <2> QED
    BY <2>1, <2>2, <2>3, <2>4 DEF SearchRound, Ranges, SLABCLASS_MIN_ID
<1>3. B \in [[Ranges -> Nat] -> [Ranges -> Nat]]
  BY <1>2
<1>4. ASSUME NEW f \in [Ranges -> Nat], NEW g \in [Ranges -> Nat], NEW r \in Ranges,
             \A y \in Ranges : m[y] < m[r] => f[y] = g[y]
      PROVE  SearchRound(p, n, f, r) = SearchRound(p, n, g, r)
  <2>1. PICK a \in Nat, b \in Nat : r = <<a, b>>
    BY DEF Ranges
  <2> DEFINE id == (a + b) \div 2
  <2>2. id \in Nat /\ id + 1 \in Nat /\ (a <= b => a <= id /\ id <= b)
    OBVIOUS
  <2>3. id > 1 => id - 1 \in Nat
    BY <2>2
  <2>4. m[r] = IF b < a THEN 0 ELSE b - a + 1
    BY <2>1 DEF Ranges
  <2>5. ASSUME a <= b PROVE f[<<id + 1, b>>] = g[<<id + 1, b>>]
    <3>1. <<id + 1, b>> \in Ranges
      BY <2>2 DEF Ranges
    <3>2. m[<<id + 1, b>>] = IF b < id + 1 THEN 0 ELSE b - (id + 1) + 1
      BY <3>1
    <3> HIDE DEF id, m
    <3>3. m[<<id + 1, b>>] < m[r]
      BY <2>5, <2>2, <2>4, <3>2
    <3> QED
      BY <3>1, <3>3, <1>4
  <2>6. ASSUME a <= b, id > 1 PROVE f[<<a, id - 1>>] = g[<<a, id - 1>>]
    <3>1. <<a, id - 1>> \in Ranges
      BY <2>3, <2>6 DEF Ranges
    <3>2. m[<<a, id - 1>>] = IF id - 1 < a THEN 0 ELSE (id - 1) - a + 1
      BY <3>1
    <3> HIDE DEF id, m
    <3>3. m[<<a, id - 1>>] < m[r]
      BY <2>6, <2>2, <2>4, <3>2
    <3> QED
      BY <3>1, <3>3, <1>4
  <2>7. r[1] = a /\ r[2] = b
    BY <2>1
  <2> QED
    BY <2>5, <2>6, <2>7 DEF SearchRound, SLABCLASS_MIN_ID
<1>5. [Ranges -> Nat] # {}
  <2>1. [r \in Ranges |-> 0] \in [Ranges -> Nat]
    OBVIOUS
  <2> QED
    BY <2>1
<1>6. Descends(Ranges, Nat, m, B)
  BY <1>1, <1>3, <1>4, <1>5 DEF Descends
<1>7. Recurs(Ranges, Nat, B)
  BY <1>6, Recursion
<1>8. \E f : f = [range \in Ranges |-> SearchRound(p, n, f, range)]
  BY <1>7 DEF Recurs
<1>9. Search(p, n) = [range \in Ranges |-> SearchRound(p, n, Search(p, n), range)]
  BY <1>8 DEF Search
<1>10. \A r \in Ranges : Search(p, n)[r] = SearchRound(p, n, Search(p, n), r)
  BY <1>9, Zenon
<1>11. slab_id(p, n) = Search(p, n)[<<SLABCLASS_MIN_ID, Len(p)>>]
  BY DEF slab_id, Search, SearchRound, Ranges
<1> QED
  BY <1>10, <1>11 DEF Ranges

\* A profile ascends, not only from one class to the next.
LEMMA AscendingAll ==
    ASSUME NEW p \in Seq(Nat), Ascending(p), NEW j \in 1..Len(p)
    PROVE  \A i \in 1..j : p[i] <= p[j]
<1> DEFINE I == {k \in Nat : k \in 1..Len(p) => \A i \in 1..k : p[i] <= p[k]}
<1>1. 0 \in I
  OBVIOUS
<1>2. ASSUME NEW k \in Nat, k \in I PROVE k + 1 \in I
  <2>1. SUFFICES ASSUME k + 1 \in 1..Len(p), NEW i \in 1..(k + 1) PROVE p[i] <= p[k + 1]
    OBVIOUS
  <2>2. CASE i = k + 1
    <3>1. p[k + 1] \in Nat
      BY <2>1
    <3> QED
      BY <2>2, <3>1
  <2>3. CASE i # k + 1
    <3>1. i \in 1..k /\ k \in 1..Len(p) /\ k + 1 \in 2..Len(p) /\ (k + 1) - 1 = k
      BY <2>1, <2>3
    <3>2. p[i] <= p[k] /\ p[k] < p[k + 1]
      BY <3>1, <1>2 DEF Ascending
    <3>3. p[i] \in Nat /\ p[k] \in Nat /\ p[k + 1] \in Nat
      BY <3>1, <2>1
    <3> QED
      BY <3>2, <3>3
  <2> QED
    BY <2>2, <2>3
<1>3. \A k \in Nat : k \in I
  <2> HIDE DEF I
  <2> QED
    BY <1>1, <1>2, SetInduction
<1> QED
  BY <1>3

\* The least class with items of n bytes or more, or none.
LeastFit(p, n, id) ==
    LET fit == {k \in DOMAIN p : n <= p[k]}
    IN  IF fit = {} THEN id = SLABCLASS_INVALID_ID
        ELSE id \in fit /\ \A other \in fit : id <= other

\* The ranges the search gets to: everything below is too small, and unless
\* nothing was excluded above, the upper end is large enough.
Sought(p, n, a, b) ==
    /\ a \in Nat \ {0} /\ b \in 0..Len(p)
    /\ \A k \in 1..Len(p) : k < a => n > p[k]
    /\ b = Len(p) \/ (b > 0 /\ n <= p[b])

\* slab_id finds the smallest class an item fits in, for every profile.
LEMMA SearchFinds ==
    ASSUME NEW p \in Seq(Nat), Ascending(p), NEW n \in Nat
    PROVE  LeastFit(p, n, slab_id(p, n))
<1> DEFINE S == Search(p, n)
           m == [r \in Ranges |-> IF r[2] < r[1] THEN 0 ELSE r[2] - r[1] + 1]
           I == {r \in Ranges : Sought(p, n, r[1], r[2]) => LeastFit(p, n, S[r])}
<1>1. m \in [Ranges -> Nat]
  BY DEF Ranges
<1>2. DOMAIN p = 1..Len(p) /\ Len(p) \in Nat
  OBVIOUS
<1>3. ASSUME NEW r \in Ranges, \A y \in Ranges : m[y] < m[r] => y \in I
      PROVE  r \in I
  <2>1. PICK a \in Nat, b \in Nat : r = <<a, b>>
    BY DEF Ranges
  <2>2. SUFFICES ASSUME Sought(p, n, a, b) PROVE LeastFit(p, n, S[<<a, b>>])
    BY <2>1
  <2> DEFINE id == (a + b) \div 2
  <2>3. id \in Nat /\ (a <= b => a <= id /\ id <= b)
    OBVIOUS
  <2>4. S[<<a, b>>] = IF b < a THEN SLABCLASS_INVALID_ID
                      ELSE IF n > p[id] THEN S[<<id + 1, b>>]
                      ELSE IF id > SLABCLASS_MIN_ID /\ n <= p[id - 1] THEN S[<<a, id - 1>>]
                      ELSE id
    <3>1. S[<<a, b>>] = SearchRound(p, n, S, <<a, b>>)
      BY SearchEnds
    <3> HIDE DEF S
    <3> QED
      BY <3>1 DEF SearchRound
  <2>5. a > 0 /\ b \in 0..Len(p) /\ (\A k \in 1..Len(p) : k < a => n > p[k])
        /\ (b = Len(p) \/ (b > 0 /\ n <= p[b]))
    BY <2>2 DEF Sought
  <2>6. m[r] = IF b < a THEN 0 ELSE b - a + 1
    BY <2>1 DEF Ranges
  <2> HIDE DEF id, S
  <2>7. CASE b < a
    <3>1. \A k \in 1..Len(p) : p[k] \in Nat
      OBVIOUS
    <3>2. b = Len(p)
      BY <2>5, <2>7, <3>1
    <3>3. \A k \in DOMAIN p : ~(n <= p[k])
      BY <1>2, <2>5, <2>7, <3>1, <3>2
    <3> QED
      BY <2>4, <2>7, <3>3 DEF LeastFit
  <2>8. CASE a <= b /\ n > p[id]
    <3>1. id \in 1..Len(p) /\ p[id] \in Nat
      BY <2>3, <2>5, <2>8
    <3>2. \A k \in 1..Len(p) : k < id + 1 => n > p[k]
      <4>1. \A k \in 1..id : p[k] <= p[id] /\ p[k] \in Nat
        BY <3>1, AscendingAll
      <4> QED
        BY <4>1, <3>1, <2>8
    <3>3. Sought(p, n, id + 1, b)
      BY <3>1, <3>2, <2>5 DEF Sought
    <3>4. <<id + 1, b>> \in Ranges
      BY <3>1 DEF Ranges
    <3>5. m[<<id + 1, b>>] = IF b < id + 1 THEN 0 ELSE b - (id + 1) + 1
      BY <3>4
    <3>6. m[<<id + 1, b>>] < m[r]
      <4> HIDE DEF m
      <4> QED
        BY <3>5, <2>6, <2>3, <2>8
    <3>7. <<id + 1, b>> \in I
      <4> HIDE DEF m, I
      <4> QED
        BY <3>4, <3>6, <1>3
    <3>8. LeastFit(p, n, S[<<id + 1, b>>])
      BY <3>7, <3>3
    <3> QED
      BY <3>8, <2>4, <2>8
  <2>9. CASE a <= b /\ ~(n > p[id]) /\ id > SLABCLASS_MIN_ID /\ n <= p[id - 1]
    <3>1. id \in 2..Len(p) /\ id - 1 \in 1..Len(p)
      BY <2>3, <2>5, <2>9 DEF SLABCLASS_MIN_ID
    <3>2. Sought(p, n, a, id - 1)
      BY <3>1, <2>5, <2>9 DEF Sought
    <3>3. <<a, id - 1>> \in Ranges
      BY <3>1 DEF Ranges
    <3>4. m[<<a, id - 1>>] = IF id - 1 < a THEN 0 ELSE (id - 1) - a + 1
      BY <3>3
    <3>5. m[<<a, id - 1>>] < m[r]
      <4> HIDE DEF m
      <4> QED
        BY <3>4, <2>6, <2>3, <2>9
    <3>6. <<a, id - 1>> \in I
      <4> HIDE DEF m, I
      <4> QED
        BY <3>3, <3>5, <1>3
    <3>7. LeastFit(p, n, S[<<a, id - 1>>])
      BY <3>6, <3>2
    <3> QED
      BY <3>7, <2>4, <2>9
  <2>10. CASE a <= b /\ ~(n > p[id]) /\ ~(id > SLABCLASS_MIN_ID /\ n <= p[id - 1])
    <3>1. id \in 1..Len(p) /\ p[id] \in Nat /\ n <= p[id]
      BY <2>3, <2>5, <2>10
    <3>2. ASSUME NEW k \in 1..Len(p), n <= p[k], k < id PROVE FALSE
      <4>1. id - 1 \in 1..Len(p) /\ k \in 1..(id - 1) /\ id > SLABCLASS_MIN_ID
        BY <3>1, <3>2 DEF SLABCLASS_MIN_ID
      <4>2. p[k] <= p[id - 1] /\ p[k] \in Nat /\ p[id - 1] \in Nat
        BY <4>1, AscendingAll
      <4> QED
        BY <4>1, <4>2, <3>2, <2>10
    <3>3. \A k \in 1..Len(p) : n <= p[k] => id <= k
      BY <3>1, <3>2
    <3>4. S[<<a, b>>] = id
      BY <2>4, <2>10
    <3>5. LeastFit(p, n, id)
      BY <3>1, <3>3, <1>2 DEF LeastFit
    <3> QED
      BY <3>4, <3>5
  <2> QED
    BY <2>3, <2>7, <2>8, <2>9, <2>10
<1>4. \A r \in Ranges : r \in I
  <2> HIDE DEF I, m
  <2> QED
    BY <1>1, <1>3, MeasureInduction
<1>5. <<SLABCLASS_MIN_ID, Len(p)>> \in Ranges
  BY <1>2 DEF Ranges, SLABCLASS_MIN_ID
<1>6. Sought(p, n, SLABCLASS_MIN_ID, Len(p))
  BY <1>2 DEF Sought, SLABCLASS_MIN_ID
<1>7. LeastFit(p, n, S[<<SLABCLASS_MIN_ID, Len(p)>>])
  BY <1>4, <1>5, <1>6
<1> QED
  BY <1>7, SearchEnds

-----------------------------------------------------------------------------
(***************************************************************************)
(* Numbers.                                                                *)
(***************************************************************************)

\* Quotient and remainder.
LEMMA DivFacts ==
    ASSUME NEW n \in Nat, NEW b \in Nat, b > 1
    PROVE  /\ n \div b \in Nat /\ n % b \in 0..(b - 1)
           /\ n = (n \div b) * b + (n % b)
           /\ n \div b <= n /\ (n > 0 => n \div b < n)
<1>1. n \div b \in Nat /\ n % b \in 0..(b - 1) /\ n = b * (n \div b) + (n % b)
  OBVIOUS
<1>2. ASSUME NEW q \in Nat, NEW r \in Nat, n = b * q + r
      PROVE  q <= n /\ (n > 0 => q < n) /\ n = q * b + r
  <2>1. b * q >= 2 * q
    OBVIOUS
  <2> QED
    BY <1>2, <2>1
<1> QED
  BY <1>1, <1>2

NumeralStep(f, n) == IF n < Base THEN <<n>> ELSE Append(f[n \div Base], n % Base)

Numeral == CHOOSE f : f = [n \in Nat |-> NumeralStep(f, n)]

\* snprintf prints one digit after another.
LEMMA NumeralEnds ==
    /\ \A n \in Nat : Numeral[n] = NumeralStep(Numeral, n)
    /\ \A n : snprintf(n) = Numeral[n]
    /\ \A n \in Nat : snprintf(n) \in Seq(Digit)
<1> DEFINE m == [n \in Nat |-> n]
           B == [f \in [Nat -> Seq(Digit)] |-> [n \in Nat |-> NumeralStep(f, n)]]
<1>1. m \in [Nat -> Nat]
  OBVIOUS
<1>2. Base \in Nat /\ Base > 1
  BY DataAssumption
<1>3. ASSUME NEW f, NEW n \in Nat, f[n \div Base] \in Seq(Digit)
      PROVE  NumeralStep(f, n) \in Seq(Digit)
  <2>1. CASE n < Base
    <3>1. n \in Digit
      BY <2>1, <1>2 DEF Digit
    <3>2. <<n>> \in Seq(Digit)
      BY <3>1
    <3> QED
      BY <3>2, <2>1 DEF NumeralStep
  <2>2. CASE ~(n < Base)
    <3>1. n % Base \in Digit
      BY <1>2, DivFacts DEF Digit
    <3>2. Append(f[n \div Base], n % Base) \in Seq(Digit)
      BY <1>3, <3>1
    <3> QED
      BY <3>2, <2>2 DEF NumeralStep
  <2> QED
    BY <2>1, <2>2
<1>4. \A n \in Nat : n \div Base \in Nat /\ (n > 0 => n \div Base < n)
  BY <1>2, DivFacts
<1>5. B \in [[Nat -> Seq(Digit)] -> [Nat -> Seq(Digit)]]
  BY <1>3, <1>4
<1>6. ASSUME NEW f \in [Nat -> Seq(Digit)], NEW g \in [Nat -> Seq(Digit)], NEW n \in Nat,
             \A y \in Nat : m[y] < m[n] => f[y] = g[y]
      PROVE  NumeralStep(f, n) = NumeralStep(g, n)
  <2>1. CASE n < Base
    BY <2>1 DEF NumeralStep
  <2>2. CASE ~(n < Base)
    <3>1. n > 0
      BY <2>2, <1>2
    <3>2. n \div Base \in Nat /\ n \div Base < n
      BY <3>1, <1>4
    <3>3. f[n \div Base] = g[n \div Base]
      BY <3>2, <1>6
    <3> QED
      BY <3>3, <2>2 DEF NumeralStep
  <2> QED
    BY <2>1, <2>2
<1>7. [Nat -> Seq(Digit)] # {}
  <2>1. << >> \in Seq(Digit)
    OBVIOUS
  <2>2. [n \in Nat |-> << >>] \in [Nat -> Seq(Digit)]
    BY <2>1
  <2> QED
    BY <2>2
<1>8. Descends(Nat, Seq(Digit), m, B)
  <2>1. ASSUME NEW f \in [Nat -> Seq(Digit)], NEW g \in [Nat -> Seq(Digit)], NEW n \in Nat,
               \A y \in Nat : m[y] < m[n] => f[y] = g[y]
        PROVE  B[f][n] = B[g][n]
    <3>1. B[f][n] = NumeralStep(f, n) /\ B[g][n] = NumeralStep(g, n)
      OBVIOUS
    <3> QED
      BY <3>1, <1>6, <2>1
  <2> HIDE DEF m, B
  <2> QED
    BY <1>1, <1>5, <1>7, <2>1 DEF Descends
<1>9. Recurs(Nat, Seq(Digit), B)
  BY <1>8, Recursion
<1>10. \E f : f = [n \in Nat |-> NumeralStep(f, n)]
  BY <1>9 DEF Recurs
<1>11. Numeral = [n \in Nat |-> NumeralStep(Numeral, n)]
  BY <1>10 DEF Numeral
<1>12. \A n \in Nat : Numeral[n] = NumeralStep(Numeral, n)
  BY <1>11, Zenon
<1>13. \A n : snprintf(n) = Numeral[n]
  BY DEF snprintf, Numeral, NumeralStep
<1> DEFINE I == {n \in Nat : Numeral[n] \in Seq(Digit)}
<1>14. ASSUME NEW n \in Nat, \A y \in Nat : m[y] < m[n] => y \in I PROVE n \in I
  <2>1. CASE n < Base
    <3>1. Numeral[n] = <<n>>
      BY <2>1, <1>12 DEF NumeralStep
    <3>0. n \in Digit
      BY <2>1, <1>2 DEF Digit
    <3>2. <<n>> \in Seq(Digit)
      BY <3>0
    <3> QED
      BY <3>1, <3>2
  <2>2. CASE ~(n < Base)
    <3>1. n > 0
      BY <2>2, <1>2
    <3>2. n \div Base \in Nat /\ n \div Base < n
      BY <3>1, <1>4
    <3>3. Numeral[n \div Base] \in Seq(Digit)
      BY <3>2, <1>14
    <3> QED
      BY <3>3, <1>3, <1>12
  <2> QED
    BY <2>1, <2>2
<1>15. \A n \in Nat : n \in I
  <2> HIDE DEF I, m
  <2> QED
    BY <1>1, <1>14, MeasureInduction
<1> QED
  BY <1>12, <1>13, <1>15

ScanStep(str, f, s) ==
    LET i   == s[1]
        out == s[2]
    IN  IF i \in DOMAIN str /\ str[i] \in Digit
        THEN IF out >= UINT64_MAX \div Base THEN Invalid
             ELSE f[<<i + 1, out * Base + str[i]>>]
        ELSE IF i + mc_skip_space(str, i) > Len(str) THEN out ELSE Invalid

Scan(str) == CHOOSE f : f = [s \in Ranges |-> ScanStep(str, f, s)]

MaybeNat == Nat \cup {Invalid}

\* The loop of mc_strtoull_len ends, as the string does, with a number or without.
LEMMA ScanEnds ==
    ASSUME NEW Bs, NEW str \in Seq(Bs)
    PROVE  /\ \A i, out \in Nat : /\ Scan(str)[<<i, out>>] = ScanStep(str, Scan(str), <<i, out>>)
                                  /\ Scan(str)[<<i, out>>] \in MaybeNat
           /\ mc_strtoull_len(str) = Scan(str)[<<1 + mc_skip_space(str, 1), 0>>]
<1> DEFINE m == [s \in Ranges |-> IF s[1] > Len(str) THEN 0 ELSE Len(str) + 1 - s[1]]
           B == [f \in [Ranges -> MaybeNat] |-> [s \in Ranges |-> ScanStep(str, f, s)]]
<1>1. Len(str) \in Nat /\ DOMAIN str = 1..Len(str)
  OBVIOUS
<1>2. m \in [Ranges -> Nat]
  BY <1>1 DEF Ranges
<1>3. Base \in Nat /\ Base > 1
  BY DataAssumption
<1>4. ASSUME NEW i \in Nat, NEW out \in Nat, i \in DOMAIN str, str[i] \in Digit
      PROVE  <<i + 1, out * Base + str[i]>> \in Ranges /\ m[<<i + 1, out * Base + str[i]>>] < m[<<i, out>>]
  <2>1. str[i] \in Nat /\ out * Base \in Nat
    BY <1>3, <1>4 DEF Digit
  <2>2. <<i + 1, out * Base + str[i]>> \in Ranges
    BY <2>1 DEF Ranges
  <2>3. <<i, out>> \in Ranges
    BY DEF Ranges
  <2> QED
    BY <2>2, <2>3, <1>1, <1>4
<1>5. ASSUME NEW f \in [Ranges -> MaybeNat], NEW s \in Ranges
      PROVE  ScanStep(str, f, s) \in MaybeNat
  <2>1. PICK i \in Nat, out \in Nat : s = <<i, out>>
    BY DEF Ranges
  <2>2. s[1] = i /\ s[2] = out
    BY <2>1
  <2> QED
    BY <2>2, <1>4 DEF ScanStep, MaybeNat
<1>6. B \in [[Ranges -> MaybeNat] -> [Ranges -> MaybeNat]]
  BY <1>5
<1>7. ASSUME NEW f \in [Ranges -> MaybeNat], NEW g \in [Ranges -> MaybeNat], NEW s \in Ranges,
             \A y \in Ranges : m[y] < m[s] => f[y] = g[y]
      PROVE  ScanStep(str, f, s) = ScanStep(str, g, s)
  <2>1. PICK i \in Nat, out \in Nat : s = <<i, out>>
    BY DEF Ranges
  <2>2. s[1] = i /\ s[2] = out
    BY <2>1
  <2>3. ASSUME i \in DOMAIN str, str[i] \in Digit
        PROVE  f[<<i + 1, out * Base + str[i]>>] = g[<<i + 1, out * Base + str[i]>>]
    <3> HIDE DEF m
    <3> QED
      BY <2>1, <2>3, <1>4, <1>7
  <2> QED
    BY <2>2, <2>3 DEF ScanStep
<1>8. [Ranges -> MaybeNat] # {}
  <2>1. [s \in Ranges |-> 0] \in [Ranges -> MaybeNat]
    BY DEF MaybeNat
  <2> QED
    BY <2>1
<1>9. Descends(Ranges, MaybeNat, m, B)
  BY <1>2, <1>6, <1>7, <1>8 DEF Descends
<1>10. Recurs(Ranges, MaybeNat, B)
  BY <1>9, Recursion
<1>11. \E f : f = [s \in Ranges |-> ScanStep(str, f, s)]
  BY <1>10 DEF Recurs
<1>12. Scan(str) = [s \in Ranges |-> ScanStep(str, Scan(str), s)]
  BY <1>11 DEF Scan
<1>13. \A s \in Ranges : Scan(str)[s] = ScanStep(str, Scan(str), s)
  BY <1>12, Zenon
<1>14. mc_strtoull_len(str) = Scan(str)[<<1 + mc_skip_space(str, 1), 0>>]
  BY DEF mc_strtoull_len, Scan, ScanStep, Ranges
<1> DEFINE I == {s \in Ranges : Scan(str)[s] \in MaybeNat}
<1>15. ASSUME NEW s \in Ranges, \A y \in Ranges : m[y] < m[s] => y \in I PROVE s \in I
  <2>1. PICK i \in Nat, out \in Nat : s = <<i, out>>
    BY DEF Ranges
  <2>2. s[1] = i /\ s[2] = out
    BY <2>1
  <2>3. ASSUME i \in DOMAIN str, str[i] \in Digit
        PROVE  Scan(str)[<<i + 1, out * Base + str[i]>>] \in MaybeNat
    <3> HIDE DEF m
    <3> QED
      BY <2>1, <2>3, <1>4, <1>15
  <2>4. ScanStep(str, Scan(str), s) \in MaybeNat
    BY <2>2, <2>3 DEF ScanStep, MaybeNat
  <2> QED
    BY <2>4, <1>13
<1>16. \A s \in Ranges : s \in I
  <2> HIDE DEF I, m
  <2> QED
    BY <1>2, <1>15, MeasureInduction
<1> QED
  BY <1>13, <1>14, <1>16 DEF Ranges

\* The white space that is skipped ends.
LEMMA SkipFacts ==
    ASSUME NEW Bs, NEW str \in Seq(Bs), NEW i \in Nat
    PROVE  /\ mc_skip_space(str, i) \in 0..Len(str)
           /\ \A j \in i..(i + mc_skip_space(str, i) - 1) : j \in DOMAIN str /\ str[j] = Space
           /\ \/ i + mc_skip_space(str, i) \notin DOMAIN str
              \/ str[i + mc_skip_space(str, i)] # Space
<1> DEFINE End == {n \in Nat : i + n \notin DOMAIN str \/ str[i + n] # Space}
<1>1. Len(str) \in Nat /\ DOMAIN str = 1..Len(str)
  OBVIOUS
<1>2. \E n \in End : n <= Len(str)
  <2>1. CASE i = 0 \/ i > Len(str)
    <3>1. 0 \in End
      BY <2>1, <1>1
    <3> QED
      BY <3>1, <1>1
  <2>2. CASE i \in 1..Len(str)
    <3>1. Len(str) + 1 - i \in Nat /\ i + (Len(str) + 1 - i) \notin DOMAIN str
      BY <2>2, <1>1
    <3>2. Len(str) + 1 - i \in End /\ Len(str) + 1 - i <= Len(str)
      BY <3>1, <2>2, <1>1
    <3> QED
      BY <3>2
  <2> QED
    BY <2>1, <2>2, <1>1
<1>3. PICK n \in End : \A k \in End : n <= k
  BY <1>2, LeastElement
<1>4. n \in 0..Len(str)
  BY <1>1, <1>2, <1>3
<1>5. ASSUME NEW j \in i..(i + n - 1) PROVE j \in DOMAIN str /\ str[j] = Space
  <2>1. j - i \in Nat /\ j - i < n /\ i + (j - i) = j
    BY <1>4
  <2>2. j - i \notin End
    BY <2>1, <1>3
  <2> QED
    BY <2>1, <2>2
<1>6. \E k \in 0..Len(str) : /\ \A j \in i..(i + k - 1) : j \in DOMAIN str /\ str[j] = Space
                             /\ i + k \notin DOMAIN str \/ str[i + k] # Space
  BY <1>3, <1>4, <1>5
<1> QED
  BY <1>6 DEF mc_skip_space

\* A digit more, after the test for overflow.
LEMMA DigitFits ==
    ASSUME NEW out \in Nat, NEW d \in Digit, out < UINT64_MAX \div Base
    PROVE  out * Base + d \in 0..UINT64_MAX
<1>1. Base \in Nat /\ Base > 1 /\ UINT64_MAX \in Nat
  BY DataAssumption
<1>2. /\ UINT64_MAX \div Base \in Nat /\ UINT64_MAX % Base \in 0..(Base - 1)
      /\ UINT64_MAX = (UINT64_MAX \div Base) * Base + (UINT64_MAX % Base)
  BY <1>1, DivFacts
<1>3. d \in Nat /\ d < Base
  BY <1>1 DEF Digit
<1>4. ASSUME NEW q \in Nat, NEW b \in Nat, out < q
      PROVE  out * b + b <= q * b /\ out * b \in Nat /\ q * b \in Nat
  <2>1. PICK k \in Nat : q = out + 1 + k
    <3>1. q - out - 1 \in Nat /\ q = out + 1 + (q - out - 1)
      BY <1>4
    <3> QED
      BY <3>1
  <2>2. q * b = out * b + b + k * b /\ k * b \in Nat /\ out * b \in Nat
    BY <2>1
  <2> QED
    BY <2>2
<1>5. out * Base + Base <= (UINT64_MAX \div Base) * Base /\ out * Base \in Nat
      /\ (UINT64_MAX \div Base) * Base \in Nat
  BY <1>1, <1>2, <1>4
<1> QED
  BY <1>1, <1>2, <1>3, <1>5

\* What mc_strtoull_len reads is at most UINT64_MAX: the range is checked before
\* the digit that could leave it is added.
LEMMA ScanBound ==
    ASSUME NEW Bs, NEW str \in Seq(Bs)
    PROVE  mc_strtoull_len(str) \in (0..UINT64_MAX) \cup {Invalid}
<1> DEFINE m == [s \in Ranges |-> IF s[1] > Len(str) THEN 0 ELSE Len(str) + 1 - s[1]]
           I == {s \in Ranges : s[2] <= UINT64_MAX =>
                                   Scan(str)[s] \in (0..UINT64_MAX) \cup {Invalid}}
<1>1. Len(str) \in Nat /\ DOMAIN str = 1..Len(str)
  OBVIOUS
<1>2. m \in [Ranges -> Nat]
  BY <1>1 DEF Ranges
<1>3. Base \in Nat /\ Base > 1 /\ UINT64_MAX \in Nat
  BY DataAssumption
<1>4. ASSUME NEW s \in Ranges, \A y \in Ranges : m[y] < m[s] => y \in I PROVE s \in I
  <2>1. PICK i \in Nat, out \in Nat : s = <<i, out>>
    BY DEF Ranges
  <2>2. s[1] = i /\ s[2] = out
    BY <2>1
  <2>3. SUFFICES ASSUME out <= UINT64_MAX
                 PROVE  Scan(str)[s] \in (0..UINT64_MAX) \cup {Invalid}
    BY <2>2
  <2>4. Scan(str)[s] = ScanStep(str, Scan(str), s)
    BY <2>1, ScanEnds
  <2>5. out \in 0..UINT64_MAX
    BY <2>3, <1>3
  <2>6. ASSUME i \in DOMAIN str, str[i] \in Digit, ~(out >= UINT64_MAX \div Base)
        PROVE  Scan(str)[<<i + 1, out * Base + str[i]>>] \in (0..UINT64_MAX) \cup {Invalid}
    <3> DEFINE next == out * Base + str[i]
               y == <<i + 1, next>>
    <3>0. UINT64_MAX \div Base \in Nat
      BY <1>3, DivFacts
    <3>1. out < UINT64_MAX \div Base
      BY <2>6, <3>0
    <3>2. next \in 0..UINT64_MAX
      BY <3>1, <2>6, DigitFits
    <3> HIDE DEF next
    <3>3. next \in Nat /\ next <= UINT64_MAX
      BY <3>2, <1>3
    <3>4. y \in Ranges /\ y[1] = i + 1 /\ y[2] = next
      BY <3>3 DEF Ranges
    <3>5. m[y] < m[s]
      BY <3>4, <2>2, <2>6, <1>1
    <3>6. y \in I
      <4> HIDE DEF m, I
      <4> QED
        BY <3>4, <3>5, <1>4
    <3>7. Scan(str)[y] \in (0..UINT64_MAX) \cup {Invalid}
      BY <3>3, <3>4, <3>6
    <3> QED
      BY <3>7 DEF next
  <2>7. ScanStep(str, Scan(str), s) \in (0..UINT64_MAX) \cup {Invalid}
    BY <2>2, <2>5, <2>6 DEF ScanStep
  <2> QED
    BY <2>4, <2>7
<1>5. \A s \in Ranges : s \in I
  <2> HIDE DEF I, m
  <2> QED
    BY <1>2, <1>4, MeasureInduction
<1>6. 1 + mc_skip_space(str, 1) \in Nat
  <2>1. mc_skip_space(str, 1) \in 0..Len(str)
    BY SkipFacts
  <2> QED
    BY <2>1, <1>1
<1> DEFINE s0 == <<1 + mc_skip_space(str, 1), 0>>
<1>7. s0 \in Ranges /\ s0[2] = 0
  BY <1>6 DEF Ranges
<1>8. Scan(str)[s0] \in (0..UINT64_MAX) \cup {Invalid}
  BY <1>3, <1>5, <1>7
<1> QED
  BY <1>8, ScanEnds

\* What incr and decr print.
LEMMA ChangedFacts ==
    ASSUME NEW v \in Seq(Byte), NEW incr \in BOOLEAN, NEW d \in Delta
    PROVE  /\ Changed(v, incr, d) \in Seq(Byte)
           /\ Readable(v) => item_slabid(Len(Changed(v, incr, d))) # SLABCLASS_INVALID_ID
<1>1. Base \in Nat /\ Base > 1 /\ UINT64_MAX \in Nat /\ d \in 0..UINT64_MAX
  BY DataAssumption
<1>2. CASE Readable(v)
  <2> DEFINE old == mc_strtoull_len(v)
             new == apply_delta(old, incr, d)
  <2>1. old \in 0..UINT64_MAX
    BY <1>2, ScanBound DEF Readable
  <2> HIDE DEF old
  <2>2. new \in 0..UINT64_MAX
    <3>1. CASE incr
      <4>1. old + d \in Nat /\ UINT64_MAX + 1 \in Nat /\ UINT64_MAX + 1 > 0
        BY <2>1, <1>1
      <4>2. (old + d) % (UINT64_MAX + 1) \in 0..UINT64_MAX
        BY <4>1, <1>1
      <4> QED
        BY <3>1, <4>2 DEF apply_delta
    <3>2. CASE ~incr
      BY <3>2, <2>1, <1>1 DEF apply_delta
    <3> QED
      BY <3>1, <3>2
  <2> HIDE DEF new
  <2>3. Changed(v, incr, d) = snprintf(new)
    BY <1>2 DEF Changed, new, old
  <2>4. snprintf(new) \in Seq(Digit)
    BY <2>2, <1>1, NumeralEnds
  <2>5. snprintf(new) \in Seq(Byte)
    BY <2>4 DEF Byte
  <2> QED
    BY <2>2, <2>3, <2>5, NumberAssumption
<1>3. CASE ~Readable(v)
  BY <1>3 DEF Changed
<1> QED
  BY <1>2, <1>3

-----------------------------------------------------------------------------
(***************************************************************************)
(* The inductive invariant.                                                *)
(***************************************************************************)

\* An item in use: its header and key are intact, and it has room for its value
\* and the terminator.
Good(it) ==
    /\ it \in [id : DOMAIN profile, nbyte : Nat, raligned : BOOLEAN, chunk : Seq(Byte),
               want : Seq(Byte), shrunk : BOOLEAN]
    /\ it.chunk \in [1..profile[it.id] -> Byte]
    /\ \A p \in 1..HDR_LEN : it.chunk[p] = Key
    /\ HDR_LEN + it.nbyte + CRLF_LEN <= profile[it.id]

\* The number that incr or decr writes is where the old one is.
Overwritten(w, i) == w.item = i /\ w.delta

Items ==
    /\ item = [i \in Item |-> item[i]]
    /\ \A i \in Item :
          item[i] # Blank =>
              /\ Good(item[i])
              /\ ~item[i].shrunk /\ ~Overwritten(wr, i) => Stored(item[i]) = item[i].want
    /\ hash \in Item \cup {NoItem}
    /\ hash # NoItem => item[hash] # Blank

\* A change in place: the new value is written, in an item with room for it,
\* and when something is added the old value is part of it.
InPlace(it, w) ==
    LET new == item_data([it EXCEPT !.nbyte = w.nbyte])
    IN  /\ HDR_LEN + w.nbyte + CRLF_LEN <= profile[it.id]
        /\ ~w.shrunk => Bytes(it, new, w.nbyte) = w.want
        /\ ~w.delta => /\ w.shrunk = it.shrunk
                       /\ new <= item_data(it)
                       /\ item_data(it) + it.nbyte <= new + w.nbyte

Writing ==
    ~Unlocked =>
        /\ wr \in [item : Item, nbyte : Nat, want : Seq(Byte), shrunk : BOOLEAN, delta : BOOLEAN]
        /\ wr.item = hash
        /\ InPlace(item[hash], wr)

\* What a reader is to send is still in the item, within its value.
Reading(x, it) ==
    /\ ~x.wrong
    /\ x.nbyte = Len(x.due)
    /\ item_data(it) <= x.pos
    /\ x.pos + x.nbyte <= item_data(it) + it.nbyte
    /\ Bytes(it, x.pos, x.nbyte) = x.due

\* A reader, by where it is; it is its item and w the change in place.
ReaderType ==
    [at : {"idle", "nbyte", "data", "send"}, item : Item \cup {NoItem}, nbyte : Nat,
     pos : Int, sent : Nat, due : Seq(Byte), wrong : BOOLEAN, excused : BOOLEAN]

ReaderOK(x, it, w) ==
    /\ x.at = "idle" => x = NoRead
    /\ x.at # "idle" => x.item # NoItem /\ it # Blank
    /\ x.at = "nbyte" => x = [NoRead EXCEPT !.at = "nbyte", !.item = x.item]
    /\ x.at \in {"data", "send"} /\ ~x.excused => Reading(x, it) /\ ~Overwritten(w, x.item)

Readers ==
    /\ rd \in [Reader -> ReaderType]
    /\ \A r \in Reader : ReaderOK(rd[r], item[rd[r].item], wr)

DataInv == Items /\ Writing /\ Readers

-----------------------------------------------------------------------------
(***************************************************************************)
(* The bytes of an item.                                                   *)
(***************************************************************************)

\* The constants.
LEMMA DataFacts ==
    /\ NoItem \notin Item
    /\ HDR_LEN \in Nat /\ HDR_LEN > 0 /\ CRLF_LEN \in Nat
    /\ DOMAIN profile = 1..Len(profile) /\ Len(profile) \in Nat
    /\ \A id \in DOMAIN profile : profile[id] \in Nat
    /\ 0 \notin DOMAIN profile /\ SLABCLASS_INVALID_ID \notin DOMAIN profile
    /\ Junk \in Byte /\ Key \in Byte /\ Digit \subseteq Byte
<1>1. profile \in Seq(Nat) /\ Len(profile) \in 1..SLABCLASS_MAX_ID
  BY DataAssumption
<1>2. DOMAIN profile = 1..Len(profile) /\ Len(profile) \in Nat
  BY <1>1
<1>3. \A id \in DOMAIN profile : profile[id] \in Nat
  BY <1>1, <1>2
<1>4. SLABCLASS_MAX_ID \in Nat
  BY ProfileAssumption
<1>5. 0 \notin DOMAIN profile /\ SLABCLASS_INVALID_ID \notin DOMAIN profile
  BY <1>1, <1>2, <1>4 DEF SLABCLASS_INVALID_ID
<1> QED
  BY <1>2, <1>3, <1>5, DataAssumption DEF Byte

\* The class of a value has room for it, and is no larger than another that has.
LEMMA ClassFits ==
    ASSUME NEW n \in Nat
    PROVE  /\ item_slabid(n) # SLABCLASS_INVALID_ID =>
                 /\ item_slabid(n) \in DOMAIN profile
                 /\ HDR_LEN + n + CRLF_LEN <= profile[item_slabid(n)]
           /\ \A id \in DOMAIN profile :
                 HDR_LEN + n + CRLF_LEN <= profile[id] => item_slabid(n) <= id
<1>1. HDR_LEN + n + CRLF_LEN \in Nat
  BY DataFacts
<1>2. LeastFit(profile, HDR_LEN + n + CRLF_LEN, item_slabid(n))
  BY <1>1, DataAssumption, SearchFinds DEF item_slabid
<1> QED
  BY <1>2, DataFacts DEF LeastFit

\* The chunk of an item of c bytes, and the run s of n of them at pos.
Chunk(it, c) == c \in Nat /\ it.chunk \in [1..c -> Byte]

Run(s, it, c, pos, n) ==
    /\ s \in Seq(Byte) /\ Len(s) = n
    /\ \A i \in 1..n : s[i] = IF pos + i - 1 \in 1..c THEN it.chunk[pos + i - 1] ELSE Junk

LEMMA BytesFacts ==
    ASSUME NEW it, NEW c, Chunk(it, c), NEW pos \in Int, NEW n \in Nat
    PROVE  Run(Bytes(it, pos, n), it, c, pos, n)
<1>1. DOMAIN it.chunk = 1..c
  BY DEF Chunk
<1>2. \A i \in 1..n : Bytes(it, pos, n)[i] =
          IF pos + i - 1 \in 1..c THEN it.chunk[pos + i - 1] ELSE Junk
  BY <1>1 DEF Bytes
<1>3. Bytes(it, pos, n) \in [1..n -> Byte]
  BY <1>1, DataFacts DEF Bytes, Chunk
<1>4. Bytes(it, pos, n) \in Seq(Byte)
  BY <1>3
<1>5. Len(Bytes(it, pos, n)) = n
  BY <1>3, <1>4, LenProperties
<1> QED
  BY <1>2, <1>4, <1>5 DEF Run

\* Two runs of bytes are equal if the chunks are equal there.
LEMMA BytesEqual ==
    ASSUME NEW it, NEW it2, NEW c, Chunk(it, c), Chunk(it2, c), NEW pos \in Int, NEW n \in Nat,
           \A p \in pos..(pos + n - 1) : p \in 1..c => it2.chunk[p] = it.chunk[p]
    PROVE  Bytes(it2, pos, n) = Bytes(it, pos, n)
<1>1. \A i \in 1..n : pos + i - 1 \in pos..(pos + n - 1)
  OBVIOUS
<1> DEFINE a == Bytes(it, pos, n)
           b == Bytes(it2, pos, n)
<1>2. Run(a, it, c, pos, n) /\ Run(b, it2, c, pos, n)
  BY BytesFacts
<1> HIDE DEF a, b
<1>3. \A i \in 1..n : a[i] = b[i]
  BY <1>1, <1>2 DEF Run
<1>4. a = b
  BY <1>2, <1>3, SeqEqual DEF Run
<1> QED
  BY <1>4 DEF a, b

\* Part of a run.
LEMMA BytesPart ==
    ASSUME NEW it, NEW c, Chunk(it, c), NEW pos \in Int, NEW n \in Nat,
           NEW k \in Nat, NEW s \in Nat, s + k <= n
    PROVE  SubSeq(Bytes(it, pos, n), s + 1, s + k) = Bytes(it, pos + s, k)
<1> DEFINE b == Bytes(it, pos, n)
           d == Bytes(it, pos + s, k)
<1>0. pos + s \in Int
  OBVIOUS
<1>1. Run(b, it, c, pos, n) /\ Run(d, it, c, pos + s, k)
  BY <1>0, BytesFacts
<1> HIDE DEF b, d
<1>2. b \in Seq(Byte) /\ Len(b) = n /\ d \in Seq(Byte) /\ Len(d) = k
  BY <1>1 DEF Run
<1> DEFINE e == SubSeq(b, s + 1, s + k)
<1>3. e \in Seq(Byte) /\ Len(e) = k /\ \A i \in 1..k : e[i] = b[s + i]
  <2>1. \A i \in (s + 1)..(s + k) : i \in 1..Len(b)
    BY <1>2
  <2>2. e = [i \in 1..k |-> b[s + i]]
    BY <1>2
  <2>3. \A i \in 1..k : s + i \in 1..Len(b) /\ b[s + i] \in Byte
    BY <1>2
  <2>4. e \in [1..k -> Byte]
    BY <2>2, <2>3
  <2> HIDE DEF e
  <2>5. e \in Seq(Byte)
    BY <2>4
  <2> QED
    BY <2>2, <2>4, <2>5, LenProperties
<1>4. ASSUME NEW i \in 1..k PROVE e[i] = d[i]
  <2>1. s + i \in 1..n /\ pos + (s + i) - 1 = (pos + s) + i - 1
    OBVIOUS
  <2> HIDE DEF e
  <2> QED
    BY <2>1, <1>1, <1>3 DEF Run
<1> HIDE DEF e
<1>5. e = d
  BY <1>2, <1>3, <1>4, SeqEqual
<1> QED
  BY <1>5 DEF e, b, d

\* Runs that follow each other.
LEMMA BytesConcat ==
    ASSUME NEW it, NEW c, Chunk(it, c), NEW pos \in Int,
           NEW n \in Nat, NEW k \in Nat
    PROVE  Bytes(it, pos, n + k) = Bytes(it, pos, n) \o Bytes(it, pos + n, k)
<1> DEFINE a == Bytes(it, pos, n)
           b == Bytes(it, pos + n, k)
           d == Bytes(it, pos, n + k)
<1>0. n + k \in Nat /\ pos + n \in Int
  OBVIOUS
<1>1. Run(a, it, c, pos, n) /\ Run(b, it, c, pos + n, k) /\ Run(d, it, c, pos, n + k)
  BY <1>0, BytesFacts
<1> HIDE DEF a, b, d
<1>2. a \in Seq(Byte) /\ Len(a) = n /\ b \in Seq(Byte) /\ Len(b) = k
  BY <1>1 DEF Run
<1>3. d \in Seq(Byte) /\ Len(d) = n + k
  BY <1>1 DEF Run
<1> DEFINE e == a \o b
<1>4. e \in Seq(Byte) /\ Len(e) = n + k
      /\ \A i \in 1..(n + k) : e[i] = IF i <= n THEN a[i] ELSE b[i - n]
  BY <1>2
<1> HIDE DEF e
<1>5. ASSUME NEW i \in 1..(n + k) PROVE e[i] = d[i]
  <2>1. CASE i <= n
    <3>1. i \in 1..n
      BY <2>1
    <3> QED
      BY <3>1, <2>1, <1>1, <1>4 DEF Run
  <2>2. CASE ~(i <= n)
    <3>1. i - n \in 1..k /\ (pos + n) + (i - n) - 1 = pos + i - 1
      BY <2>2
    <3> QED
      BY <3>1, <2>2, <1>1, <1>4 DEF Run
  <2> QED
    BY <2>1, <2>2
<1>6. e = d
  BY <1>3, <1>4, <1>5, SeqEqual
<1> QED
  BY <1>6 DEF e, a, b, d

\* Bytes are written where they are to be and nowhere else.
LEMMA MemcpyFacts ==
    ASSUME NEW c \in Nat, NEW chunk \in [1..c -> Byte], NEW pos \in Int, NEW bytes \in Seq(Byte)
    PROVE  /\ memcpy(chunk, pos, bytes) \in [1..c -> Byte]
           /\ \A p \in 1..c : memcpy(chunk, pos, bytes)[p] =
                 IF p \in pos..(pos + Len(bytes) - 1) THEN bytes[p - pos + 1] ELSE chunk[p]
<1>1. DOMAIN chunk = 1..c
  OBVIOUS
<1>2. ASSUME NEW p \in 1..c, p \in pos..(pos + Len(bytes) - 1)
      PROVE  bytes[p - pos + 1] \in Byte
  <2>1. p - pos + 1 \in 1..Len(bytes)
    BY <1>2
  <2> QED
    BY <2>1
<1> QED
  BY <1>1, <1>2 DEF memcpy

\* The bytes of it2 are those of it, with some written over at pos.
Copied(it2, it, pos, bytes) == it2.chunk = memcpy(it.chunk, pos, bytes)

\* The bytes written are read back.
LEMMA BytesWritten ==
    ASSUME NEW it, NEW it2, NEW c, Chunk(it, c), NEW pos \in Int,
           NEW bytes \in Seq(Byte), pos >= 1, pos + Len(bytes) - 1 <= c,
           Copied(it2, it, pos, bytes)
    PROVE  Bytes(it2, pos, Len(bytes)) = bytes
<1>0. c \in Nat /\ it.chunk \in [1..c -> Byte] /\ Len(bytes) \in Nat
  BY DEF Chunk
<1> DEFINE new == memcpy(it.chunk, pos, bytes)
<1>1. /\ Chunk(it2, c)
      /\ \A p \in 1..c : it2.chunk[p] =
            IF p \in pos..(pos + Len(bytes) - 1) THEN bytes[p - pos + 1] ELSE it.chunk[p]
  <2>1. /\ new \in [1..c -> Byte]
        /\ \A p \in 1..c : new[p] =
              IF p \in pos..(pos + Len(bytes) - 1) THEN bytes[p - pos + 1] ELSE it.chunk[p]
    BY <1>0, MemcpyFacts
  <2> HIDE DEF new
  <2> QED
    BY <2>1, <1>0 DEF Chunk, Copied, new
<1> DEFINE d == Bytes(it2, pos, Len(bytes))
<1>2. Run(d, it2, c, pos, Len(bytes))
  <2> HIDE DEF new
  <2> QED
    BY <1>0, <1>1, BytesFacts
<1> HIDE DEF d
<1>3. ASSUME NEW i \in 1..Len(bytes) PROVE d[i] = bytes[i]
  <2>1. /\ pos + i - 1 \in 1..c /\ pos + i - 1 \in pos..(pos + Len(bytes) - 1)
        /\ (pos + i - 1) - pos + 1 = i
    BY <1>0
  <2> QED
    BY <2>1, <1>1, <1>2 DEF Run
<1>4. d = bytes
  BY <1>2, <1>3, SeqEqual DEF Run
<1> QED
  BY <1>4 DEF d

\* Bytes elsewhere stay as they are.
LEMMA BytesSpared ==
    ASSUME NEW it, NEW it2, NEW c, Chunk(it, c), NEW pos \in Int,
           NEW bytes \in Seq(Byte), Copied(it2, it, pos, bytes),
           NEW q \in Int, NEW n \in Nat, q + n <= pos \/ pos + Len(bytes) <= q
    PROVE  Bytes(it2, q, n) = Bytes(it, q, n)
<1>0. c \in Nat /\ it.chunk \in [1..c -> Byte] /\ Len(bytes) \in Nat
  BY DEF Chunk
<1> DEFINE new == memcpy(it.chunk, pos, bytes)
<1>1. /\ Chunk(it2, c)
      /\ \A p \in 1..c : it2.chunk[p] =
            IF p \in pos..(pos + Len(bytes) - 1) THEN bytes[p - pos + 1] ELSE it.chunk[p]
  <2>1. /\ new \in [1..c -> Byte]
        /\ \A p \in 1..c : new[p] =
              IF p \in pos..(pos + Len(bytes) - 1) THEN bytes[p - pos + 1] ELSE it.chunk[p]
    BY <1>0, MemcpyFacts
  <2> HIDE DEF new
  <2> QED
    BY <2>1, <1>0 DEF Chunk, Copied, new
<1>2. \A p \in q..(q + n - 1) : p \notin pos..(pos + Len(bytes) - 1)
  BY <1>0
<1>3. \A p \in q..(q + n - 1) : p \in 1..c => it2.chunk[p] = it.chunk[p]
  BY <1>1, <1>2
<1> QED
  BY <1>1, <1>3, BytesEqual

\* The same, of the chunk of an item.
Overlaid(new, it, c, pos, bytes) ==
    /\ new \in [1..c -> Byte]
    /\ \A p \in 1..c : new[p] =
          IF p \in pos..(pos + Len(bytes) - 1) THEN bytes[p - pos + 1] ELSE it.chunk[p]

LEMMA MemcpyItem ==
    ASSUME NEW it, NEW c, Chunk(it, c), NEW pos \in Int, NEW bytes \in Seq(Byte)
    PROVE  Overlaid(memcpy(it.chunk, pos, bytes), it, c, pos, bytes)
<1>1. c \in Nat /\ it.chunk \in [1..c -> Byte]
  BY DEF Chunk
<1> DEFINE new == memcpy(it.chunk, pos, bytes)
<1>2. /\ new \in [1..c -> Byte]
      /\ \A p \in 1..c : new[p] =
            IF p \in pos..(pos + Len(bytes) - 1) THEN bytes[p - pos + 1] ELSE it.chunk[p]
  BY <1>1, MemcpyFacts
<1> HIDE DEF new
<1>3. Overlaid(new, it, c, pos, bytes)
  BY <1>2 DEF Overlaid
<1> QED
  BY <1>3 DEF new

\* What Good says, one by one.
LEMMA GoodFacts ==
    ASSUME NEW it, Good(it)
    PROVE  /\ it.id \in DOMAIN profile /\ profile[it.id] \in Nat
           /\ it.nbyte \in Nat /\ it.raligned \in BOOLEAN /\ it.shrunk \in BOOLEAN
           /\ it.want \in Seq(Byte)
           /\ Chunk(it, profile[it.id])
           /\ item_data(it) \in Int /\ item_data(it) > HDR_LEN
           /\ item_data(it) + it.nbyte - 1 <= profile[it.id]
           /\ Stored(it) \in Seq(Byte) /\ Len(Stored(it)) = it.nbyte
           /\ it # Blank
<1>1. /\ it.id \in DOMAIN profile /\ profile[it.id] \in Nat
      /\ it.nbyte \in Nat /\ it.raligned \in BOOLEAN /\ it.shrunk \in BOOLEAN
      /\ it.want \in Seq(Byte)
  BY DataFacts DEF Good
<1>2. Chunk(it, profile[it.id])
  BY <1>1 DEF Chunk, Good
<1>3. HDR_LEN + it.nbyte + CRLF_LEN <= profile[it.id]
  BY DEF Good
<1>4. /\ item_data(it) \in Int /\ item_data(it) > HDR_LEN
      /\ item_data(it) + it.nbyte - 1 <= profile[it.id]
  BY <1>1, <1>3, DataFacts DEF item_data
<1>5. Run(Stored(it), it, profile[it.id], item_data(it), it.nbyte)
  BY <1>1, <1>2, <1>4, BytesFacts DEF Stored
<1>6. it # Blank
  BY <1>1, DataFacts DEF Blank
<1> QED
  BY <1>1, <1>2, <1>4, <1>5, <1>6 DEF Run

\* The item it2 is it, with some bytes written over at pos.
Patched(it2, it, pos, bytes) == it2 = [it EXCEPT !.chunk = memcpy(@, pos, bytes)]

\* Bytes written between header and end of an item leave it good.
LEMMA WriteGood ==
    ASSUME NEW it, Good(it), NEW pos \in Int, NEW bytes \in Seq(Byte), pos > HDR_LEN,
           pos + Len(bytes) - 1 <= profile[it.id],
           NEW it2, Patched(it2, it, pos, bytes)
    PROVE  /\ Good(it2)
           /\ Copied(it2, it, pos, bytes)
           /\ it2.id = it.id /\ it2.nbyte = it.nbyte /\ it2.raligned = it.raligned
           /\ it2.want = it.want /\ it2.shrunk = it.shrunk
           /\ item_data(it2) = item_data(it)
<1>1. /\ it \in [id : DOMAIN profile, nbyte : Nat, raligned : BOOLEAN, chunk : Seq(Byte),
                 want : Seq(Byte), shrunk : BOOLEAN]
      /\ it.chunk \in [1..profile[it.id] -> Byte] /\ profile[it.id] \in Nat
      /\ \A p \in 1..HDR_LEN : it.chunk[p] = Key
      /\ HDR_LEN + it.nbyte + CRLF_LEN <= profile[it.id]
      /\ it.nbyte \in Nat
  BY GoodFacts DEF Good
<1> DEFINE new == memcpy(it.chunk, pos, bytes)
<1>2. /\ new \in [1..profile[it.id] -> Byte]
      /\ \A p \in 1..profile[it.id] : new[p] =
             IF p \in pos..(pos + Len(bytes) - 1) THEN bytes[p - pos + 1] ELSE it.chunk[p]
  <2>1. Chunk(it, profile[it.id])
    BY GoodFacts
  <2>2. Overlaid(new, it, profile[it.id], pos, bytes)
    BY <2>1, MemcpyItem
  <2> HIDE DEF new
  <2> QED
    BY <2>2 DEF Overlaid
<1>3. it2 = [it EXCEPT !.chunk = new]
  BY DEF Patched
<1> HIDE DEF new
<1>4. new \in Seq(Byte)
  <2>1. profile[it.id] \in Nat
    BY <1>1
  <2> QED
    BY <1>2, <2>1
<1>5. /\ it2.chunk = new
      /\ it2.id = it.id /\ it2.nbyte = it.nbyte /\ it2.raligned = it.raligned
      /\ it2.want = it.want /\ it2.shrunk = it.shrunk
  BY <1>1, <1>3
<1>6. it2 \in [id : DOMAIN profile, nbyte : Nat, raligned : BOOLEAN, chunk : Seq(Byte),
               want : Seq(Byte), shrunk : BOOLEAN]
  BY <1>1, <1>3, <1>4
<1>7. \A p \in 1..HDR_LEN : new[p] = Key
  <2>1. Len(bytes) \in Nat /\ HDR_LEN \in Nat /\ CRLF_LEN \in Nat
    BY DataFacts
  <2>2. ASSUME NEW p \in 1..HDR_LEN PROVE new[p] = Key
    <3>1. p \in 1..profile[it.id] /\ p \notin pos..(pos + Len(bytes) - 1)
      BY <1>1, <2>1
    <3> QED
      BY <3>1, <1>1, <1>2
  <2> QED
    BY <2>2
<1>8. Good(it2)
  BY <1>1, <1>2, <1>5, <1>6, <1>7 DEF Good
<1>9. item_data(it2) = item_data(it)
  BY <1>5 DEF item_data
<1> QED
  BY <1>5, <1>8, <1>9 DEF new, Copied

\* An item of a class with room for its value holds it.
LEMMA NewItemGood ==
    ASSUME NEW id \in DOMAIN profile, NEW ralign \in BOOLEAN, NEW bytes \in Seq(Byte),
           NEW want \in Seq(Byte), NEW shrunk \in BOOLEAN,
           HDR_LEN + Len(bytes) + CRLF_LEN <= profile[id],
           NEW new, new = NewItem(id, ralign, bytes, want, shrunk)
    PROVE  /\ Good(new) /\ new.id = id /\ new.nbyte = Len(bytes) /\ new.shrunk = shrunk
           /\ ~shrunk => new.want = want
           /\ Stored(new) = bytes
<1> DEFINE raw == [id |-> id, nbyte |-> Len(bytes), raligned |-> ralign,
                   chunk |-> [p \in 1..profile[id] |-> IF p <= HDR_LEN THEN Key ELSE Junk],
                   want |-> IF shrunk THEN << >> ELSE want, shrunk |-> shrunk]
<1>1. Len(bytes) \in Nat /\ profile[id] \in Nat
  BY DataFacts
<1>2. [p \in 1..profile[id] |-> IF p <= HDR_LEN THEN Key ELSE Junk] \in [1..profile[id] -> Byte]
  BY DataFacts
<1>3. raw.chunk \in [1..profile[id] -> Byte] /\ raw.chunk \in Seq(Byte)
  BY <1>1, <1>2
<1>4. (IF shrunk THEN << >> ELSE want) \in Seq(Byte)
  OBVIOUS
<1>5. raw \in [id : DOMAIN profile, nbyte : Nat, raligned : BOOLEAN, chunk : Seq(Byte),
               want : Seq(Byte), shrunk : BOOLEAN]
  BY <1>1, <1>3, <1>4
<1>6. \A p \in 1..HDR_LEN : raw.chunk[p] = Key
  BY <1>1, DataFacts
<1>7. /\ raw.id = id /\ raw.nbyte = Len(bytes) /\ raw.shrunk = shrunk
      /\ ~shrunk => raw.want = want
  OBVIOUS
<1>8. Good(raw)
  BY <1>3, <1>5, <1>6, <1>7 DEF Good
<1>9. new = Fill(raw, bytes)
  BY DEF NewItem
<1> HIDE DEF raw
<1> DEFINE pos == item_data(raw)
<1>10. Patched(new, raw, pos, bytes)
  BY <1>9 DEF Fill, Patched
<1>11. pos \in Int /\ pos > HDR_LEN /\ pos + Len(bytes) - 1 <= profile[raw.id]
  BY <1>7, <1>8, GoodFacts
<1> HIDE DEF pos
<1>12. /\ Good(new)
       /\ Copied(new, raw, pos, bytes)
       /\ new.id = raw.id /\ new.nbyte = raw.nbyte
       /\ new.want = raw.want /\ new.shrunk = raw.shrunk
       /\ item_data(new) = item_data(raw)
  BY <1>8, <1>10, <1>11, WriteGood
<1>13. Chunk(raw, profile[id])
  BY <1>1, <1>3 DEF Chunk
<1>14. pos >= 1 /\ pos + Len(bytes) - 1 <= profile[id]
  BY <1>7, <1>11, DataFacts
<1>15. Bytes(new, pos, Len(bytes)) = bytes
  BY <1>11, <1>12, <1>13, <1>14, BytesWritten
<1>16. Stored(new) = bytes
  BY <1>7, <1>12, <1>15 DEF Stored, pos
<1> QED
  BY <1>7, <1>12, <1>16

\* What is kept.
LEMMA KeptFacts ==
    ASSUME NEW items, NEW linked, NEW readers, NEW kept, kept = Kept(items, linked, readers)
    PROVE  /\ kept = [i \in Item |-> kept[i]]
           /\ \A i \in Item : kept[i] # Blank => kept[i] = items[i]
           /\ linked \in Item => kept[linked] = items[linked]
           /\ \A r \in Reader : readers[r].item \in Item =>
                  kept[readers[r].item] = items[readers[r].item]
BY DEF Kept

-----------------------------------------------------------------------------
(***************************************************************************)
(* Steps that put another item in the place of the linked one.             *)
(***************************************************************************)

\* Readers whose items stay as they are.
LEMMA ReadersKeep ==
    ASSUME Readers, rd' = rd,
           \A r \in Reader : rd[r].item \in Item => item'[rd[r].item] = item[rd[r].item],
           \A i \in Item : Overwritten(wr', i) => Overwritten(wr, i)
    PROVE  Readers'
<1>1. rd' \in [Reader -> ReaderType]
  BY DEF Readers
<1>2. ASSUME NEW r \in Reader
      PROVE  ReaderOK(rd'[r], item'[rd'[r].item], wr')
  <2>1. ReaderOK(rd[r], item[rd[r].item], wr)
    BY DEF Readers
  <2>2. rd[r].item \in Item \cup {NoItem}
    BY DEF Readers, ReaderType
  <2>3. CASE rd[r].at = "idle"
    BY <2>1, <2>3 DEF ReaderOK
  <2>4. CASE rd[r].at # "idle"
    <3>1. rd[r].item \in Item
      BY <2>1, <2>2, <2>4 DEF ReaderOK
    <3>2. item'[rd[r].item] = item[rd[r].item]
      BY <3>1
    <3>3. Overwritten(wr', rd[r].item) => Overwritten(wr, rd[r].item)
      BY <3>1
    <3> QED
      BY <2>1, <3>2, <3>3 DEF ReaderOK
  <2> QED
    BY <2>3, <2>4
<1> QED
  BY <1>1, <1>2 DEF Readers

\* Nothing is half written while the lock is free.
LEMMA NotOverwritten ==
    ASSUME NEW i \in Item
    PROVE  Unlocked => ~Overwritten(wr, i)
BY DataFacts DEF Unlocked, NoWrite, Overwritten

\* A new item takes the place of the linked one.
LEMMA RelinkStep ==
    ASSUME DataInv, Unlocked, NEW new, Good(new), ~new.shrunk => Stored(new) = new.want,
           Relink(new)
    PROVE  DataInv'
<1>1. PICK i \in Item : /\ item[i] = Blank /\ hash' = i
                        /\ item' = Kept([item EXCEPT ![i] = new], i, rd)
                        /\ wr' = wr /\ rd' = rd
  BY DEF Relink, FreeItem
<1>2. Items /\ Readers
  BY DEF DataInv
<1> DEFINE mid == [item EXCEPT ![i] = new]
<1>3. mid[i] = new /\ \A j \in Item : j # i => mid[j] = item[j]
  BY <1>2 DEF Items
<1>4. /\ item' = [j \in Item |-> item'[j]]
      /\ \A j \in Item : item'[j] # Blank => item'[j] = mid[j]
      /\ item'[i] = mid[i]
      /\ \A r \in Reader : rd[r].item \in Item => item'[rd[r].item] = mid[rd[r].item]
  <2>1. item' = Kept(mid, i, rd)
    BY <1>1
  <2> HIDE DEF mid
  <2> QED
    BY <2>1, KeptFacts
<1> HIDE DEF mid
<1>5. Unlocked'
  BY <1>1 DEF Unlocked
<1>6. \A j \in Item : ~Overwritten(wr, j) /\ ~Overwritten(wr', j)
  BY <1>1, NotOverwritten DEF Overwritten
<1>7. Items'
  <2>1. ASSUME NEW j \in Item, item'[j] # Blank
        PROVE  Good(item'[j]) /\ (~item'[j].shrunk => Stored(item'[j]) = item'[j].want)
    <3>1. CASE j = i
      BY <3>1, <1>3, <1>4
    <3>2. CASE j # i
      <4>1. item'[j] = item[j]
        BY <2>1, <3>2, <1>3, <1>4
      <4>2. /\ Good(item[j])
            /\ ~item[j].shrunk /\ ~Overwritten(wr, j) => Stored(item[j]) = item[j].want
        BY <4>1, <2>1, <1>2 DEF Items
      <4> QED
        BY <4>1, <4>2, <1>6
    <3> QED
      BY <3>1, <3>2
  <2>2. item'[i] # Blank
    BY <1>3, <1>4, GoodFacts
  <2> QED
    BY <2>1, <2>2, <1>1, <1>4 DEF Items
<1>8. \A r \in Reader : rd[r].item \in Item => item'[rd[r].item] = item[rd[r].item]
  <2>1. ASSUME NEW r \in Reader, rd[r].item \in Item PROVE item'[rd[r].item] = item[rd[r].item]
    <3>0. ReaderOK(rd[r], item[rd[r].item], wr)
      BY <1>2 DEF Readers
    <3>1. rd[r].at # "idle"
      BY <3>0, <2>1, DataFacts DEF ReaderOK, NoRead
    <3>2. rd[r].item # i
      BY <3>0, <3>1, <1>1 DEF ReaderOK
    <3> QED
      BY <3>2, <2>1, <1>3, <1>4
  <2> QED
    BY <2>1
<1>9. Readers'
  BY <1>1, <1>2, <1>6, <1>8, ReadersKeep
<1>10. Writing'
  BY <1>5 DEF Writing
<1> QED
  BY <1>7, <1>9, <1>10 DEF DataInv

\* set: the new item has the class of its value.
LEMMA SetStep ==
    ASSUME DataInv, NEW v \in Value, item_set(v)
    PROVE  DataInv'
<1> DEFINE id == item_slabid(Len(v))
           new == NewItem(id, FALSE, v, v, FALSE)
<1>1. v \in Seq(Byte) /\ Len(v) \in Nat
  BY ByteAssumption
<1>2. Unlocked /\ id # SLABCLASS_INVALID_ID /\ Relink(new)
  BY DEF item_set
<1>3. id \in DOMAIN profile /\ HDR_LEN + Len(v) + CRLF_LEN <= profile[id]
  BY <1>1, <1>2, ClassFits
<1> HIDE DEF id
<1> DEFINE no == FALSE
<1>4. new = NewItem(id, no, v, v, no) /\ no \in BOOLEAN /\ ~no
  OBVIOUS
<1> HIDE DEF new, no
<1>5. Good(new) /\ new.want = v /\ Stored(new) = v
  BY <1>1, <1>3, <1>4, NewItemGood
<1> QED
  BY <1>2, <1>5, RelinkStep

\* delete: the item stays as long as somebody reads it.
LEMMA DeleteStep ==
    ASSUME DataInv, item_delete
    PROVE  DataInv'
<1>1. Items /\ Readers
  BY DEF DataInv
<1>2. hash' = NoItem /\ item' = Kept(item, NoItem, rd) /\ wr' = wr /\ rd' = rd /\ Unlocked
  BY DEF item_delete
<1>3. /\ item' = [j \in Item |-> item'[j]]
      /\ \A j \in Item : item'[j] # Blank => item'[j] = item[j]
      /\ \A r \in Reader : rd[r].item \in Item => item'[rd[r].item] = item[rd[r].item]
  BY <1>2, KeptFacts
<1>4. \A j \in Item : ~Overwritten(wr, j) /\ ~Overwritten(wr', j)
  BY <1>2, NotOverwritten DEF Overwritten
<1>5. Items'
  BY <1>1, <1>2, <1>3, <1>4 DEF Items
<1>6. Readers'
  BY <1>1, <1>2, <1>3, <1>4, ReadersKeep
<1>7. Writing'
  BY <1>2 DEF Writing, Unlocked
<1> QED
  BY <1>5, <1>6, <1>7 DEF DataInv

-----------------------------------------------------------------------------
(***************************************************************************)
(* Steps that change the linked item in place.                             *)
(***************************************************************************)
WriteType == [item : Item, nbyte : Nat, want : Seq(Byte), shrunk : BOOLEAN, delta : BOOLEAN]

\* The linked item of a good state.
LEMMA LinkedGood ==
    ASSUME Items, hash # NoItem
    PROVE  /\ hash \in Item /\ Good(item[hash])
           /\ Unlocked /\ ~item[hash].shrunk => Stored(item[hash]) = item[hash].want
<1>1. hash \in Item /\ item[hash] # Blank
  BY DEF Items
<1>2. Unlocked => ~Overwritten(wr, hash)
  BY <1>1, NotOverwritten
<1> QED
  BY <1>1, <1>2 DEF Items

\* The change w in place that makes it2 of it, by bytes written at pos.
Rewrite(it2, it, pos, bytes, w) ==
    /\ pos \in Int /\ bytes \in Seq(Byte) /\ pos > HDR_LEN
    /\ pos + Len(bytes) - 1 <= profile[it.id]
    /\ Patched(it2, it, pos, bytes)
    /\ w \in WriteType /\ w.item = hash /\ InPlace(it2, w)
    /\ ~w.delta => Stored(it2) = Stored(it)

\* It is made to the linked item.
LEMMA RewriteStep ==
    ASSUME DataInv, Unlocked, hash # NoItem, NEW pos, NEW bytes, NEW it2,
           Rewrite(it2, item[hash], pos, bytes, wr'),
           item' = [item EXCEPT ![hash] = it2], hash' = hash
    PROVE  /\ Items' /\ Writing'
           /\ item'[hash] = it2
           /\ \A j \in Item : j # hash => item'[j] = item[j]
<1> DEFINE it == item[hash]
<1>0. /\ pos \in Int /\ bytes \in Seq(Byte) /\ pos > HDR_LEN
      /\ pos + Len(bytes) - 1 <= profile[it.id]
      /\ Patched(it2, it, pos, bytes)
      /\ wr' \in WriteType /\ wr'.item = hash /\ InPlace(it2, wr')
      /\ ~wr'.delta => Stored(it2) = Stored(it)
  BY DEF Rewrite
<1> USE <1>0
<1>1. Items
  BY DEF DataInv
<1>2. hash \in Item /\ Good(it) /\ (~it.shrunk => Stored(it) = it.want)
  BY <1>1, LinkedGood
<1>4. item = [i \in Item |-> item[i]]
  BY <1>1 DEF Items
<1>5. item'[hash] = it2 /\ \A j \in Item : j # hash => item'[j] = item[j]
  BY <1>2, <1>4
<1>6. item' = [i \in Item |-> item'[i]]
  BY <1>4
<1>7. Good(it2) /\ it2.want = it.want /\ it2.shrunk = it.shrunk
  BY <1>2, WriteGood
<1>8. ASSUME NEW j \in Item, item'[j] # Blank
      PROVE  /\ Good(item'[j])
             /\ ~item'[j].shrunk /\ ~Overwritten(wr', j) => Stored(item'[j]) = item'[j].want
  <2>1. CASE j = hash
    <3>1. Overwritten(wr', j) <=> wr'.delta
      BY <2>1 DEF Overwritten
    <3> QED
      BY <2>1, <3>1, <1>2, <1>5, <1>7
  <2>2. CASE j # hash
    <3>1. item'[j] = item[j]
      BY <2>2, <1>5
    <3>2. ~Overwritten(wr, j)
      BY NotOverwritten
    <3> QED
      BY <3>1, <3>2, <1>1, <1>8 DEF Items
  <2> QED
    BY <2>1, <2>2
<1>9. it2 # Blank
  BY <1>7, GoodFacts
<1>10. Items'
  BY <1>1, <1>2, <1>5, <1>6, <1>8, <1>9 DEF Items
<1>11. Writing'
  BY <1>5 DEF Writing, WriteType
<1> QED
  BY <1>5, <1>10, <1>11

\* A reader whose bytes are not among those written.
LEMMA ReadingSpared ==
    ASSUME NEW it, Good(it), NEW pos \in Int, NEW bytes \in Seq(Byte), pos > HDR_LEN,
           pos + Len(bytes) - 1 <= profile[it.id],
           NEW it2, Patched(it2, it, pos, bytes),
           pos + Len(bytes) <= item_data(it) \/ item_data(it) + it.nbyte <= pos
    PROVE  /\ Stored(it2) = Stored(it)
           /\ \A x \in ReaderType : Reading(x, it) => Reading(x, it2)
<1>1. /\ Copied(it2, it, pos, bytes) /\ it2.nbyte = it.nbyte
      /\ item_data(it2) = item_data(it)
  BY WriteGood
<1>2. Chunk(it, profile[it.id]) /\ item_data(it) \in Int /\ it.nbyte \in Nat /\ Len(bytes) \in Nat
  BY GoodFacts
<1>3. Bytes(it2, item_data(it), it.nbyte) = Bytes(it, item_data(it), it.nbyte)
  BY <1>1, <1>2, BytesSpared
<1>4. ASSUME NEW x \in ReaderType, Reading(x, it) PROVE Reading(x, it2)
  <2>1. x.pos \in Int /\ x.nbyte \in Nat
    BY DEF ReaderType
  <2>2. item_data(it) <= x.pos /\ x.pos + x.nbyte <= item_data(it) + it.nbyte
    BY <1>4 DEF Reading
  <2>3. x.pos + x.nbyte <= pos \/ pos + Len(bytes) <= x.pos
    BY <1>2, <2>1, <2>2
  <2>4. Bytes(it2, x.pos, x.nbyte) = Bytes(it, x.pos, x.nbyte)
    BY <1>1, <1>2, <2>1, <2>3, BytesSpared
  <2> QED
    BY <1>1, <1>4, <2>4 DEF Reading
<1> QED
  BY <1>1, <1>3, <1>4 DEF Stored

\* append and prepend, into another item.
LEMMA AnnexCopy ==
    ASSUME DataInv, NEW v \in Value, NEW prepend \in BOOLEAN, Unlocked, hash # NoItem,
           NEW oit, oit = item[hash], NEW id, id = item_slabid(oit.nbyte + Len(v)),
           id # SLABCLASS_INVALID_ID,
           Relink(NewItem(id, prepend, Annexed(Stored(oit), v, prepend),
                          Annexed(oit.want, v, prepend), oit.shrunk))
    PROVE  DataInv'
<1> DEFINE bytes == Annexed(Stored(oit), v, prepend)
           want == Annexed(oit.want, v, prepend)
           new == NewItem(id, prepend, bytes, want, oit.shrunk)
<1>1. v \in Seq(Byte) /\ Len(v) \in Nat
  BY ByteAssumption
<1>2. Good(oit) /\ (~oit.shrunk => Stored(oit) = oit.want)
  BY LinkedGood DEF DataInv
<1>3. /\ Stored(oit) \in Seq(Byte) /\ Len(Stored(oit)) = oit.nbyte /\ oit.nbyte \in Nat
      /\ oit.want \in Seq(Byte) /\ oit.shrunk \in BOOLEAN
  BY <1>2, GoodFacts
<1>4. bytes \in Seq(Byte) /\ Len(bytes) = oit.nbyte + Len(v) /\ want \in Seq(Byte)
  BY <1>1, <1>3 DEF Annexed
<1>5. ~oit.shrunk => bytes = want
  BY <1>2
<1>6. id \in DOMAIN profile /\ HDR_LEN + Len(bytes) + CRLF_LEN <= profile[id]
  BY <1>1, <1>3, <1>4, ClassFits
<1>7. new = NewItem(id, prepend, bytes, want, oit.shrunk) /\ Relink(new)
  OBVIOUS
<1> HIDE DEF new, bytes, want
<1>8. /\ Good(new) /\ new.shrunk = oit.shrunk
      /\ ~oit.shrunk => new.want = want
      /\ Stored(new) = bytes
  BY <1>3, <1>4, <1>6, <1>7, NewItemGood
<1> QED
  BY <1>5, <1>7, <1>8, RelinkStep

\* What append and prepend in place write.
AnnexedInPlace(v, prepend, oit) ==
    /\ item' = [item EXCEPT ![hash].chunk = memcpy(@, annex_at(oit, v, prepend), v)]
    /\ wr' = [item |-> hash, nbyte |-> oit.nbyte + Len(v),
              want |-> Annexed(oit.want, v, prepend), shrunk |-> oit.shrunk, delta |-> FALSE]
    /\ hash' = hash
    /\ rd' = rd

\* append and prepend in place: the bytes go to one end of the value, next to it.
LEMMA AnnexInPlace ==
    ASSUME DataInv, NEW v \in Value, NEW prepend \in BOOLEAN, Unlocked, hash # NoItem,
           NEW oit, oit = item[hash], NEW id, id = item_slabid(oit.nbyte + Len(v)),
           id # SLABCLASS_INVALID_ID, annex_in_place(oit, id, prepend),
           AnnexedInPlace(v, prepend, oit)
    PROVE  DataInv'
<1> DEFINE pos == annex_at(oit, v, prepend)
           it2 == [oit EXCEPT !.chunk = memcpy(oit.chunk, pos, v)]
           n == oit.nbyte + Len(v)
           start == item_data([it2 EXCEPT !.nbyte = n])
<1>0. hash' = hash /\ rd' = rd
  BY DEF AnnexedInPlace
<1>1. v \in Seq(Byte) /\ Len(v) \in Nat
  BY ByteAssumption
<1>2. Items /\ Readers
  BY DEF DataInv
<1>3. hash \in Item /\ Good(oit) /\ (~oit.shrunk => Stored(oit) = oit.want)
  BY <1>2, LinkedGood
<1>4. /\ oit.nbyte \in Nat /\ n \in Nat /\ oit.id \in DOMAIN profile /\ profile[oit.id] \in Nat
      /\ oit.want \in Seq(Byte) /\ oit.shrunk \in BOOLEAN
      /\ Chunk(oit, profile[oit.id]) /\ item_data(oit) \in Int /\ item_data(oit) > HDR_LEN
      /\ item_data(oit) + oit.nbyte - 1 <= profile[oit.id]
  BY <1>1, <1>3, GoodFacts
<1>5. HDR_LEN + n + CRLF_LEN <= profile[oit.id] /\ oit.raligned = prepend
  BY <1>4, ClassFits DEF annex_in_place
<1>6. item_data(oit) = IF prepend THEN profile[oit.id] - oit.nbyte + 1 ELSE HDR_LEN + 1
  BY <1>5 DEF item_data
<1>7. pos = IF prepend THEN item_data(oit) - Len(v) ELSE item_data(oit) + oit.nbyte
  BY DEF annex_at
<1>9. Patched(it2, oit, pos, v)
  BY DEF Patched
<1>10. item' = [item EXCEPT ![hash] = it2]
  BY DEF AnnexedInPlace
<1> HIDE DEF pos, it2, n
<1>8. /\ pos \in Int /\ pos > HDR_LEN /\ pos + Len(v) - 1 <= profile[oit.id]
      /\ pos + Len(v) <= item_data(oit) \/ item_data(oit) + oit.nbyte <= pos
  <2> DEFINE a == oit.nbyte
             b == Len(v)
             c == profile[oit.id]
             e == item_data(oit)
  <2>1. /\ HDR_LEN \in Nat /\ CRLF_LEN \in Nat /\ a \in Nat /\ b \in Nat /\ c \in Nat
        /\ HDR_LEN + (a + b) + CRLF_LEN <= c
    BY <1>1, <1>4, <1>5, DataFacts DEF n
  <2>2. e = IF prepend THEN c - a + 1 ELSE HDR_LEN + 1
    BY <1>6
  <2>3. pos = IF prepend THEN e - b ELSE e + a
    BY <1>7
  <2> HIDE DEF a, b, c, e
  <2>4. /\ pos \in Int /\ pos > HDR_LEN /\ pos + b - 1 <= c
        /\ pos + b <= e \/ e + a <= pos
    <3>1. CASE prepend
      BY <3>1, <2>1, <2>2, <2>3
    <3>2. CASE ~prepend
      BY <3>2, <2>1, <2>2, <2>3
    <3> QED
      BY <3>1, <3>2
  <2> QED
    BY <2>4 DEF a, b, c, e
<1>11. /\ Copied(it2, oit, pos, v) /\ it2.id = oit.id
       /\ it2.raligned = oit.raligned /\ it2.shrunk = oit.shrunk
       /\ it2.nbyte = oit.nbyte /\ item_data(it2) = item_data(oit) /\ Good(it2)
  <2>1. /\ Good(oit) /\ pos \in Int /\ v \in Seq(Byte)
        /\ pos > HDR_LEN /\ pos + Len(v) - 1 <= profile[oit.id]
        /\ Patched(it2, oit, pos, v)
    BY <1>1, <1>3, <1>8, <1>9
  <2> QED
    BY <2>1, WriteGood
<1>12. start = IF prepend THEN profile[oit.id] - n + 1 ELSE HDR_LEN + 1
  <2>1. it2 \in [id : DOMAIN profile, nbyte : Nat, raligned : BOOLEAN, chunk : Seq(Byte),
                 want : Seq(Byte), shrunk : BOOLEAN]
    BY <1>11 DEF Good
  <2> QED
    BY <2>1, <1>5, <1>11 DEF item_data
<1> HIDE DEF start
<1>13. /\ start = IF prepend THEN pos ELSE item_data(oit)
       /\ start \in Int /\ start <= item_data(oit)
       /\ item_data(oit) + oit.nbyte <= start + n
  <2> DEFINE a == oit.nbyte
             b == Len(v)
             c == profile[oit.id]
             e == item_data(oit)
  <2>1. HDR_LEN \in Nat /\ a \in Nat /\ b \in Nat /\ c \in Nat /\ n = a + b
    BY <1>1, <1>4, DataFacts DEF n
  <2>2. e = IF prepend THEN c - a + 1 ELSE HDR_LEN + 1
    BY <1>6
  <2>3. pos = IF prepend THEN e - b ELSE e + a
    BY <1>7
  <2>4. start = IF prepend THEN c - n + 1 ELSE HDR_LEN + 1
    BY <1>12
  <2> HIDE DEF a, b, c, e
  <2>5. /\ start = IF prepend THEN pos ELSE e
        /\ start \in Int /\ start <= e /\ e + a <= start + n
    <3>1. CASE prepend
      BY <3>1, <2>1, <2>2, <2>3, <2>4
    <3>2. CASE ~prepend
      BY <3>2, <2>1, <2>2, <2>3, <2>4
    <3> QED
      BY <3>1, <3>2
  <2> QED
    BY <2>5 DEF a, e
<1>14. /\ Stored(it2) = Stored(oit)
       /\ \A x \in ReaderType : Reading(x, oit) => Reading(x, it2)
  BY <1>1, <1>3, <1>8, <1>9, ReadingSpared
<1>15. Bytes(it2, pos, Len(v)) = v
  <2>1. pos >= 1
    BY <1>8, DataFacts
  <2> QED
    BY <2>1, <1>1, <1>4, <1>8, <1>11, BytesWritten
<1>16. Chunk(it2, profile[oit.id])
  BY <1>11, GoodFacts
<1>17. Bytes(it2, start, n) = Annexed(Stored(oit), v, prepend)
  <2>1. CASE prepend
    <3>1. pos + Len(v) = item_data(oit) /\ start = pos
      BY <2>1, <1>1, <1>4, <1>7, <1>13
    <3>0. pos \in Int /\ Len(v) \in Nat /\ oit.nbyte \in Nat
      BY <1>1, <1>4, <1>8
    <3>2. Bytes(it2, pos, Len(v) + oit.nbyte) = Bytes(it2, pos, Len(v)) \o Bytes(it2, pos + Len(v), oit.nbyte)
      BY <3>0, <1>16, BytesConcat
    <3>3. Bytes(it2, pos + Len(v), oit.nbyte) = Stored(oit)
      BY <3>1, <1>11, <1>14 DEF Stored
    <3>4. n = Len(v) + oit.nbyte
      BY <1>1, <1>4 DEF n
    <3> QED
      BY <2>1, <3>1, <3>2, <3>3, <3>4, <1>15 DEF Annexed
  <2>2. CASE ~prepend
    <3>1. pos = item_data(oit) + oit.nbyte /\ start = item_data(oit)
      BY <2>2, <1>7, <1>13
    <3>0. start \in Int /\ Len(v) \in Nat /\ oit.nbyte \in Nat
      BY <1>1, <1>4, <1>13
    <3>2. Bytes(it2, start, oit.nbyte + Len(v)) = Bytes(it2, start, oit.nbyte) \o Bytes(it2, start + oit.nbyte, Len(v))
      BY <3>0, <1>16, BytesConcat
    <3>3. Bytes(it2, start, oit.nbyte) = Stored(oit)
      BY <3>1, <1>11, <1>14 DEF Stored
    <3> QED
      BY <2>2, <3>1, <3>2, <3>3, <1>15 DEF Annexed, n
  <2> QED
    BY <2>1, <2>2
<1>18. Annexed(oit.want, v, prepend) \in Seq(Byte)
  BY <1>1, <1>4 DEF Annexed
<1>19. /\ wr' \in WriteType /\ wr'.item = hash /\ wr'.nbyte = n /\ wr'.shrunk = oit.shrunk
       /\ ~wr'.delta /\ wr'.want = Annexed(oit.want, v, prepend)
  BY <1>3, <1>4, <1>18 DEF AnnexedInPlace, WriteType, n
<1>20. InPlace(it2, wr')
  BY <1>3, <1>5, <1>11, <1>13, <1>17, <1>19 DEF InPlace, start
<1>21. /\ Items' /\ Writing' /\ item'[hash] = it2
       /\ \A j \in Item : j # hash => item'[j] = item[j]
  <2>1. Rewrite(it2, item[hash], pos, v, wr')
    BY <1>1, <1>8, <1>9, <1>14, <1>19, <1>20 DEF Rewrite
  <2> QED
    BY <2>1, <1>0, <1>10, RewriteStep
<1>22. ASSUME NEW r \in Reader
       PROVE  ReaderOK(rd'[r], item'[rd'[r].item], wr')
  <2>1. ReaderOK(rd[r], item[rd[r].item], wr) /\ rd[r] \in ReaderType
    BY <1>2 DEF Readers
  <2>2. ~Overwritten(wr', rd[r].item)
    BY <1>19 DEF Overwritten
  <2>3. CASE rd[r].item = hash
    <3>1. it2 # Blank
      BY <1>11, GoodFacts
    <3> QED
      BY <2>1, <2>2, <2>3, <3>1, <1>0, <1>14, <1>21 DEF ReaderOK
  <2>4. CASE rd[r].item \in Item /\ rd[r].item # hash
    BY <2>1, <2>2, <2>4, <1>0, <1>21 DEF ReaderOK
  <2>5. CASE rd[r].item = NoItem
    BY <2>1, <2>5, <1>0 DEF ReaderOK
  <2>6. rd[r].item \in Item \cup {NoItem}
    BY <2>1 DEF ReaderType
  <2> QED
    BY <2>3, <2>4, <2>5, <2>6
<1>23. Readers'
  BY <1>0, <1>2, <1>22 DEF Readers
<1> QED
  BY <1>21, <1>23 DEF DataInv

\* incr and decr: a longer number goes to another item.
LEMMA DeltaCopy ==
    ASSUME DataInv, NEW incr \in BOOLEAN, NEW d \in Delta, Unlocked, hash # NoItem,
           NEW it, it = item[hash], Readable(Stored(it)),
           NEW buf, buf = Changed(Stored(it), incr, d),
           NEW want, want = Changed(it.want, incr, d),
           NEW no, no = FALSE,
           Relink(NewItem(item_slabid(Len(buf)), no, buf, want, it.shrunk))
    PROVE  DataInv'
<1> DEFINE id == item_slabid(Len(buf))
           new == NewItem(id, no, buf, want, it.shrunk)
<1>1. Good(it) /\ (~it.shrunk => Stored(it) = it.want)
  BY LinkedGood DEF DataInv
<1>2. Stored(it) \in Seq(Byte) /\ it.want \in Seq(Byte) /\ it.shrunk \in BOOLEAN
  BY <1>1, GoodFacts
<1>3. buf \in Seq(Byte) /\ want \in Seq(Byte) /\ id # SLABCLASS_INVALID_ID
  BY <1>2, ChangedFacts
<1>4. ~it.shrunk => buf = want
  BY <1>1
<1>5. id \in DOMAIN profile /\ HDR_LEN + Len(buf) + CRLF_LEN <= profile[id]
  <2>1. Len(buf) \in Nat
    BY <1>3
  <2> QED
    BY <2>1, <1>3, ClassFits
<1>6. Relink(new) /\ no \in BOOLEAN
  OBVIOUS
<1> HIDE DEF id
<1>7. /\ Good(new) /\ new.shrunk = it.shrunk
      /\ ~it.shrunk => new.want = want
      /\ Stored(new) = buf
  BY <1>2, <1>3, <1>5, <1>6, NewItemGood
<1> HIDE DEF new
<1> QED
  BY <1>4, <1>6, <1>7, RelinkStep

\* What is excused is well typed.
LEMMA ExcusedFacts ==
    ASSUME NEW x \in ReaderType
    PROVE  /\ Excused(x) \in ReaderType /\ Excused(x).at = x.at /\ Excused(x).excused
           /\ Excused(x).item = x.item
<1> DEFINE none == << >>
           yes == TRUE
           no == FALSE
           y == [x EXCEPT !.excused = yes, !.due = none, !.wrong = no]
<1>1. none \in Seq(Byte) /\ yes \in BOOLEAN /\ no \in BOOLEAN /\ yes
  OBVIOUS
<1>2. Excused(x) = y
  BY DEF Excused
<1> HIDE DEF none, yes, no
<1>3. y \in ReaderType /\ y.at = x.at /\ y.item = x.item /\ y.excused = yes
  BY <1>1 DEF ReaderType
<1> QED
  BY <1>1, <1>2, <1>3

\* What incr and decr in place write.
ChangedInPlace(buf, want, it) ==
    /\ item' = [item EXCEPT ![hash].chunk = memcpy(@, item_data(it), buf)]
    /\ wr' = [item |-> hash, nbyte |-> Len(buf), want |-> want,
              shrunk |-> it.shrunk \/ (it.raligned /\ Len(buf) < it.nbyte), delta |-> TRUE]
    /\ rd' = [r \in Reader |-> IF rd[r].item = hash /\ rd[r].at \in {"data", "send"}
                              THEN Excused(rd[r]) ELSE rd[r]]
    /\ hash' = hash

\* incr and decr in place: the number is written where the old one starts.
LEMMA DeltaInPlace ==
    ASSUME DataInv, NEW incr \in BOOLEAN, NEW d \in Delta, Unlocked, hash # NoItem,
           NEW it, it = item[hash], Readable(Stored(it)),
           NEW buf, buf = Changed(Stored(it), incr, d),
           NEW want, want = Changed(it.want, incr, d),
           Len(buf) <= it.nbyte,
           ChangedInPlace(buf, want, it)
    PROVE  DataInv'
<1> DEFINE pos == item_data(it)
           it2 == [it EXCEPT !.chunk = memcpy(it.chunk, pos, buf)]
           new == item_data([it2 EXCEPT !.nbyte = Len(buf)])
<1>1. Items /\ Readers
  BY DEF DataInv
<1>2. hash \in Item /\ Good(it) /\ (~it.shrunk => Stored(it) = it.want)
  BY <1>1, LinkedGood
<1>3. /\ Stored(it) \in Seq(Byte) /\ it.want \in Seq(Byte) /\ it.shrunk \in BOOLEAN
      /\ it.raligned \in BOOLEAN /\ it.nbyte \in Nat /\ profile[it.id] \in Nat
      /\ Chunk(it, profile[it.id])
      /\ pos \in Int /\ pos > HDR_LEN /\ pos + it.nbyte - 1 <= profile[it.id]
  BY <1>2, GoodFacts
<1>4. buf \in Seq(Byte) /\ want \in Seq(Byte)
  BY <1>3, ChangedFacts
<1>5. Len(buf) \in Nat
  BY <1>4
<1>6. ~it.shrunk => buf = want
  BY <1>2
<1>7. Patched(it2, it, pos, buf)
  BY DEF Patched
<1>8. item' = [item EXCEPT ![hash] = it2] /\ hash' = hash
  BY DEF ChangedInPlace
<1>9. /\ wr' \in WriteType /\ wr'.item = hash /\ wr'.nbyte = Len(buf) /\ wr'.delta /\ wr'.want = want
      /\ ~wr'.shrunk => ~it.shrunk /\ (it.raligned => Len(buf) >= it.nbyte)
  <2>1. (it.shrunk \/ (it.raligned /\ Len(buf) < it.nbyte)) \in BOOLEAN
    OBVIOUS
  <2>2. wr'.shrunk = (it.shrunk \/ (it.raligned /\ Len(buf) < it.nbyte))
    BY DEF ChangedInPlace
  <2>3. /\ wr'.item = hash /\ wr'.nbyte = Len(buf) /\ wr'.delta /\ wr'.want = want
    BY DEF ChangedInPlace
  <2>4. wr' \in WriteType
    BY <2>1, <1>2, <1>4, <1>5 DEF ChangedInPlace, WriteType
  <2> QED
    BY <2>2, <2>3, <2>4, <1>3, <1>5
<1>10. HDR_LEN + it.nbyte + CRLF_LEN <= profile[it.id]
  BY <1>2 DEF Good
<1>11. pos = IF it.raligned THEN profile[it.id] - it.nbyte + 1 ELSE HDR_LEN + 1
  BY DEF item_data
<1> HIDE DEF pos, it2
<1>12. pos + Len(buf) - 1 <= profile[it.id] /\ pos >= 1
  <2> DEFINE a == it.nbyte
             b == Len(buf)
             c == profile[it.id]
  <2>1. a \in Nat /\ b \in Nat /\ c \in Nat /\ b <= a /\ pos \in Int /\ pos > HDR_LEN
        /\ pos + a - 1 <= c
    BY <1>3, <1>5
  <2>2. HDR_LEN \in Nat
    BY DataFacts
  <2> HIDE DEF a, b, c
  <2>3. pos + b - 1 <= c /\ pos >= 1
    BY <2>1, <2>2
  <2> QED
    BY <2>3 DEF b, c
<1>13. /\ Copied(it2, it, pos, buf) /\ it2.id = it.id
       /\ it2.raligned = it.raligned /\ Good(it2)
  <2>1. /\ Good(it) /\ pos \in Int /\ buf \in Seq(Byte)
        /\ pos > HDR_LEN /\ pos + Len(buf) - 1 <= profile[it.id]
        /\ Patched(it2, it, pos, buf)
    BY <1>2, <1>3, <1>4, <1>7, <1>12
  <2> QED
    BY <2>1, WriteGood
<1>14. new = IF it.raligned THEN profile[it.id] - Len(buf) + 1 ELSE HDR_LEN + 1
  <2>1. it2 \in [id : DOMAIN profile, nbyte : Nat, raligned : BOOLEAN, chunk : Seq(Byte),
                 want : Seq(Byte), shrunk : BOOLEAN]
    BY <1>13 DEF Good
  <2> QED
    BY <2>1, <1>13 DEF item_data
<1> HIDE DEF new
<1>15. Bytes(it2, pos, Len(buf)) = buf
  BY <1>3, <1>4, <1>12, <1>13, BytesWritten
<1>16. ASSUME ~wr'.shrunk PROVE new = pos /\ buf = want
  <2>1. it.raligned => Len(buf) = it.nbyte
    BY <1>3, <1>5, <1>9, <1>16
  <2> QED
    BY <2>1, <1>6, <1>9, <1>11, <1>14, <1>16
<1>17. HDR_LEN + Len(buf) + CRLF_LEN <= profile[it2.id]
  <2>1. it2.id = it.id
    BY <1>13
  <2>2. HDR_LEN + Len(buf) + CRLF_LEN <= profile[it.id]
    <3> DEFINE a == it.nbyte
               b == Len(buf)
               c == profile[it.id]
    <3>1. a \in Nat /\ b \in Nat /\ c \in Nat /\ b <= a /\ HDR_LEN + a + CRLF_LEN <= c
      BY <1>3, <1>5, <1>10
    <3>2. HDR_LEN \in Nat /\ CRLF_LEN \in Nat
      BY DataFacts
    <3> HIDE DEF a, b, c
    <3>3. HDR_LEN + b + CRLF_LEN <= c
      BY <3>1, <3>2
    <3> QED
      BY <3>3 DEF b, c
  <2> QED
    BY <2>1, <2>2
<1>18. InPlace(it2, wr')
  <2>1. ~wr'.shrunk => Bytes(it2, new, Len(buf)) = want
    BY <1>15, <1>16
  <2>2. wr'.delta /\ wr'.nbyte = Len(buf) /\ wr'.want = want
    BY <1>9
  <2> QED
    BY <2>1, <2>2, <1>17 DEF InPlace, new
<1>19. /\ Items' /\ Writing' /\ item'[hash] = it2
       /\ \A j \in Item : j # hash => item'[j] = item[j]
  <2>1. Rewrite(it2, item[hash], pos, buf, wr')
    BY <1>3, <1>4, <1>7, <1>9, <1>12, <1>18 DEF Rewrite
  <2> QED
    BY <2>1, <1>8, RewriteStep
<1>20. it2 # Blank
  BY <1>13, GoodFacts
<1>21. ASSUME NEW r \in Reader
       PROVE  rd'[r] \in ReaderType /\ ReaderOK(rd'[r], item'[rd'[r].item], wr')
  <2> DEFINE x == rd[r]
             y == rd'[r]
  <2>1. ReaderOK(x, item[x.item], wr) /\ x \in ReaderType
    BY <1>1 DEF Readers
  <2>2. y = IF x.item = hash /\ x.at \in {"data", "send"} THEN Excused(x) ELSE x
    BY DEF ChangedInPlace
  <2>3. x.item \in Item \cup {NoItem}
    BY <2>1 DEF ReaderType
  <2> HIDE DEF x, y
  <2>4. CASE x.item = hash /\ x.at \in {"data", "send"}
    <3>1. y = Excused(x)
      BY <2>2, <2>4
    <3>2. y \in ReaderType /\ y.at = x.at /\ y.excused /\ y.item = x.item
      BY <2>1, <3>1, ExcusedFacts
    <3>3. x.item # NoItem /\ item'[y.item] # Blank
      BY <3>2, <2>4, <1>2, <1>19, <1>20, DataFacts
    <3> QED
      BY <3>2, <3>3, <2>4 DEF ReaderOK, y
  <2>5. CASE x.item = hash /\ x.at \notin {"data", "send"}
    <3>1. y = x
      BY <2>2, <2>5
    <3>2. item'[y.item] # Blank
      BY <3>1, <2>5, <1>19, <1>20
    <3> QED
      BY <3>1, <3>2, <2>1, <2>5 DEF ReaderOK, y
  <2>6. CASE x.item \in Item /\ x.item # hash
    <3>1. y = x
      BY <2>2, <2>6
    <3>2. item'[y.item] = item[x.item]
      BY <3>1, <2>6, <1>19
    <3>3. ~Overwritten(wr', x.item)
      BY <2>6, <1>9 DEF Overwritten
    <3> QED
      BY <3>1, <3>2, <3>3, <2>1 DEF ReaderOK, y
  <2>7. CASE x.item = NoItem
    <3>1. y = x
      BY <2>2, <2>7
    <3> QED
      BY <3>1, <2>1, <2>7 DEF ReaderOK, y
  <2> QED
    BY <2>3, <2>4, <2>5, <2>6, <2>7
<1>22. Readers'
  <2>1. rd' \in [Reader -> ReaderType]
    BY <1>21 DEF ChangedInPlace
  <2> QED
    BY <2>1, <1>21 DEF Readers
<1> QED
  BY <1>19, <1>22 DEF DataInv

\* append and prepend (_item_annex), either way.
LEMMA AnnexStep ==
    ASSUME DataInv, NEW v \in Value, NEW prepend \in BOOLEAN, item_annex(v, prepend)
    PROVE  DataInv'
<1> DEFINE oit == item[hash]
           id == item_slabid(oit.nbyte + Len(v))
<1>1. Unlocked /\ hash # NoItem /\ id # SLABCLASS_INVALID_ID
  BY DEF item_annex
<1>2. CASE annex_in_place(oit, id, prepend)
  <2>1. AnnexedInPlace(v, prepend, oit)
    BY <1>2 DEF item_annex, AnnexedInPlace
  <2> QED
    BY <1>1, <1>2, <2>1, AnnexInPlace
<1>3. CASE ~annex_in_place(oit, id, prepend)
  <2>1. Relink(NewItem(id, prepend, Annexed(Stored(oit), v, prepend),
                       Annexed(oit.want, v, prepend), oit.shrunk))
    BY <1>3 DEF item_annex
  <2> QED
    BY <1>1, <2>1, AnnexCopy
<1> QED
  BY <1>2, <1>3

\* incr and decr (_item_delta), either way.
LEMMA DeltaStep ==
    ASSUME DataInv, NEW incr \in BOOLEAN, NEW d \in Delta, item_delta(incr, d)
    PROVE  DataInv'
<1> DEFINE it == item[hash]
           buf == Changed(Stored(it), incr, d)
           want == Changed(it.want, incr, d)
           no == FALSE
<1>1. Unlocked /\ hash # NoItem /\ Readable(Stored(it))
  BY DEF item_delta
<1>2. CASE Relink(NewItem(item_slabid(Len(buf)), no, buf, want, it.shrunk))
  <2>1. no = FALSE
    OBVIOUS
  <2> HIDE DEF no
  <2> QED
    BY <1>1, <1>2, <2>1, DeltaCopy
<1>3. CASE /\ Len(buf) <= it.nbyte
           /\ ChangedInPlace(buf, want, it)
  BY <1>1, <1>3, DeltaInPlace
<1> QED
  BY <1>2, <1>3 DEF item_delta, ChangedInPlace

\* The change in place ends: the item has the value that was written.
LEMMA SetNbyteStep ==
    ASSUME DataInv, set_nbyte
    PROVE  DataInv'
<1> DEFINE it == item[hash]
           want == IF wr.shrunk THEN << >> ELSE wr.want
           new == [it EXCEPT !.nbyte = wr.nbyte, !.shrunk = wr.shrunk, !.want = want]
           mid == [it EXCEPT !.nbyte = wr.nbyte]
<1>1. Items /\ Writing /\ Readers
  BY DEF DataInv
<1>2. ~Unlocked /\ wr' = NoWrite /\ hash' = hash /\ rd' = rd
  BY DEF set_nbyte
<1>3. wr \in WriteType /\ wr.item = hash /\ InPlace(it, wr)
  BY <1>1, <1>2 DEF Writing, WriteType
<1>4. /\ hash \in Item /\ wr.nbyte \in Nat /\ wr.want \in Seq(Byte) /\ wr.shrunk \in BOOLEAN
      /\ wr.delta \in BOOLEAN
  BY <1>3 DEF WriteType
<1>5. Good(it)
  BY <1>1, <1>4, LinkedGood, DataFacts
<1>6. item' = [item EXCEPT ![hash] = new]
  BY <1>3 DEF set_nbyte
<1>7. want \in Seq(Byte) /\ (~wr.shrunk => want = wr.want)
  BY <1>4
<1> HIDE DEF want
<1>8. it \in [id : DOMAIN profile, nbyte : Nat, raligned : BOOLEAN, chunk : Seq(Byte),
              want : Seq(Byte), shrunk : BOOLEAN]
  BY <1>5 DEF Good
<1> HIDE DEF it
<1>9. /\ new \in [id : DOMAIN profile, nbyte : Nat, raligned : BOOLEAN, chunk : Seq(Byte),
                  want : Seq(Byte), shrunk : BOOLEAN]
      /\ new.id = it.id /\ new.nbyte = wr.nbyte /\ new.raligned = it.raligned
      /\ new.chunk = it.chunk /\ new.want = want /\ new.shrunk = wr.shrunk
  BY <1>4, <1>7, <1>8
<1>10. mid.id = it.id /\ mid.nbyte = wr.nbyte /\ mid.raligned = it.raligned
  BY <1>8
<1> HIDE DEF new, mid
<1>11. item_data(new) = item_data(mid) /\ \A pos, n : Bytes(new, pos, n) = Bytes(it, pos, n)
  BY <1>9, <1>10 DEF item_data, Bytes
<1>12. /\ HDR_LEN + wr.nbyte + CRLF_LEN <= profile[it.id]
       /\ ~wr.shrunk => Bytes(it, item_data(mid), wr.nbyte) = wr.want
       /\ ~wr.delta => /\ item_data(mid) <= item_data(it)
                       /\ item_data(it) + it.nbyte <= item_data(mid) + wr.nbyte
  BY <1>3 DEF InPlace, mid
<1>13. Good(new)
  BY <1>5, <1>9, <1>12 DEF Good
<1>14. ~new.shrunk => Stored(new) = new.want
  BY <1>7, <1>9, <1>11, <1>12 DEF Stored
<1>15. item = [i \in Item |-> item[i]]
  BY <1>1 DEF Items
<1>16. /\ item'[hash] = new /\ \A j \in Item : j # hash => item'[j] = item[j]
       /\ item' = [i \in Item |-> item'[i]]
  BY <1>4, <1>6, <1>15
<1>17. \A j \in Item : ~Overwritten(wr', j)
  BY <1>2, DataFacts DEF Overwritten, NoWrite
<1>18. Items'
  <2>1. ASSUME NEW j \in Item, item'[j] # Blank
        PROVE  Good(item'[j]) /\ (~item'[j].shrunk => Stored(item'[j]) = item'[j].want)
    <3>1. CASE j = hash
      BY <3>1, <1>13, <1>14, <1>16
    <3>2. CASE j # hash
      <4>1. item'[j] = item[j]
        BY <3>2, <1>16
      <4>2. ~Overwritten(wr, j)
        BY <3>2, <1>3 DEF Overwritten
      <4> QED
        BY <4>1, <4>2, <2>1, <1>1 DEF Items
    <3> QED
      BY <3>1, <3>2
  <2>2. new # Blank
    BY <1>13, GoodFacts
  <2> QED
    BY <2>1, <2>2, <1>2, <1>4, <1>16 DEF Items
<1>19. Writing'
  BY <1>2 DEF Writing, Unlocked
<1>20. ASSUME NEW r \in Reader
       PROVE  ReaderOK(rd[r], item'[rd[r].item], wr')
  <2> DEFINE x == rd[r]
  <2>1. ReaderOK(x, item[x.item], wr) /\ x \in ReaderType
    BY <1>1 DEF Readers
  <2>2. x.item \in Item \cup {NoItem} /\ x.pos \in Int /\ x.nbyte \in Nat
    BY <2>1 DEF ReaderType
  <2> HIDE DEF x
  <2>3. CASE x.item = hash
    <3>1. new # Blank
      BY <1>13, GoodFacts
    <3>2. ASSUME Reading(x, it), ~Overwritten(wr, x.item) PROVE Reading(x, new)
      <4>1. ~wr.delta
        BY <3>2, <2>3, <1>3 DEF Overwritten
      <4>2. item_data(it) \in Int /\ item_data(new) \in Int /\ it.nbyte \in Nat
        BY <1>5, <1>13, GoodFacts
      <4>3. item_data(new) <= item_data(it) /\ item_data(it) + it.nbyte <= item_data(new) + new.nbyte
        BY <4>1, <1>9, <1>11, <1>12
      <4>4. item_data(it) <= x.pos /\ x.pos + x.nbyte <= item_data(it) + it.nbyte
        BY <3>2 DEF Reading
      <4>5. new.nbyte \in Nat
        BY <1>4, <1>9
      <4>6. item_data(new) <= x.pos /\ x.pos + x.nbyte <= item_data(new) + new.nbyte
        BY <4>2, <4>3, <4>4, <4>5, <2>2
      <4> QED
        BY <3>2, <4>6, <1>11 DEF Reading
    <3>3. item[x.item] = it /\ item'[x.item] = new /\ ~Overwritten(wr', x.item)
      BY <2>3, <1>4, <1>16, <1>17 DEF it
    <3> QED
      BY <3>1, <3>2, <3>3, <2>1 DEF ReaderOK, x
  <2>4. CASE x.item \in Item /\ x.item # hash
    <3>1. item'[x.item] = item[x.item] /\ ~Overwritten(wr', x.item)
      BY <2>4, <1>16, <1>17
    <3> QED
      BY <3>1, <2>1 DEF ReaderOK, x
  <2>5. CASE x.item = NoItem
    BY <2>1, <2>5 DEF ReaderOK, x
  <2> QED
    BY <2>2, <2>3, <2>4, <2>5
<1>21. Readers'
  BY <1>1, <1>2, <1>20 DEF Readers
<1> QED
  BY <1>18, <1>19, <1>21 DEF DataInv

-----------------------------------------------------------------------------
(***************************************************************************)
(* Steps of the readers.                                                   *)
(***************************************************************************)

\* A reader goes on; nothing else changes.
LEMMA ReaderStep ==
    ASSUME DataInv, item' = item, hash' = hash, wr' = wr, NEW r \in Reader,
           NEW x \in ReaderType, rd' = [rd EXCEPT ![r] = x], ReaderOK(x, item[x.item], wr)
    PROVE  DataInv'
<1>1. Items /\ Writing /\ Readers
  BY DEF DataInv
<1>2. rd \in [Reader -> ReaderType]
  BY <1>1 DEF Readers
<1>3. rd'[r] = x /\ \A q \in Reader : q # r => rd'[q] = rd[q]
  BY <1>2
<1>4. rd' \in [Reader -> ReaderType]
  BY <1>2
<1>5. \A q \in Reader : ReaderOK(rd'[q], item[rd'[q].item], wr)
  <2>1. ASSUME NEW q \in Reader PROVE ReaderOK(rd'[q], item[rd'[q].item], wr)
    <3>1. CASE q = r
      BY <3>1, <1>3
    <3>2. CASE q # r
      BY <3>2, <1>1, <1>3 DEF Readers
    <3> QED
      BY <3>1, <3>2
  <2> QED
    BY <2>1
<1>6. Readers'
  BY <1>4, <1>5 DEF Readers
<1>7. Items' /\ Writing'
  BY <1>1 DEF Items, Writing, Unlocked
<1> QED
  BY <1>6, <1>7 DEF DataInv

\* The item of a reader that has one.
LEMMA ReaderItem ==
    ASSUME DataInv, NEW r \in Reader, rd[r].at # "idle"
    PROVE  /\ rd[r] \in ReaderType /\ rd[r].item \in Item /\ Good(item[rd[r].item])
           /\ ReaderOK(rd[r], item[rd[r].item], wr)
           /\ ~item[rd[r].item].shrunk /\ ~Overwritten(wr, rd[r].item) =>
                 Stored(item[rd[r].item]) = item[rd[r].item].want
<1>1. rd[r] \in ReaderType /\ ReaderOK(rd[r], item[rd[r].item], wr) /\ Items
  BY DEF DataInv, Readers
<1>2. rd[r].item \in Item \cup {NoItem}
  BY <1>1 DEF ReaderType
<1>3. rd[r].item # NoItem /\ item[rd[r].item] # Blank
  BY <1>1 DEF ReaderOK
<1> QED
  BY <1>1, <1>2, <1>3 DEF Items

\* item_get: the reader has an item and knows nothing of it.
LEMMA GetStep ==
    ASSUME DataInv, NEW r \in Reader, item_get(r)
    PROVE  DataInv'
<1> DEFINE x == [rd[r] EXCEPT !.at = "nbyte", !.item = hash]
<1>1. /\ rd[r].at = "idle" /\ hash # NoItem
      /\ item' = item /\ hash' = hash /\ wr' = wr
  BY DEF item_get
<1>2. Items /\ Readers
  BY DEF DataInv
<1>3. rd' = [rd EXCEPT ![r] = x]
  BY DEF item_get
<1>4. rd[r] = NoRead
  BY <1>1, <1>2 DEF Readers, ReaderOK
<1>5. hash \in Item /\ item[hash] # Blank
  BY <1>1, <1>2 DEF Items
<1>6. rd[r] \in ReaderType
  BY <1>2 DEF Readers
<1>7. x \in ReaderType /\ x.at = "nbyte" /\ x.item = hash
  BY <1>5, <1>6 DEF ReaderType
<1>8. x = [NoRead EXCEPT !.at = "nbyte", !.item = x.item]
  BY <1>4, <1>7
<1> HIDE DEF x
<1>9. ReaderOK(x, item[x.item], wr)
  BY <1>1, <1>5, <1>7, <1>8 DEF ReaderOK
<1> QED
  BY <1>1, <1>3, <1>7, <1>9, ReaderStep

\* The length is read: unless the value is flagged it is all of the value.
LEMMA NbyteStep ==
    ASSUME DataInv, NEW r \in Reader, respond_nbyte(r)
    PROVE  DataInv'
<1> DEFINE it == item[rd[r].item]
           new == [rd[r] EXCEPT !.at = "data", !.nbyte = it.nbyte, !.pos = item_data(it),
                                !.due = it.want]
           x == IF it.shrunk \/ (wr.item = rd[r].item /\ wr.delta) THEN Excused(new) ELSE new
<1>1. rd[r].at = "nbyte" /\ item' = item /\ hash' = hash /\ wr' = wr
  BY DEF respond_nbyte
<1>2. rd \in [Reader -> ReaderType]
  BY DEF DataInv, Readers
<1>3. rd' = [rd EXCEPT ![r] = x]
  BY <1>2 DEF respond_nbyte
<1>4. /\ rd[r] \in ReaderType /\ rd[r].item \in Item /\ Good(it)
      /\ ReaderOK(rd[r], it, wr)
      /\ ~it.shrunk /\ ~Overwritten(wr, rd[r].item) => Stored(it) = it.want
  BY <1>1, ReaderItem
<1>5. ~rd[r].wrong
  BY <1>1, <1>4 DEF ReaderOK, NoRead
<1> HIDE DEF it
<1>6. /\ it.nbyte \in Nat /\ item_data(it) \in Int /\ it.want \in Seq(Byte)
      /\ Len(Stored(it)) = it.nbyte /\ it # Blank
  BY <1>4, GoodFacts
<1>7. /\ new \in ReaderType /\ new.at = "data" /\ new.item = rd[r].item /\ new.nbyte = it.nbyte
      /\ new.pos = item_data(it) /\ new.due = it.want /\ new.wrong = rd[r].wrong
  BY <1>4, <1>6 DEF ReaderType
<1>8. x = IF it.shrunk \/ Overwritten(wr, rd[r].item) THEN Excused(new) ELSE new
  BY DEF Overwritten
<1> HIDE DEF new, x
<1>9. /\ x \in ReaderType /\ x.at = "data" /\ x.item = rd[r].item
      /\ ~x.excused => x = new /\ ~it.shrunk /\ ~Overwritten(wr, rd[r].item)
  BY <1>7, <1>8, ExcusedFacts
<1>10. ASSUME ~it.shrunk, ~Overwritten(wr, rd[r].item) PROVE Reading(new, it)
  <2>1. Bytes(it, item_data(it), it.nbyte) = it.want /\ Len(it.want) = it.nbyte
    BY <1>4, <1>6, <1>10 DEF Stored
  <2> QED
    BY <2>1, <1>5, <1>6, <1>7 DEF Reading
<1>11. rd[r].item # NoItem
  BY <1>4, DataFacts
<1>12. ReaderOK(x, it, wr)
  BY <1>6, <1>9, <1>10, <1>11 DEF ReaderOK
<1>13. ReaderOK(x, item[x.item], wr)
  BY <1>9, <1>12 DEF it
<1> QED
  BY <1>1, <1>3, <1>9, <1>13, ReaderStep

\* The place is read: unless it has moved it is that of the length.
LEMMA PlaceStep ==
    ASSUME DataInv, NEW r \in Reader, respond_data(r)
    PROVE  DataInv'
<1> DEFINE it == item[rd[r].item]
           pos == item_data(it)
           new == [rd[r] EXCEPT !.at = "send", !.pos = pos]
           x == IF pos # rd[r].pos THEN Excused(new) ELSE new
<1>1. rd[r].at = "data" /\ item' = item /\ hash' = hash /\ wr' = wr
  BY DEF respond_data
<1>2. rd \in [Reader -> ReaderType]
  BY DEF DataInv, Readers
<1>3. rd' = [rd EXCEPT ![r] = x]
  BY <1>2 DEF respond_data
<1>4. /\ rd[r] \in ReaderType /\ rd[r].item \in Item /\ Good(it)
      /\ ReaderOK(rd[r], it, wr)
  BY <1>1, ReaderItem
<1> HIDE DEF it
<1>5. pos \in Int /\ it # Blank
  BY <1>4, GoodFacts
<1> HIDE DEF pos
<1>6. /\ new \in ReaderType /\ new.at = "send" /\ new.item = rd[r].item /\ new.nbyte = rd[r].nbyte
      /\ new.pos = pos /\ new.due = rd[r].due /\ new.wrong = rd[r].wrong
      /\ new.excused = rd[r].excused
  BY <1>4, <1>5 DEF ReaderType
<1>7. x = IF pos # rd[r].pos THEN Excused(new) ELSE new
  OBVIOUS
<1> HIDE DEF new, x
<1>8. /\ x \in ReaderType /\ x.at = "send" /\ x.item = rd[r].item
      /\ ~x.excused => x = new /\ pos = rd[r].pos
  BY <1>6, <1>7, ExcusedFacts
<1>9. ASSUME ~x.excused PROVE Reading(x, it) /\ ~Overwritten(wr, rd[r].item)
  <2>1. x = new /\ ~rd[r].excused /\ pos = rd[r].pos
    BY <1>6, <1>8, <1>9
  <2>2. Reading(rd[r], it) /\ ~Overwritten(wr, rd[r].item)
    BY <2>1, <1>1, <1>4 DEF ReaderOK
  <2> QED
    BY <2>1, <2>2, <1>6 DEF Reading
<1>10. rd[r].item # NoItem
  BY <1>4, DataFacts
<1>11. ReaderOK(x, it, wr)
  BY <1>5, <1>8, <1>9, <1>10 DEF ReaderOK
<1>12. ReaderOK(x, item[x.item], wr)
  BY <1>8, <1>11 DEF it
<1> QED
  BY <1>1, <1>3, <1>8, <1>12, ReaderStep

\* Bytes are sent: they are part of the value that is due.
LEMMA TransmitStep ==
    ASSUME DataInv, NEW r \in Reader, core_transmit(r)
    PROVE  DataInv'
<1>1. rd[r].at = "send" /\ item' = item /\ hash' = hash /\ wr' = wr
  BY DEF core_transmit
<1>2. rd \in [Reader -> ReaderType]
  BY DEF DataInv, Readers
<1>3. PICK n \in 1..(rd[r].nbyte - rd[r].sent) :
          rd' = [rd EXCEPT ![r].sent = @ + n,
                           ![r].wrong = /\ ~rd[r].excused
                                        /\ @ \/ Bytes(item[rd[r].item], rd[r].pos + rd[r].sent, n)
                                                # SubSeq(rd[r].due, rd[r].sent + 1, rd[r].sent + n)]
  BY DEF core_transmit
<1> DEFINE it == item[rd[r].item]
           old == rd[r]
           wrong == /\ ~old.excused
                    /\ \/ old.wrong
                       \/ Bytes(it, old.pos + old.sent, n) # SubSeq(old.due, old.sent + 1, old.sent + n)
           x == [old EXCEPT !.sent = old.sent + n, !.wrong = wrong]
<1>4. rd' = [rd EXCEPT ![r] = x]
  BY <1>2, <1>3
<1>5. old \in ReaderType /\ old.item \in Item /\ Good(it) /\ ReaderOK(old, it, wr)
  BY <1>1, ReaderItem
<1>6. wrong \in BOOLEAN
  OBVIOUS
<1>7. old.at = "send"
  BY <1>1
<1> HIDE DEF it, old
<1>8. old.nbyte \in Nat /\ old.sent \in Nat /\ old.pos \in Int /\ old.item # NoItem
  BY <1>5, DataFacts DEF ReaderType
<1>9. n \in Nat /\ old.sent + n <= old.nbyte
  BY <1>8 DEF old
<1>10. ASSUME ~old.excused PROVE ~wrong
  <2>1. ~old.wrong /\ Bytes(it, old.pos, old.nbyte) = old.due
    BY <1>5, <1>7, <1>10 DEF ReaderOK, Reading
  <2>2. Chunk(it, profile[it.id])
    BY <1>5, GoodFacts
  <2>3. SubSeq(Bytes(it, old.pos, old.nbyte), old.sent + 1, old.sent + n)
            = Bytes(it, old.pos + old.sent, n)
    BY <2>2, <1>8, <1>9, BytesPart
  <2> QED
    BY <2>1, <2>3
<1> HIDE DEF wrong
<1>11. old.sent + n \in Nat
  BY <1>8, <1>9
<1>12. /\ x \in ReaderType /\ x.at = "send" /\ x.item = old.item /\ x.nbyte = old.nbyte
       /\ x.pos = old.pos /\ x.due = old.due /\ x.wrong = wrong /\ x.excused = old.excused
  BY <1>5, <1>6, <1>7, <1>11 DEF ReaderType
<1> HIDE DEF x
<1>13. ASSUME ~x.excused PROVE Reading(x, it) /\ ~Overwritten(wr, x.item)
  <2>1. Reading(old, it) /\ ~Overwritten(wr, old.item)
    BY <1>5, <1>7, <1>12, <1>13 DEF ReaderOK
  <2> QED
    BY <2>1, <1>10, <1>12, <1>13 DEF Reading
<1>14. it # Blank
  BY <1>5, GoodFacts
<1>15. ReaderOK(x, it, wr)
  BY <1>8, <1>12, <1>13, <1>14 DEF ReaderOK
<1>16. ReaderOK(x, item[x.item], wr)
  BY <1>12, <1>15 DEF it, old
<1> QED
  BY <1>1, <1>4, <1>12, <1>16, ReaderStep

\* item_remove: the item stays if it is linked or somebody else reads it.
LEMMA RemoveStep ==
    ASSUME DataInv, NEW r \in Reader, item_remove(r)
    PROVE  DataInv'
<1>1. /\ Unlocked /\ rd' = [rd EXCEPT ![r] = NoRead] /\ item' = Kept(item, hash, rd')
      /\ hash' = hash /\ wr' = wr
  BY DEF item_remove
<1>2. Items /\ Readers
  BY DEF DataInv
<1>3. rd \in [Reader -> ReaderType]
  BY <1>2 DEF Readers
<1>4. rd'[r] = NoRead /\ \A q \in Reader : q # r => rd'[q] = rd[q]
  BY <1>1, <1>3
<1>5. NoRead \in ReaderType /\ NoRead.at = "idle" /\ NoRead.item = NoItem
  BY DEF NoRead, ReaderType
<1>6. rd' \in [Reader -> ReaderType]
  BY <1>1, <1>3, <1>5
<1>7. /\ item' = [j \in Item |-> item'[j]]
      /\ \A j \in Item : item'[j] # Blank => item'[j] = item[j]
      /\ hash \in Item => item'[hash] = item[hash]
      /\ \A q \in Reader : rd'[q].item \in Item => item'[rd'[q].item] = item[rd'[q].item]
  <2>1. item' = Kept(item, hash, rd')
    BY <1>1
  <2> DEFINE readers == rd'
             kept == item'
  <2>2. kept = Kept(item, hash, readers)
    BY <2>1
  <2> HIDE DEF readers, kept
  <2>3. /\ kept = [j \in Item |-> kept[j]]
        /\ \A j \in Item : kept[j] # Blank => kept[j] = item[j]
        /\ hash \in Item => kept[hash] = item[hash]
        /\ \A q \in Reader : readers[q].item \in Item =>
               kept[readers[q].item] = item[readers[q].item]
    BY <2>2, KeptFacts
  <2> QED
    BY <2>3 DEF readers, kept
<1>8. \A j \in Item : ~Overwritten(wr, j) /\ ~Overwritten(wr', j)
  BY <1>1, NotOverwritten DEF Overwritten
<1>9. Items'
  <2>1. \A j \in Item : item'[j] # Blank =>
            Good(item'[j]) /\ (~item'[j].shrunk => Stored(item'[j]) = item'[j].want)
    BY <1>2, <1>7, <1>8 DEF Items
  <2>2. hash \in Item \cup {NoItem} /\ (hash # NoItem => item'[hash] # Blank)
    BY <1>2, <1>7 DEF Items
  <2> QED
    BY <2>1, <2>2, <1>1, <1>7 DEF Items
<1>10. ASSUME NEW q \in Reader PROVE ReaderOK(rd'[q], item'[rd'[q].item], wr')
  <2>1. CASE q = r
    BY <2>1, <1>4, <1>5 DEF ReaderOK
  <2>2. CASE q # r
    <3>1. rd'[q] = rd[q] /\ ReaderOK(rd[q], item[rd[q].item], wr)
      BY <2>2, <1>2, <1>4 DEF Readers
    <3>2. rd[q].item \in Item \cup {NoItem}
      BY <1>3 DEF ReaderType
    <3>3. CASE rd[q].item \in Item
      <4>1. item'[rd'[q].item] = item[rd[q].item]
        BY <3>1, <3>3, <1>7
      <4> QED
        BY <3>1, <4>1, <1>1
    <3>4. CASE rd[q].item = NoItem
      BY <3>1, <3>4 DEF ReaderOK
    <3> QED
      BY <3>2, <3>3, <3>4
  <2> QED
    BY <2>1, <2>2
<1>11. Readers'
  BY <1>6, <1>10 DEF Readers
<1>12. Writing'
  BY <1>1 DEF Writing, Unlocked
<1> QED
  BY <1>9, <1>11, <1>12 DEF DataInv

-----------------------------------------------------------------------------
(***************************************************************************)
(* The theorems about the bytes of values.                                 *)
(***************************************************************************)
\* At the beginning there are no items and no readers.
LEMMA DataInitInv ==
    ASSUME DataInit
    PROVE  DataInv
<1>1. Items
  BY DEF DataInit, Items
<1>2. Writing
  BY DEF DataInit, Writing, Unlocked
<1>3. NoRead \in ReaderType /\ NoRead.at = "idle"
  BY DEF NoRead, ReaderType
<1>4. Readers
  BY <1>3 DEF DataInit, Readers, ReaderOK
<1> QED
  BY <1>1, <1>2, <1>4 DEF DataInv

\* Every step keeps the invariant.
LEMMA DataStep ==
    ASSUME DataInv, [DataNext]_data_vars
    PROVE  DataInv'
<1>1. ASSUME NEW v \in Value, item_set(v) PROVE DataInv'
  BY <1>1, SetStep
<1>2. ASSUME item_delete PROVE DataInv'
  BY <1>2, DeleteStep
<1>3. ASSUME NEW v \in Value, NEW prepend \in BOOLEAN, item_annex(v, prepend) PROVE DataInv'
  BY <1>3, AnnexStep
<1>4. ASSUME NEW incr \in BOOLEAN, NEW d \in Delta, item_delta(incr, d) PROVE DataInv'
  BY <1>4, DeltaStep
<1>5. ASSUME set_nbyte PROVE DataInv'
  BY <1>5, SetNbyteStep
<1>6. ASSUME NEW r \in Reader, item_get(r) PROVE DataInv'
  BY <1>6, GetStep
<1>7. ASSUME NEW r \in Reader, respond_nbyte(r) PROVE DataInv'
  BY <1>7, NbyteStep
<1>8. ASSUME NEW r \in Reader, respond_data(r) PROVE DataInv'
  BY <1>8, PlaceStep
<1>9. ASSUME NEW r \in Reader, core_transmit(r) PROVE DataInv'
  BY <1>9, TransmitStep
<1>10. ASSUME NEW r \in Reader, item_remove(r) PROVE DataInv'
  BY <1>10, RemoveStep
<1>11. ASSUME UNCHANGED data_vars PROVE DataInv'
  <2>1. item' = item /\ hash' = hash /\ wr' = wr /\ rd' = rd
    BY <1>11 DEF data_vars
  <2> QED
    BY <2>1 DEF DataInv, Items, Writing, Readers, Unlocked
<1> QED
  BY <1>1, <1>2, <1>3, <1>4, <1>5, <1>6, <1>7, <1>8, <1>9, <1>10, <1>11 DEF DataNext

\* The inductive invariant holds of every reachable state.
THEOREM DataInvariant == DataSpec => []DataInv
<1>1. DataInit => DataInv
  BY DataInitInv
<1>2. DataInv /\ [DataNext]_data_vars => DataInv'
  BY DataStep
<1> QED
  BY <1>1, <1>2, PTL DEF DataSpec

\* No header or key is overwritten and no value leaves its item, whatever is
\* stored, appended, prepended, counted and read in whatever order (_item_annex,
\* _item_delta).
THEOREM ValuesStayInside == DataSpec => []ValueInside
<1>1. DataInv => ValueInside
  <2>1. SUFFICES ASSUME DataInv PROVE ValueInside
    OBVIOUS
  <2>2. Items /\ Readers
    BY <2>1 DEF DataInv
  <2>3. ASSUME NEW i \in Item, item[i] # Blank
        PROVE  /\ item[i].id \in DOMAIN profile
               /\ item[i].chunk \in [1..profile[item[i].id] -> Byte]
               /\ item[i].nbyte \in 0..profile[item[i].id]
               /\ \A p \in 1..HDR_LEN : item[i].chunk[p] = Key
               /\ item_data(item[i]) > HDR_LEN
               /\ item_data(item[i]) + item[i].nbyte - 1 <= profile[item[i].id]
    <3> DEFINE it == item[i]
    <3>1. Good(it)
      BY <2>2, <2>3 DEF Items
    <3> HIDE DEF it
    <3>2. /\ it.id \in DOMAIN profile /\ profile[it.id] \in Nat /\ it.nbyte \in Nat
          /\ item_data(it) > HDR_LEN /\ item_data(it) + it.nbyte - 1 <= profile[it.id]
      BY <3>1, GoodFacts
    <3>3. /\ it.chunk \in [1..profile[it.id] -> Byte]
          /\ \A p \in 1..HDR_LEN : it.chunk[p] = Key
          /\ HDR_LEN + it.nbyte + CRLF_LEN <= profile[it.id]
      BY <3>1 DEF Good
    <3>4. it.nbyte \in 0..profile[it.id]
      BY <3>2, <3>3, DataFacts
    <3> QED
      BY <3>2, <3>3, <3>4 DEF it
  <2>4. DataTypeOK
    <3>1. hash \in Item \cup {NoItem}
      BY <2>2 DEF Items
    <3>2. \A r \in Reader : /\ rd[r].at \in {"idle", "nbyte", "data", "send"}
                            /\ rd[r].item \in Item \cup {NoItem}
      BY <2>2 DEF Readers, ReaderType
    <3> QED
      BY <2>3, <3>1, <3>2 DEF DataTypeOK
  <2> QED
    BY <2>3, <2>4 DEF ValueInside
<1> QED
  BY <1>1, DataInvariant, PTL

\* The linked item holds what all commands since the last set make together,
\* whatever mix of copies and changes in place carried them out (_item_annex,
\* _item_delta).
THEOREM ValuesAsIntended == DataSpec => []ValueIntended
<1>1. DataInv => ValueIntended
  BY LinkedGood DEF DataInv, ValueIntended
<1> QED
  BY <1>1, DataInvariant, PTL

\* A reply holds the bytes the item had when its length was read, whatever is
\* stored, deleted or added in place meanwhile (asc_respond_get, core_transmit).
THEOREM RepliesAsStored == DataSpec => []SentAsStored
<1>1. DataInv => SentAsStored
  BY DEF DataInv, Readers, ReaderOK, Reading, SentAsStored
<1> QED
  BY <1>1, DataInvariant, PTL

-----------------------------------------------------------------------------
(***************************************************************************)
(* The classes made at startup.                                            *)
(***************************************************************************)
SizeStep(chunk, factor, f, i) ==
    IF i <= SLABCLASS_MIN_ID THEN chunk ELSE next_size(f[i - 1], factor)

Sizes(chunk, factor) == CHOOSE f : f = [i \in Nat |-> SizeStep(chunk, factor, f, i)]

\* A factor that does not shrink what it multiplies.
Growing(factor) == factor \in Nat \X Nat /\ factor[2] > 0 /\ factor[1] >= factor[2]

\* Aligning rounds up.
LEMMA AlignFacts ==
    ASSUME NEW d \in Nat
    PROVE  MC_ALIGN(d) \in Nat /\ MC_ALIGN(d) >= d
<1>1. MC_ALIGNMENT \in Nat /\ MC_ALIGNMENT > 0
  BY ProfileAssumption
<1>2. ASSUME NEW a \in Nat, a > 0
      PROVE  /\ ((d + a - 1) \div a) * a \in Nat
             /\ ((d + a - 1) \div a) * a >= d
  <2>1. d + a - 1 \in Nat
    BY <1>2
  <2>2. CASE a = 1
    BY <2>2
  <2>3. CASE a > 1
    <3> DEFINE e == d + a - 1
    <3>1. /\ e \div a \in Nat /\ e % a \in 0..(a - 1)
          /\ e = (e \div a) * a + (e % a)
      BY <2>1, <2>3, DivFacts
    <3>2. ASSUME NEW q \in Nat, NEW r \in 0..(a - 1), d + a - 1 = q * a + r
          PROVE  q * a \in Nat /\ q * a >= d
      <4>1. q * a \in Nat
        OBVIOUS
      <4> QED
        BY <4>1, <3>2
    <3> QED
      BY <3>1, <3>2
  <2> QED
    BY <1>2, <2>2, <2>3
<1> QED
  BY <1>1, <1>2 DEF MC_ALIGN

\* The next size is larger.
LEMMA NextSize ==
    ASSUME NEW factor, Growing(factor), NEW sz \in Nat
    PROVE  next_size(sz, factor) \in Nat /\ next_size(sz, factor) > sz
<1> DEFINE grown == (sz * factor[1]) \div factor[2]
<1>1. factor[1] \in Nat /\ factor[2] \in Nat /\ factor[2] > 0 /\ factor[1] >= factor[2]
  BY DEF Growing
<1>2. ASSUME NEW a \in Nat, NEW b \in Nat, b > 0, a >= b
      PROVE  (sz * a) \div b \in Nat /\ (sz * a) \div b >= sz
  <2>1. PICK k \in Nat : a = b + k
    <3>1. a - b \in Nat /\ a = b + (a - b)
      BY <1>2
    <3> QED
      BY <3>1
  <2>2. sz * a \in Nat /\ sz * a = sz * b + sz * k /\ sz * k \in Nat /\ sz * b \in Nat
    BY <2>1
  <2>3. CASE b = 1
    <3>1. (sz * a) \div b = sz * a
      BY <2>2, <2>3
    <3>2. sz * b = sz
      BY <2>3
    <3> QED
      BY <3>1, <3>2, <2>2
  <2>4. CASE b > 1
    <3> DEFINE q == (sz * a) \div b
    <3>1. /\ q \in Nat /\ (sz * a) % b \in 0..(b - 1)
          /\ sz * a = q * b + ((sz * a) % b)
      BY <2>2, <2>4, DivFacts
    <3> HIDE DEF q
    <3>2. ASSUME q < sz PROVE FALSE
      <4>1. PICK j \in Nat : sz = q + 1 + j
        <5>1. sz - q - 1 \in Nat /\ sz = q + 1 + (sz - q - 1)
          BY <3>1, <3>2
        <5> QED
          BY <5>1
      <4>2. sz * b = q * b + b + j * b /\ q * b \in Nat /\ j * b \in Nat
        BY <4>1, <3>1
      <4> QED
        BY <4>2, <2>2, <3>1
    <3>3. q \in Nat /\ q >= sz
      BY <3>1, <3>2
    <3> QED
      BY <3>3 DEF q
  <2> QED
    BY <1>2, <2>3, <2>4
<1>3. grown \in Nat /\ grown >= sz
  BY <1>1, <1>2
<1>4. next_size(sz, factor) = MC_ALIGN(IF grown = sz THEN grown + 1 ELSE grown)
  BY DEF next_size
<1> HIDE DEF grown
<1> DEFINE up == IF grown = sz THEN grown + 1 ELSE grown
<1>5. up \in Nat /\ up > sz
  BY <1>3
<1>6. next_size(sz, factor) = MC_ALIGN(up)
  BY <1>4
<1> HIDE DEF up
<1>7. MC_ALIGN(up) \in Nat /\ MC_ALIGN(up) >= up
  BY <1>5, AlignFacts
<1> QED
  BY <1>5, <1>6, <1>7

\* The sizes computed, one from the other.
LEMMA SizesGrow ==
    ASSUME NEW chunk \in Nat, NEW factor, Growing(factor)
    PROVE  /\ \A i \in Nat : Sizes(chunk, factor)[i] \in Nat
           /\ Sizes(chunk, factor)[1] = chunk
           /\ \A i \in Nat : i > 1 => Sizes(chunk, factor)[i - 1] < Sizes(chunk, factor)[i]
<1> DEFINE m == [i \in Nat |-> i]
           B == [f \in [Nat -> Nat] |-> [i \in Nat |-> SizeStep(chunk, factor, f, i)]]
           S == Sizes(chunk, factor)
<1>1. m \in [Nat -> Nat]
  OBVIOUS
<1>2. ASSUME NEW f, NEW i \in Nat, i > 1 => f[i - 1] \in Nat
      PROVE  SizeStep(chunk, factor, f, i) \in Nat
  BY <1>2, NextSize DEF SizeStep, SLABCLASS_MIN_ID
<1>3. B \in [[Nat -> Nat] -> [Nat -> Nat]]
  <2>1. ASSUME NEW f \in [Nat -> Nat], NEW i \in Nat PROVE SizeStep(chunk, factor, f, i) \in Nat
    BY <1>2
  <2> QED
    BY <2>1
<1>4. ASSUME NEW f \in [Nat -> Nat], NEW g \in [Nat -> Nat], NEW i \in Nat,
             \A y \in Nat : m[y] < m[i] => f[y] = g[y]
      PROVE  SizeStep(chunk, factor, f, i) = SizeStep(chunk, factor, g, i)
  <2>1. CASE i > 1
    <3>1. f[i - 1] = g[i - 1]
      BY <1>4, <2>1
    <3> QED
      BY <3>1 DEF SizeStep
  <2>2. CASE ~(i > 1)
    BY <2>2 DEF SizeStep, SLABCLASS_MIN_ID
  <2> QED
    BY <2>1, <2>2
<1>5. [Nat -> Nat] # {}
  <2>1. [i \in Nat |-> 0] \in [Nat -> Nat]
    OBVIOUS
  <2> QED
    BY <2>1
<1>6. Descends(Nat, Nat, m, B)
  <2>1. ASSUME NEW f \in [Nat -> Nat], NEW g \in [Nat -> Nat], NEW i \in Nat,
               \A y \in Nat : m[y] < m[i] => f[y] = g[y]
        PROVE  B[f][i] = B[g][i]
    <3>1. SizeStep(chunk, factor, f, i) = SizeStep(chunk, factor, g, i)
      <4> HIDE DEF m
      <4> QED
        BY <1>4, <2>1
    <3> QED
      BY <3>1
  <2> HIDE DEF m, B
  <2> QED
    BY <2>1, <1>1, <1>3, <1>5 DEF Descends
<1>7. Recurs(Nat, Nat, B)
  BY <1>6, Recursion
<1>8. \E f : f = [i \in Nat |-> SizeStep(chunk, factor, f, i)]
  BY <1>7 DEF Recurs
<1>9. S = [i \in Nat |-> SizeStep(chunk, factor, S, i)]
  BY <1>8 DEF Sizes
<1> HIDE DEF S
<1>10. \A i \in Nat : S[i] = SizeStep(chunk, factor, S, i)
  BY <1>9, Zenon
<1> DEFINE I == {i \in Nat : S[i] \in Nat}
<1>11. 0 \in I
  BY <1>2, <1>10
<1>12. ASSUME NEW i \in Nat, i \in I PROVE i + 1 \in I
  <2>1. (i + 1) - 1 = i /\ i + 1 \in Nat
    OBVIOUS
  <2>2. SizeStep(chunk, factor, S, i + 1) \in Nat
    BY <2>1, <1>2, <1>12
  <2> QED
    BY <2>1, <2>2, <1>10
<1>13. \A i \in Nat : i \in I
  <2> HIDE DEF I
  <2> QED
    BY <1>11, <1>12, SetInduction
<1>14. S[1] = chunk
  BY <1>10 DEF SizeStep, SLABCLASS_MIN_ID
<1>15. ASSUME NEW i \in Nat, i > 1 PROVE S[i - 1] < S[i]
  <2>1. i - 1 \in Nat /\ S[i - 1] \in Nat
    BY <1>13, <1>15
  <2>2. S[i] = next_size(S[i - 1], factor)
    BY <1>10, <1>15 DEF SizeStep, SLABCLASS_MIN_ID
  <2>3. next_size(S[i - 1], factor) > S[i - 1] /\ next_size(S[i - 1], factor) \in Nat
    BY <2>1, NextSize
  <2> QED
    BY <2>1, <2>2, <2>3
<1> QED
  BY <1>13, <1>14, <1>15 DEF S

\* Classes fit for the search: those of a whole number of bytes that ascend.
LEMMA AscendingFinds ==
    ASSUME NEW p \in Seq(Nat), Ascending(p), NEW slab_size \in Nat
    PROVE  Finds(p, slab_size)
<1>1. \A n \in 1..(slab_size + 1) : LeastFit(p, n, slab_id(p, n))
  <2>1. ASSUME NEW n \in 1..(slab_size + 1) PROVE LeastFit(p, n, slab_id(p, n))
    <3>1. n \in Nat
      OBVIOUS
    <3> QED
      BY <3>1, SearchFinds
  <2> QED
    BY <2>1
<1> QED
  BY <1>1 DEF Finds, LeastFit

\* Whatever the slab size, the first chunk that fits into it and the factor, the
\* classes generated at startup ascend up to the whole slab, and slab_id finds
\* the smallest class for every item (mc_generate_profile, slab_id).
THEOREM GeneratedExact ==
    ASSUME NEW slab_size \in Nat, NEW chunk \in 1..slab_size, NEW factor, Growing(factor)
    PROVE  LET p == mc_generate_profile(chunk, slab_size, factor)
           IN  /\ p \in Seq(Nat) /\ Len(p) \in 1..SLABCLASS_MAX_ID
               /\ Ascending(p) /\ p[Len(p)] = slab_size /\ Finds(p, slab_size)
<1> DEFINE S == Sizes(chunk, factor)
           IsLast(i) == /\ i = SLABCLASS_MAX_ID \/ S[i] >= slab_size
                      /\ \A j \in SLABCLASS_MIN_ID..(i - 1) : S[j] < slab_size
           last == CHOOSE i \in SLABCLASS_MIN_ID..SLABCLASS_MAX_ID : IsLast(i)
           p == [i \in SLABCLASS_MIN_ID..last |-> IF i = last THEN slab_size ELSE S[i]]
<1>1. mc_generate_profile(chunk, slab_size, factor) = p
  BY DEF mc_generate_profile, Sizes, SizeStep
<1>2. /\ \A i \in Nat : S[i] \in Nat
      /\ S[1] = chunk
      /\ \A i \in Nat : i > 1 => S[i - 1] < S[i]
  <2>1. chunk \in Nat
    OBVIOUS
  <2> QED
    BY <2>1, SizesGrow
<1> HIDE DEF S
<1>3. SLABCLASS_MAX_ID \in Nat /\ SLABCLASS_MAX_ID > 0 /\ SLABCLASS_MIN_ID = 1
  BY ProfileAssumption DEF SLABCLASS_MIN_ID
<1>4. \E i \in 1..SLABCLASS_MAX_ID : IsLast(i)
  <2> DEFINE E == {i \in Nat : i > 0 /\ (i = SLABCLASS_MAX_ID \/ S[i] >= slab_size)}
  <2>1. SLABCLASS_MAX_ID \in E
    BY <1>3
  <2>2. PICK i \in E : \A j \in E : i <= j
    BY <2>1, LeastElement
  <2>3. i \in 1..SLABCLASS_MAX_ID
    BY <2>1, <2>2, <1>3
  <2>4. ASSUME NEW j \in 1..(i - 1) PROVE S[j] < slab_size
    <3>1. j \in Nat /\ j > 0 /\ j < i /\ S[j] \in Nat
      BY <2>3, <1>2
    <3>2. j \notin E
      BY <3>1, <2>2
    <3> QED
      BY <3>1, <3>2
  <2> QED
    BY <2>2, <2>3, <2>4, <1>3
<1>5. last \in 1..SLABCLASS_MAX_ID /\ IsLast(last)
  BY <1>3, <1>4
<1> HIDE DEF last
<1>6. last \in Nat /\ last > 0 /\ \A j \in 1..(last - 1) : S[j] < slab_size
  BY <1>3, <1>5
<1>7. p \in [1..last -> Nat]
  BY <1>2, <1>3, <1>6
<1>8. /\ p[last] = slab_size
      /\ \A i \in 1..last : i # last => p[i] = S[i]
  BY <1>3, <1>6
<1> HIDE DEF p
<1>9. p \in Seq(Nat) /\ Len(p) = last
  <2>1. p \in Seq(Nat)
    BY <1>6, <1>7
  <2> QED
    BY <2>1, <1>6, <1>7, LenProperties
<1>10. Ascending(p)
  <2>1. ASSUME NEW i \in 2..last PROVE p[i - 1] < p[i]
    <3>1. i - 1 \in 1..(last - 1) /\ i - 1 \in 1..last /\ i - 1 # last /\ i \in Nat /\ i > 1
      BY <1>6
    <3>2. p[i - 1] = S[i - 1] /\ S[i - 1] < slab_size /\ S[i - 1] < S[i]
      BY <3>1, <1>2, <1>6, <1>8
    <3>3. CASE i = last
      BY <3>2, <3>3, <1>8
    <3>4. CASE i # last
      BY <3>1, <3>2, <3>4, <1>8
    <3> QED
      BY <3>3, <3>4
  <2> QED
    BY <2>1, <1>9 DEF Ascending
<1>11. Finds(p, slab_size)
  BY <1>9, <1>10, AscendingFinds
<1> QED
  BY <1>1, <1>5, <1>8, <1>9, <1>10, <1>11

\* The sizes a user gives ascend, or are refused (mc_parse_profile).
LEMMA ParsedExact ==
    ASSUME NEW slab_size \in Nat, NEW n \in Nat, NEW sizes \in [1..n -> 1..slab_size],
           mc_parse_profile(sizes, slab_size)
    PROVE  Ascending(sizes) /\ Finds(sizes, slab_size)
<1>1. sizes \in [1..n -> Nat]
  OBVIOUS
<1>2. sizes \in Seq(Nat)
  BY <1>1
<1>3. Len(sizes) = n /\ DOMAIN sizes = 1..n
  BY <1>1, <1>2, LenProperties
<1>4. Ascending(sizes)
  <2>1. ASSUME NEW i \in 2..Len(sizes) PROVE sizes[i - 1] < sizes[i]
    <3>1. i \in 1..n /\ i > 1 /\ i - 1 \in 1..n
      BY <1>3
    <3>2. sizes[i] > sizes[i - 1] /\ sizes[i] \in Nat /\ sizes[i - 1] \in Nat
      BY <3>1, <1>1, <1>3 DEF mc_parse_profile
    <3> QED
      BY <3>2
  <2> QED
    BY <2>1 DEF Ascending
<1> QED
  BY <1>2, <1>4, AscendingFinds

\* The profiles that the run checks are among those.
LEMMA ClassesAreExact == ClassesExact
<1>1. MC_ALIGNMENT \in Nat /\ MC_ALIGNMENT > 0 /\ SLABCLASS_MAX_ID \in Nat
  BY ProfileAssumption
<1>2. \A factor \in Factors : Growing(factor)
  BY DEF Factors, Growing
<1>3. ASSUME NEW slab_size \in MC_ALIGNMENT..MaxSlab
      PROVE  /\ \A chunk_size \in Chunks(slab_size), factor \in Factors :
                    LET p == mc_generate_profile(chunk_size, slab_size, factor)
                    IN  Ascending(p) /\ p[Len(p)] = slab_size /\ Finds(p, slab_size)
             /\ \A n \in 1..(SLABCLASS_MAX_ID + 1) : \A sizes \in [1..n -> 1..slab_size] :
                    mc_parse_profile(sizes, slab_size) => Ascending(sizes) /\ Finds(sizes, slab_size)
  <2>1. slab_size \in Nat
    BY <1>1 DEF MaxSlab
  <2>2. ASSUME NEW chunk \in Chunks(slab_size), NEW factor \in Factors
        PROVE  LET p == mc_generate_profile(chunk, slab_size, factor)
               IN  Ascending(p) /\ p[Len(p)] = slab_size /\ Finds(p, slab_size)
    <3>1. chunk \in 1..slab_size /\ Growing(factor)
      BY <1>2 DEF Chunks
    <3> QED
      BY <3>1, <2>1, GeneratedExact
  <2>3. ASSUME NEW n \in 1..(SLABCLASS_MAX_ID + 1), NEW sizes \in [1..n -> 1..slab_size],
               mc_parse_profile(sizes, slab_size)
        PROVE  Ascending(sizes) /\ Finds(sizes, slab_size)
    <3>1. n \in Nat
      BY <1>1
    <3> QED
      BY <3>1, <2>1, <2>3, ParsedExact
  <2> QED
    BY <2>2, <2>3
<1> QED
  BY <1>3 DEF ClassesExact

\* The class search is exact, and every item has room for header, value and
\* terminator in a class no smaller than that of its value after every change in
\* place (slab_id, _item_annex, _item_delta).
THEOREM ClassesFit == DataSpec => []SlabIdExact
<1>1. DataInv => SlabIdExact
  <2>1. SUFFICES ASSUME DataInv PROVE SlabIdExact
    OBVIOUS
  <2>2. ASSUME NEW i \in Item, item[i] # Blank
        PROVE  /\ HDR_LEN + item[i].nbyte + CRLF_LEN <= profile[item[i].id]
               /\ item_slabid(item[i].nbyte) <= item[i].id
    <3> DEFINE it == item[i]
    <3>1. Good(it)
      BY <2>1, <2>2 DEF DataInv, Items
    <3> HIDE DEF it
    <3>2. it.nbyte \in Nat /\ it.id \in DOMAIN profile
      BY <3>1, GoodFacts
    <3>3. HDR_LEN + it.nbyte + CRLF_LEN <= profile[it.id]
      BY <3>1 DEF Good
    <3>4. item_slabid(it.nbyte) <= it.id
      BY <3>2, <3>3, ClassFits
    <3> QED
      BY <3>3, <3>4 DEF it
  <2> QED
    BY <2>2, ClassesAreExact DEF SlabIdExact
<1> QED
  BY <1>1, DataInvariant, PTL

-----------------------------------------------------------------------------
(***************************************************************************)
(* What mc_strtoull_len reads.                                             *)
(***************************************************************************)
NumStep(str, f, k) ==
    IF k = 0 THEN 0
    ELSE IF str[k] = Space THEN f[k - 1]
    ELSE f[k - 1] * Base + str[k]

Num(str) == CHOOSE f : f = [k \in 0..Len(str) |-> NumStep(str, f, k)]

\* Nothing but digits and white space.
Clean(str) == \A i \in DOMAIN str : str[i] \in Digit \cup {Space}

\* Digits, and how many of them fit.
LEMMA DigitFacts ==
    /\ Base \in Nat /\ Base > 1 /\ UINT64_MAX \in Nat /\ UINT64_MAX \div Base \in Nat
    /\ UINT64_MAX \div Base > 0
    /\ Space \notin Digit /\ \A d \in Digit : d \in Nat /\ d < Base
<1>1. Base \in Nat /\ Base > 1 /\ UINT64_MAX \in Nat /\ UINT64_MAX >= Base
  BY DataAssumption
<1>2. /\ UINT64_MAX \div Base \in Nat /\ UINT64_MAX % Base \in 0..(Base - 1)
      /\ UINT64_MAX = (UINT64_MAX \div Base) * Base + (UINT64_MAX % Base)
  BY <1>1, DivFacts
<1>3. UINT64_MAX \div Base # 0
  <2>1. ASSUME NEW q \in Nat, NEW r \in 0..(Base - 1), UINT64_MAX = q * Base + r PROVE q # 0
    BY <2>1, <1>1
  <2> QED
    BY <2>1, <1>2
<1>4. Space \notin Digit
  BY ByteAssumption
<1> QED
  BY <1>1, <1>2, <1>3, <1>4 DEF Digit

\* The number so far, digit by digit.
LEMMA NumFacts ==
    ASSUME NEW Bs, NEW str \in Seq(Bs), Clean(str)
    PROVE  /\ Number(str) = Num(str)[Len(str)]
           /\ Num(str)[0] = 0
           /\ \A k \in 0..Len(str) : Num(str)[k] \in Nat
           /\ \A k \in 1..Len(str) :
                 Num(str)[k] = IF str[k] = Space THEN Num(str)[k - 1]
                               ELSE Num(str)[k - 1] * Base + str[k]
<1> DEFINE D == 0..Len(str)
           m == [k \in D |-> k]
           B == [f \in [D -> Nat] |-> [k \in D |-> NumStep(str, f, k)]]
           V == Num(str)
<1>1. Len(str) \in Nat /\ DOMAIN str = 1..Len(str)
  OBVIOUS
<1>2. m \in [D -> Nat]
  OBVIOUS
<1>3. ASSUME NEW f, NEW k \in D, k > 0 => f[k - 1] \in Nat
      PROVE  NumStep(str, f, k) \in Nat
  <2>1. CASE k = 0
    BY <2>1 DEF NumStep
  <2>2. CASE k > 0
    <3>1. k \in DOMAIN str /\ f[k - 1] \in Nat /\ Base \in Nat
      BY <2>2, <1>1, <1>3, DigitFacts
    <3>2. str[k] = Space \/ str[k] \in Nat
      BY <3>1, DigitFacts DEF Clean
    <3>3. f[k - 1] * Base \in Nat
      BY <3>1
    <3> QED
      BY <3>1, <3>2, <3>3, <2>2 DEF NumStep
  <2> QED
    BY <2>1, <2>2
<1>4. B \in [[D -> Nat] -> [D -> Nat]]
  <2>1. ASSUME NEW f \in [D -> Nat], NEW k \in D PROVE NumStep(str, f, k) \in Nat
    <3>1. k > 0 => f[k - 1] \in Nat
      BY <1>1
    <3> QED
      BY <3>1, <1>3
  <2> QED
    BY <2>1
<1>5. ASSUME NEW f \in [D -> Nat], NEW g \in [D -> Nat], NEW k \in D,
             \A y \in D : m[y] < m[k] => f[y] = g[y]
      PROVE  B[f][k] = B[g][k]
  <2>1. NumStep(str, f, k) = NumStep(str, g, k)
    <3>1. CASE k = 0
      BY <3>1 DEF NumStep
    <3>2. CASE k # 0
      <4>1. k - 1 \in D /\ m[k - 1] < m[k]
        BY <3>2, <1>1
      <4>2. f[k - 1] = g[k - 1]
        BY <4>1, <1>5
      <4> QED
        BY <4>2 DEF NumStep
    <3> QED
      BY <3>1, <3>2
  <2> QED
    BY <2>1
<1>6. [D -> Nat] # {}
  <2>1. [k \in D |-> 0] \in [D -> Nat]
    OBVIOUS
  <2> QED
    BY <2>1
<1>7. Descends(D, Nat, m, B)
  <2> HIDE DEF D, m, B
  <2> QED
    BY <1>2, <1>4, <1>5, <1>6 DEF Descends
<1>8. Recurs(D, Nat, B)
  <2> HIDE DEF D, m, B
  <2> QED
    BY <1>7, Recursion
<1>9. \E f : f = [k \in D |-> NumStep(str, f, k)]
  BY <1>8 DEF Recurs
<1>10. V = [k \in D |-> NumStep(str, V, k)]
  BY <1>9 DEF Num
<1> HIDE DEF V
<1>11. \A k \in D : V[k] = NumStep(str, V, k)
  BY <1>10, Zenon
<1>12. Number(str) = V[Len(str)]
  BY DEF Number, V, Num, NumStep
<1> DEFINE I == {k \in Nat : k \in D => V[k] \in Nat}
<1>13. 0 \in I
  BY <1>1, <1>11 DEF NumStep
<1>14. ASSUME NEW k \in Nat, k \in I PROVE k + 1 \in I
  <2>1. SUFFICES ASSUME k + 1 \in D PROVE V[k + 1] \in Nat
    OBVIOUS
  <2>2. k \in D /\ V[k] \in Nat /\ (k + 1) - 1 = k
    BY <2>1, <1>1, <1>14
  <2>3. NumStep(str, V, k + 1) \in Nat
    BY <2>1, <2>2, <1>3
  <2> QED
    BY <2>1, <2>3, <1>11
<1>15. \A k \in Nat : k \in I
  <2> HIDE DEF I
  <2> QED
    BY <1>13, <1>14, SetInduction
<1>16. V[0] = 0
  BY <1>1, <1>11 DEF NumStep
<1>17. \A k \in 1..Len(str) : V[k] = IF str[k] = Space THEN V[k - 1] ELSE V[k - 1] * Base + str[k]
  <2>1. ASSUME NEW k \in 1..Len(str)
        PROVE  V[k] = IF str[k] = Space THEN V[k - 1] ELSE V[k - 1] * Base + str[k]
    <3>1. k \in D /\ k # 0
      BY <1>1
    <3> QED
      BY <3>1, <1>11 DEF NumStep
  <2> QED
    BY <2>1
<1> QED
  BY <1>12, <1>15, <1>16, <1>17 DEF V

\* A digit more does not make it smaller.
LEMMA NumGrows ==
    ASSUME NEW Bs, NEW str \in Seq(Bs), Clean(str), NEW k \in 0..Len(str)
    PROVE  Num(str)[k] <= Number(str)
<1> DEFINE V == Num(str)
           I == {n \in Nat : k + n <= Len(str) => V[k] <= V[k + n]}
<1>1. Len(str) \in Nat /\ DOMAIN str = 1..Len(str)
  OBVIOUS
<1>2. /\ Number(str) = V[Len(str)]
      /\ \A i \in 0..Len(str) : V[i] \in Nat
      /\ \A i \in 1..Len(str) : V[i] = IF str[i] = Space THEN V[i - 1] ELSE V[i - 1] * Base + str[i]
  BY NumFacts
<1> HIDE DEF V
<1>3. 0 \in I
  BY <1>2
<1>4. ASSUME NEW n \in Nat, n \in I PROVE n + 1 \in I
  <2>1. SUFFICES ASSUME k + (n + 1) <= Len(str) PROVE V[k] <= V[k + (n + 1)]
    OBVIOUS
  <2> DEFINE i == k + (n + 1)
  <2>2. i \in 1..Len(str) /\ i - 1 = k + n /\ i - 1 \in 0..Len(str) /\ i \in 0..Len(str)
    BY <2>1, <1>1
  <2>3. V[k] <= V[i - 1] /\ V[k] \in Nat /\ V[i - 1] \in Nat /\ V[i] \in Nat
    BY <2>1, <2>2, <1>1, <1>2, <1>4
  <2>4. V[i] = IF str[i] = Space THEN V[i - 1] ELSE V[i - 1] * Base + str[i]
    BY <2>2, <1>2
  <2>5. str[i] \in Digit \cup {Space}
    BY <2>2, <1>1 DEF Clean
  <2> HIDE DEF i
  <2>6. ASSUME str[i] # Space PROVE V[i - 1] <= V[i]
    <3>1. str[i] \in Nat /\ Base \in Nat /\ Base > 1
      BY <2>5, <2>6, DigitFacts
    <3>2. V[i] = V[i - 1] * Base + str[i]
      BY <2>4, <2>6
    <3>3. ASSUME NEW a \in Nat, NEW d \in Nat PROVE a <= a * Base + d
      <4>1. PICK j \in Nat : Base = 1 + j
        <5>1. Base - 1 \in Nat /\ Base = 1 + (Base - 1)
          BY <3>1
        <5> QED
          BY <5>1
      <4>2. a * Base = a + a * j /\ a * j \in Nat
        BY <4>1
      <4> QED
        BY <4>2
    <3> QED
      BY <3>1, <3>2, <3>3, <2>3
  <2>7. V[i - 1] <= V[i]
    BY <2>3, <2>4, <2>6
  <2>8. V[k] <= V[i]
    BY <2>3, <2>7
  <2> QED
    BY <2>8 DEF i
<1>5. \A n \in Nat : n \in I
  <2> HIDE DEF I
  <2> QED
    BY <1>3, <1>4, SetInduction
<1>6. Len(str) - k \in Nat /\ k + (Len(str) - k) = Len(str)
  BY <1>1
<1>7. V[k] <= V[Len(str)]
  BY <1>5, <1>6
<1> QED
  BY <1>2, <1>7 DEF V

\* White space leaves it as it is.
LEMMA NumSpaces ==
    ASSUME NEW Bs, NEW str \in Seq(Bs), Clean(str), NEW k \in 0..Len(str), NEW l \in k..Len(str),
           \A j \in (k + 1)..l : str[j] = Space
    PROVE  Num(str)[l] = Num(str)[k]
<1> DEFINE V == Num(str)
           I == {n \in Nat : k + n <= l => V[k + n] = V[k]}
<1>1. Len(str) \in Nat
  OBVIOUS
<1>2. \A i \in 1..Len(str) : V[i] = IF str[i] = Space THEN V[i - 1] ELSE V[i - 1] * Base + str[i]
  BY NumFacts
<1> HIDE DEF V
<1>3. 0 \in I
  OBVIOUS
<1>4. ASSUME NEW n \in Nat, n \in I PROVE n + 1 \in I
  <2>1. SUFFICES ASSUME k + (n + 1) <= l PROVE V[k + (n + 1)] = V[k]
    OBVIOUS
  <2>2. /\ k + (n + 1) \in 1..Len(str) /\ k + (n + 1) \in (k + 1)..l /\ (k + (n + 1)) - 1 = k + n
        /\ k + n <= l
    BY <2>1, <1>1
  <2>3. V[k + n] = V[k]
    BY <2>2, <1>4
  <2> QED
    BY <2>2, <2>3, <1>2
<1>5. \A n \in Nat : n \in I
  <2> HIDE DEF I
  <2> QED
    BY <1>3, <1>4, SetInduction
<1>6. l - k \in Nat /\ k + (l - k) = l
  BY <1>1
<1>7. V[l] = V[k]
  BY <1>5, <1>6
<1> QED
  BY <1>7 DEF V

\* Where mc_strtoull_len is after the white space and some digits.
Scanned(str, i0, i, out) ==
    /\ i0 \in 1..(Len(str) + 1) /\ i \in i0..(Len(str) + 1) /\ out \in Nat
    /\ \A j \in 1..(i0 - 1) : str[j] = Space
    /\ i0 \in DOMAIN str => str[i0] # Space
    /\ \A j \in i0..(i - 1) : str[j] \in Digit

\* A string with anything else in it is not read.
LEMMA ScanUnclean ==
    ASSUME NEW Bs, NEW str \in Seq(Bs), NEW p \in DOMAIN str, str[p] \notin Digit \cup {Space},
           NEW i0, NEW i \in Nat, NEW out \in Nat, Scanned(str, i0, i, out)
    PROVE  Scan(str)[<<i, out>>] = Invalid
<1> DEFINE m == [s \in Ranges |-> IF s[1] > Len(str) THEN 0 ELSE Len(str) + 1 - s[1]]
           I == {s \in Ranges : Scanned(str, i0, s[1], s[2]) => Scan(str)[s] = Invalid}
<1>1. Len(str) \in Nat /\ DOMAIN str = 1..Len(str)
  OBVIOUS
<1>2. m \in [Ranges -> Nat]
  BY <1>1 DEF Ranges
<1>3. ASSUME NEW s \in Ranges, \A y \in Ranges : m[y] < m[s] => y \in I PROVE s \in I
  <2>1. PICK a \in Nat, b \in Nat : s = <<a, b>>
    BY DEF Ranges
  <2>2. s[1] = a /\ s[2] = b
    BY <2>1
  <2>3. SUFFICES ASSUME Scanned(str, i0, a, b) PROVE Scan(str)[s] = Invalid
    BY <2>2
  <2>4. Scan(str)[s] = ScanStep(str, Scan(str), s)
    BY <2>1, ScanEnds
  <2>5. /\ i0 \in 1..(Len(str) + 1) /\ a \in i0..(Len(str) + 1)
        /\ \A j \in 1..(i0 - 1) : str[j] = Space
        /\ \A j \in i0..(a - 1) : str[j] \in Digit
    BY <2>3 DEF Scanned
  <2>6. p >= a /\ a \in DOMAIN str
    <3>1. ASSUME p < a PROVE FALSE
      <4>1. p \in 1..(i0 - 1) \/ p \in i0..(a - 1)
        BY <3>1, <2>5, <1>1
      <4> QED
        BY <4>1, <2>5
    <3> QED
      BY <3>1, <2>5, <1>1
  <2>7. CASE str[a] \notin Digit
    <3> DEFINE k == mc_skip_space(str, a)
    <3>1. /\ k \in 0..Len(str)
          /\ \A j \in a..(a + k - 1) : str[j] = Space
      BY SkipFacts
    <3> HIDE DEF k
    <3>2. ~(a + k > Len(str))
      <4>1. SUFFICES ASSUME a + k > Len(str) PROVE FALSE
        OBVIOUS
      <4>2. p \in a..(a + k - 1)
        BY <4>1, <2>6, <3>1, <1>1
      <4> QED
        BY <4>2, <3>1
    <3>3. ScanStep(str, Scan(str), s) = Invalid
      BY <3>2, <2>2, <2>7 DEF ScanStep, k
    <3> QED
      BY <3>3, <2>4
  <2>8. CASE str[a] \in Digit /\ b >= UINT64_MAX \div Base
    BY <2>2, <2>4, <2>6, <2>8 DEF ScanStep
  <2>9. CASE str[a] \in Digit /\ ~(b >= UINT64_MAX \div Base)
    <3> DEFINE next == b * Base + str[a]
               y == <<a + 1, next>>
    <3>1. next \in Nat
      <4>1. str[a] \in Nat /\ Base \in Nat
        BY <2>9, DigitFacts
      <4> QED
        BY <4>1
    <3>2. Scan(str)[s] = Scan(str)[y]
      BY <2>2, <2>4, <2>6, <2>9 DEF ScanStep
    <3> HIDE DEF next
    <3>3. y \in Ranges /\ y[1] = a + 1 /\ y[2] = next
      BY <3>1 DEF Ranges
    <3>4. Scanned(str, i0, a + 1, next)
      <4>1. a + 1 \in i0..(Len(str) + 1)
        BY <2>5, <2>6, <1>1
      <4>2. \A j \in i0..((a + 1) - 1) : str[j] \in Digit
        <5>1. ASSUME NEW j \in i0..((a + 1) - 1) PROVE str[j] \in Digit
          <6>1. j = a \/ j \in i0..(a - 1)
            BY <2>5
          <6> QED
            BY <6>1, <2>5, <2>9
        <5> QED
          BY <5>1
      <4> QED
        BY <4>1, <4>2, <3>1, <2>3 DEF Scanned
    <3>5. m[y] < m[s]
      BY <3>3, <2>2, <2>6, <1>1
    <3>6. y \in I
      <4> HIDE DEF m, I
      <4> QED
        BY <3>3, <3>5, <1>3
    <3> QED
      BY <3>2, <3>3, <3>4, <3>6
  <2> QED
    BY <2>7, <2>8, <2>9
<1>4. \A s \in Ranges : s \in I
  <2> HIDE DEF I, m
  <2> QED
    BY <1>2, <1>3, MeasureInduction
<1> DEFINE s0 == <<i, out>>
<1>5. s0 \in Ranges /\ s0[1] = i /\ s0[2] = out
  BY DEF Ranges
<1> QED
  BY <1>4, <1>5

\* The digits of a string lie together if there is only space before and after.
LEMMA SolidParts ==
    ASSUME NEW Bs, NEW str \in Seq(Bs), NEW a \in Nat, NEW b \in Nat,
           \A j \in 1..Len(str) : j < a => str[j] = Space,
           \A j \in 1..Len(str) : a <= j /\ j < b => str[j] # Space,
           \A j \in 1..Len(str) : b <= j => str[j] = Space
    PROVE  Solid(str)
<1>1. Len(str) \in Nat /\ DOMAIN str = 1..Len(str)
  OBVIOUS
<1>2. ASSUME NEW i \in 1..Len(str), NEW j \in 1..Len(str), str[i] # Space, str[j] # Space,
             NEW k \in i..j
      PROVE  str[k] # Space
  <2>1. a <= i /\ j < b
    BY <1>1, <1>2
  <2>2. k \in 1..Len(str) /\ a <= k /\ k < b
    BY <2>1, <1>1, <1>2
  <2> QED
    BY <2>2
<1> QED
  BY <1>1, <1>2 DEF Solid

Limit == Base * (UINT64_MAX \div Base)

\* A string of digits and white space is read as the number it denotes.
LEMMA ScanClean ==
    ASSUME NEW Bs, NEW str \in Seq(Bs), Clean(str),
           NEW i0, NEW i \in Nat, NEW out \in Nat, Scanned(str, i0, i, out),
           out = Num(str)[i - 1], out < Limit
    PROVE  Scan(str)[<<i, out>>] = Denoted(str)
<1> DEFINE m == [s \in Ranges |-> IF s[1] > Len(str) THEN 0 ELSE Len(str) + 1 - s[1]]
           V == Num(str)
           At(a, b) == Scanned(str, i0, a, b) /\ b = V[a - 1] /\ b < Limit
           I == {s \in Ranges : At(s[1], s[2]) => Scan(str)[s] = Denoted(str)}
<1>1. Len(str) \in Nat /\ DOMAIN str = 1..Len(str)
  OBVIOUS
<1>2. m \in [Ranges -> Nat]
  BY <1>1 DEF Ranges
<1>3. /\ Number(str) = V[Len(str)]
      /\ \A k \in 0..Len(str) : V[k] \in Nat
      /\ \A k \in 1..Len(str) : V[k] = IF str[k] = Space THEN V[k - 1] ELSE V[k - 1] * Base + str[k]
  BY NumFacts
<1>4. \A k \in 0..Len(str) : V[k] <= Number(str)
  BY NumGrows
<1>5. ASSUME NEW k \in 0..Len(str), \A j \in (k + 1)..Len(str) : str[j] = Space
      PROVE  Number(str) = V[k]
  <2>1. Len(str) \in k..Len(str)
    BY <1>1
  <2> QED
    BY <2>1, <1>3, <1>5, NumSpaces
<1> HIDE DEF V
<1>6. Denoted(str) = IF Solid(str) /\ Number(str) < Limit THEN Number(str) ELSE Invalid
  BY DEF Denoted, Clean, Limit
<1>7. ASSUME NEW s \in Ranges, \A y \in Ranges : m[y] < m[s] => y \in I PROVE s \in I
  <2>1. PICK a \in Nat, b \in Nat : s = <<a, b>>
    BY DEF Ranges
  <2>2. s[1] = a /\ s[2] = b
    BY <2>1
  <2>3. SUFFICES ASSUME At(a, b) PROVE Scan(str)[s] = Denoted(str)
    BY <2>2
  <2>4. Scan(str)[s] = ScanStep(str, Scan(str), s)
    BY <2>1, ScanEnds
  <2>5. /\ i0 \in 1..(Len(str) + 1) /\ a \in i0..(Len(str) + 1)
        /\ \A j \in 1..(i0 - 1) : str[j] = Space
        /\ i0 \in DOMAIN str => str[i0] # Space
        /\ \A j \in i0..(a - 1) : str[j] \in Digit
        /\ b = V[a - 1] /\ b < Limit
    BY <2>3 DEF Scanned
  <2>6. a - 1 \in 0..Len(str) /\ a >= 1 /\ a <= Len(str) + 1
    BY <2>5, <1>1
  <2>7. CASE ~(a \in DOMAIN str /\ str[a] \in Digit)
    <3> DEFINE k == mc_skip_space(str, a)
    <3>1. /\ k \in 0..Len(str)
          /\ \A j \in a..(a + k - 1) : j \in DOMAIN str /\ str[j] = Space
          /\ a + k \notin DOMAIN str \/ str[a + k] # Space
      BY SkipFacts
    <3>2. ScanStep(str, Scan(str), s) = IF a + k > Len(str) THEN b ELSE Invalid
      BY <2>2, <2>7 DEF ScanStep
    <3> HIDE DEF k
    <3>3. CASE a + k > Len(str)
      <4>1. \A j \in 1..Len(str) : a <= j => str[j] = Space
        <5>1. ASSUME NEW j \in 1..Len(str), a <= j PROVE str[j] = Space
          <6>1. j \in a..(a + k - 1)
            BY <5>1, <3>1, <3>3, <1>1
          <6> QED
            BY <6>1, <3>1
        <5> QED
          BY <5>1
      <4>2. \A j \in 1..Len(str) : j < i0 => str[j] = Space
        BY <2>5
      <4>3. \A j \in 1..Len(str) : i0 <= j /\ j < a => str[j] # Space
        <5>1. ASSUME NEW j \in 1..Len(str), i0 <= j, j < a PROVE str[j] # Space
          <6>1. j \in i0..(a - 1)
            BY <5>1, <2>5
          <6> QED
            BY <6>1, <2>5, DigitFacts
        <5> QED
          BY <5>1
      <4>4. Solid(str)
        <5>1. i0 \in Nat
          BY <2>5, <1>1
        <5> QED
          BY <5>1, <4>1, <4>2, <4>3, SolidParts
      <4>5. Number(str) = b
        <5>1. \A j \in ((a - 1) + 1)..Len(str) : str[j] = Space
          BY <4>1, <2>6
        <5> QED
          BY <5>1, <2>5, <2>6, <1>5
      <4> QED
        BY <4>4, <4>5, <3>2, <3>3, <2>4, <2>5, <1>6
    <3>4. CASE ~(a + k > Len(str))
      <4>1. a \in DOMAIN str /\ a + k \in DOMAIN str /\ str[a + k] # Space
        BY <3>1, <3>4, <2>6, <1>1
      <4>2. str[a] = Space
        BY <4>1, <2>7 DEF Clean
      <4>3. i0 < a /\ i0 \in DOMAIN str /\ str[i0] # Space
        BY <4>1, <4>2, <2>5, <1>1
      <4>4. a \in i0..(a + k)
        BY <4>3, <3>1, <2>5, <1>1
      <4>5. ~Solid(str)
        BY <4>1, <4>2, <4>3, <4>4 DEF Solid
      <4> QED
        BY <4>5, <3>2, <3>4, <2>4, <1>6
    <3> QED
      BY <3>3, <3>4
  <2>8. CASE a \in DOMAIN str /\ str[a] \in Digit
    <3> DEFINE next == b * Base + str[a]
               y == <<a + 1, next>>
               q == UINT64_MAX \div Base
    <3>1. str[a] \in Nat /\ str[a] < Base /\ str[a] # Space /\ Base \in Nat /\ Base > 1 /\ q \in Nat
      BY <2>8, DigitFacts
    <3>2. V[a] = next /\ a \in 0..Len(str) /\ (a + 1) - 1 = a
      BY <3>1, <2>5, <2>8, <1>1, <1>3
    <3>3. ScanStep(str, Scan(str), s) = IF b >= q THEN Invalid ELSE Scan(str)[y]
      BY <2>2, <2>8 DEF ScanStep
    <3>4. Limit = q * Base /\ Limit \in Nat
      BY <3>1 DEF Limit
    <3>5. next \in Nat
      BY <3>1
    <3> HIDE DEF q
    <3>6. CASE b >= q
      <4>1. PICK c \in Nat : b = q + c
        <5>1. b - q \in Nat /\ b = q + (b - q)
          BY <3>1, <3>6
        <5> QED
          BY <5>1
      <4>2. b * Base = q * Base + c * Base /\ c * Base \in Nat
        BY <4>1, <3>1
      <4>3. next >= Limit
        <5> DEFINE u == b * Base
                   w == c * Base
        <5>1. w \in Nat /\ u = Limit + w /\ next = u + str[a]
          BY <4>2, <3>4
        <5> HIDE DEF u, w, next
        <5> QED
          BY <5>1, <3>1, <3>4
      <4>4. Number(str) \in Nat /\ next <= Number(str)
        BY <3>2, <1>1, <1>3, <1>4
      <4>5. ~(Number(str) < Limit)
        BY <4>3, <4>4, <3>4, <3>5
      <4> QED
        BY <4>5, <3>3, <3>6, <2>4, <1>6
    <3>7. CASE ~(b >= q)
      <4>1. PICK c \in Nat : q = b + 1 + c
        <5>1. q - b - 1 \in Nat /\ q = b + 1 + (q - b - 1)
          BY <3>1, <3>7
        <5> QED
          BY <5>1
      <4>2. q * Base = b * Base + Base + c * Base /\ c * Base \in Nat /\ b * Base \in Nat
        BY <4>1, <3>1
      <4>3. next < Limit
        <5> DEFINE u == b * Base
                   w == c * Base
        <5>1. u \in Nat /\ w \in Nat /\ Limit = u + Base + w /\ next = u + str[a]
          BY <4>2, <3>4
        <5> HIDE DEF u, w, next
        <5> QED
          BY <5>1, <3>1
      <4> HIDE DEF next
      <4>4. y \in Ranges /\ y[1] = a + 1 /\ y[2] = next
        BY <3>5 DEF Ranges
      <4>5. Scanned(str, i0, a + 1, next)
        <5>1. a + 1 \in i0..(Len(str) + 1)
          BY <2>5, <2>8, <1>1
        <5>2. \A j \in i0..((a + 1) - 1) : str[j] \in Digit
          <6>1. ASSUME NEW j \in i0..((a + 1) - 1) PROVE str[j] \in Digit
            <7>1. j = a \/ j \in i0..(a - 1)
              BY <2>5
            <7> QED
              BY <7>1, <2>5, <2>8
          <6> QED
            BY <6>1
        <5>3. Scanned(str, i0, a, b)
          BY <2>3
        <5> QED
          BY <5>1, <5>2, <5>3, <3>5 DEF Scanned
      <4>6. At(y[1], y[2])
        BY <4>3, <4>4, <4>5, <3>2
      <4>7. m[y] < m[s]
        BY <4>4, <2>2, <2>8, <1>1
      <4>8. y \in I
        <5> HIDE DEF m, I
        <5> QED
          BY <4>4, <4>7, <1>7
      <4>9. Scan(str)[y] = Denoted(str)
        <5> HIDE DEF At
        <5> QED
          BY <4>6, <4>8
      <4> QED
        BY <4>9, <3>3, <3>7, <2>4
    <3> QED
      BY <3>6, <3>7
  <2> QED
    BY <2>7, <2>8
<1>8. \A s \in Ranges : s \in I
  <2> HIDE DEF I, m
  <2> QED
    BY <1>2, <1>7, MeasureInduction
<1> DEFINE s0 == <<i, out>>
<1>9. s0 \in Ranges /\ s0[1] = i /\ s0[2] = out
  BY DEF Ranges
<1>10. At(s0[1], s0[2])
  BY <1>9 DEF V
<1>11. Scan(str)[s0] = Denoted(str)
  <2> HIDE DEF At, s0
  <2> QED
    BY <1>8, <1>9, <1>10
<1> QED
  BY <1>11

\* mc_strtoull_len reads exactly the strings that denote a number below the limit
\* its comment gives, and as that number, however long they are.
THEOREM ParserReads ==
    ASSUME NEW str \in Seq(Byte)
    PROVE  mc_strtoull_len(str) = Denoted(str)
<1> DEFINE i0 == 1 + mc_skip_space(str, 1)
           k == mc_skip_space(str, 1)
           none == 0
<1>1. Len(str) \in Nat /\ DOMAIN str = 1..Len(str)
  OBVIOUS
<1>2. /\ k \in 0..Len(str)
      /\ \A j \in 1..(1 + k - 1) : j \in DOMAIN str /\ str[j] = Space
      /\ 1 + k \notin DOMAIN str \/ str[1 + k] # Space
  BY SkipFacts
<1>3. mc_strtoull_len(str) = Scan(str)[<<i0, none>>]
  BY ScanEnds
<1>4. none \in Nat /\ none = 0
  OBVIOUS
<1>5. i0 = 1 + k
  OBVIOUS
<1> HIDE DEF i0, k, none
<1>6. i0 \in Nat /\ i0 \in 1..(Len(str) + 1) /\ i0 - 1 = k
  BY <1>1, <1>2, <1>5
<1>7. Scanned(str, i0, i0, none)
  <2>1. \A j \in 1..(i0 - 1) : str[j] = Space
    BY <1>2, <1>5
  <2>2. i0 \in DOMAIN str => str[i0] # Space
    BY <1>2, <1>5
  <2>3. i0 \in i0..(Len(str) + 1) /\ \A j \in i0..(i0 - 1) : FALSE
    BY <1>1, <1>6
  <2> QED
    BY <2>1, <2>2, <2>3, <1>4, <1>6 DEF Scanned
<1>8. CASE Clean(str)
  <2>1. Num(str)[k] = Num(str)[0] /\ Num(str)[0] = 0
    <3>1. 0 \in 0..Len(str) /\ k \in 0..Len(str) /\ \A j \in (0 + 1)..k : str[j] = Space
      BY <1>1, <1>2
    <3> QED
      BY <3>1, <1>8, NumFacts, NumSpaces
  <2>2. none = Num(str)[i0 - 1]
    BY <2>1, <1>4, <1>6
  <2>3. none < Limit
    <3>1. Base \in Nat /\ Base > 1 /\ UINT64_MAX \div Base \in Nat /\ UINT64_MAX \div Base > 0
      BY DigitFacts
    <3>2. ASSUME NEW a \in Nat, NEW b \in Nat, a > 0, b > 0 PROVE 0 < a * b
      BY <3>2
    <3> QED
      BY <3>1, <3>2, <1>4 DEF Limit
  <2> QED
    BY <2>2, <2>3, <1>3, <1>4, <1>6, <1>7, <1>8, ScanClean
<1>9. CASE ~Clean(str)
  <2>1. PICK p \in DOMAIN str : str[p] \notin Digit \cup {Space}
    BY <1>9 DEF Clean
  <2>2. Scan(str)[<<i0, none>>] = Invalid
    BY <2>1, <1>4, <1>6, <1>7, ScanUnclean
  <2>3. Denoted(str) = Invalid
    BY <2>1 DEF Denoted
  <2> QED
    BY <2>2, <2>3, <1>3
<1> QED
  BY <1>8, <1>9

\* A digit appended.
LEMMA NumAppend ==
    ASSUME NEW str \in Seq(Digit), NEW d \in Digit
    PROVE  Number(Append(str, d)) = Number(str) * Base + d
<1> DEFINE ext == Append(str, d)
           V == Num(str)
           W == Num(ext)
           I == {k \in Nat : k \in 0..Len(str) => W[k] = V[k]}
<1>1. Len(str) \in Nat /\ DOMAIN str = 1..Len(str)
  OBVIOUS
<1>2. /\ ext \in Seq(Digit) /\ Len(ext) = Len(str) + 1 /\ DOMAIN ext = 1..(Len(str) + 1)
      /\ \A k \in 1..Len(str) : ext[k] = str[k]
      /\ ext[Len(str) + 1] = d
  OBVIOUS
<1> HIDE DEF ext
<1>3. Clean(str) /\ Clean(ext)
  <2>1. \A k \in DOMAIN str : str[k] \in Digit
    OBVIOUS
  <2>2. \A k \in DOMAIN ext : ext[k] \in Digit
    BY <1>2
  <2> QED
    BY <2>1, <2>2 DEF Clean
<1>4. /\ Number(str) = V[Len(str)] /\ V[0] = 0
      /\ \A k \in 1..Len(str) : V[k] = IF str[k] = Space THEN V[k - 1] ELSE V[k - 1] * Base + str[k]
  BY <1>3, NumFacts
<1>5. /\ Number(ext) = W[Len(ext)] /\ W[0] = 0
      /\ \A k \in 1..Len(ext) : W[k] = IF ext[k] = Space THEN W[k - 1] ELSE W[k - 1] * Base + ext[k]
  BY <1>2, <1>3, NumFacts
<1> HIDE DEF V, W
<1>6. 0 \in I
  BY <1>4, <1>5
<1>7. ASSUME NEW k \in Nat, k \in I PROVE k + 1 \in I
  <2>1. SUFFICES ASSUME k + 1 \in 0..Len(str) PROVE W[k + 1] = V[k + 1]
    OBVIOUS
  <2>2. /\ k + 1 \in 1..Len(str) /\ k + 1 \in 1..Len(ext) /\ (k + 1) - 1 = k /\ k \in 0..Len(str)
    BY <2>1, <1>1, <1>2
  <2>3. W[k] = V[k] /\ ext[k + 1] = str[k + 1]
    BY <2>2, <1>2, <1>7
  <2> QED
    BY <2>2, <2>3, <1>4, <1>5
<1>8. \A k \in Nat : k \in I
  <2> HIDE DEF I
  <2> QED
    BY <1>6, <1>7, SetInduction
<1>9. W[Len(str)] = V[Len(str)]
  BY <1>1, <1>8
<1>10. d # Space
  BY DigitFacts
<1>11. W[Len(str) + 1] = W[Len(str)] * Base + d
  <2>1. Len(str) + 1 \in 1..Len(ext) /\ (Len(str) + 1) - 1 = Len(str)
    BY <1>1, <1>2
  <2> QED
    BY <2>1, <1>2, <1>5, <1>10
<1> QED
  BY <1>2, <1>4, <1>5, <1>9, <1>11 DEF ext

\* What snprintf prints of a number denotes it.
LEMMA NumeralDenotes ==
    ASSUME NEW n \in Nat
    PROVE  Number(snprintf(n)) = n
<1> DEFINE m == [j \in Nat |-> j]
           I == {j \in Nat : Number(Numeral[j]) = j}
<1>1. m \in [Nat -> Nat]
  OBVIOUS
<1>2. Base \in Nat /\ Base > 1
  BY DigitFacts
<1>3. /\ \A j \in Nat : Numeral[j] = NumeralStep(Numeral, j)
      /\ \A j \in Nat : Numeral[j] \in Seq(Digit)
      /\ snprintf(n) = Numeral[n]
  BY NumeralEnds
<1>4. ASSUME NEW j \in Nat, \A y \in Nat : m[y] < m[j] => y \in I PROVE j \in I
  <2>1. CASE j < Base
    <3> DEFINE none == << >>
    <3>0. Numeral[j] = <<j>>
      BY <2>1, <1>3 DEF NumeralStep
    <3>1. Numeral[j] = Append(none, j)
      <4>1. <<j>> = Append(<< >>, j)
        OBVIOUS
      <4> QED
        BY <3>0, <4>1
    <3>2. none \in Seq(Digit) /\ Len(none) = 0 /\ DOMAIN none = {} /\ j \in Digit
      BY <2>1, <1>2 DEF Digit
    <3> HIDE DEF none
    <3>3. Clean(none)
      BY <3>2 DEF Clean
    <3>4. Number(none) = 0
      BY <3>2, <3>3, NumFacts
    <3>5. Number(Append(none, j)) = Number(none) * Base + j
      BY <3>2, NumAppend
    <3>6. 0 * Base + j = j
      BY <1>2
    <3>7. Number(Numeral[j]) = j
      BY <3>1, <3>4, <3>5, <3>6
    <3> QED
      BY <3>7
  <2>2. CASE ~(j < Base)
    <3> DEFINE q == j \div Base
               r == j % Base
    <3>1. q \in Nat /\ r \in 0..(Base - 1) /\ j = q * Base + r /\ (j > 0 => q < j)
      BY <1>2, DivFacts
    <3>2. Numeral[j] = Append(Numeral[q], r)
      BY <2>2, <1>3 DEF NumeralStep
    <3> HIDE DEF q, r
    <3>3. q < j /\ r \in Digit /\ Numeral[q] \in Seq(Digit)
      BY <3>1, <2>2, <1>2, <1>3 DEF Digit
    <3>4. q \in I
      BY <3>1, <3>3, <1>4
    <3>5. Number(Append(Numeral[q], r)) = Number(Numeral[q]) * Base + r
      BY <3>3, NumAppend
    <3> QED
      BY <3>1, <3>2, <3>4, <3>5
  <2> QED
    BY <2>1, <2>2
<1>5. \A j \in Nat : j \in I
  <2> HIDE DEF I, m
  <2> QED
    BY <1>1, <1>4, MeasureInduction
<1> QED
  BY <1>3, <1>5

\* What is printed of a number below the limit is read back.
LEMMA PrintedIsRead ==
    ASSUME NEW n \in Nat, n < Limit
    PROVE  mc_strtoull_len(snprintf(n)) = n
<1> DEFINE str == snprintf(n)
<1>1. str \in Seq(Digit) /\ Number(str) = n
  BY NumeralEnds, NumeralDenotes
<1> HIDE DEF str
<1>2. str \in Seq(Byte)
  BY <1>1 DEF Byte
<1>3. DOMAIN str = 1..Len(str) /\ Len(str) \in Nat /\ \A i \in DOMAIN str : str[i] \in Digit
  BY <1>1
<1>4. \A i \in DOMAIN str : str[i] # Space
  BY <1>3, DigitFacts
<1>5. Solid(str)
  <2>1. ASSUME NEW i \in DOMAIN str, NEW j \in DOMAIN str, NEW k \in i..j PROVE str[k] # Space
    <3>1. k \in DOMAIN str
      BY <1>3
    <3> QED
      BY <3>1, <1>4
  <2> QED
    BY <2>1 DEF Solid
<1>6. Denoted(str) = n
  BY <1>1, <1>3, <1>5 DEF Denoted, Limit
<1> QED
  BY <1>2, <1>6, ParserReads DEF str

\* Numbers are read and printed exactly, those that appends, prepends, incr and
\* decr leave behind included (mc_strtoull_len, _item_delta).
THEOREM NumbersAreExact == DataSpec => []NumbersExact
<1>1. ParserExact
  <2>1. ASSUME NEW str \in BoundedSeq(Digit \cup {Space, Junk}, 4)
        PROVE  mc_strtoull_len(str) = Denoted(str)
    <3>1. PICK n \in 0..4 : str \in [1..n -> Digit \cup {Space, Junk}]
      BY DEF BoundedSeq, SeqOf
    <3>2. str \in [1..n -> Byte]
      BY <3>1 DEF Byte
    <3>3. str \in Seq(Byte)
      BY <3>2
    <3> QED
      BY <3>3, ParserReads
  <2>2. ASSUME NEW n \in 0..(Base * (UINT64_MAX \div Base) - 1)
        PROVE  mc_strtoull_len(snprintf(n)) = n
    <3>1. Base \in Nat /\ UINT64_MAX \div Base \in Nat
      BY DigitFacts
    <3>2. Base * (UINT64_MAX \div Base) \in Nat
      BY <3>1
    <3>3. n \in Nat /\ n < Limit
      BY <3>2 DEF Limit
    <3> QED
      BY <3>3, PrintedIsRead
  <2> QED
    BY <2>1, <2>2 DEF ParserExact
<1>2. DataInv => NumbersExact
  <2>1. SUFFICES ASSUME DataInv, hash # NoItem
                 PROVE  mc_strtoull_len(Stored(item[hash])) = Denoted(Stored(item[hash]))
    BY <1>1 DEF NumbersExact
  <2>2. Good(item[hash])
    BY <2>1, LinkedGood DEF DataInv
  <2>3. Stored(item[hash]) \in Seq(Byte)
    BY <2>2, GoodFacts
  <2> QED
    BY <2>3, ParserReads
<1> QED
  BY <1>2, DataInvariant, PTL
=============================================================================
