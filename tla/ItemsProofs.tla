---------------------------- MODULE ItemsProofs -----------------------------
(***************************************************************************)
(* Operations on items and slabs, for any number of slabs, classes, items  *)
(* and keys.  First what removing elements from a queue leaves, and what   *)
(* the operations do to the reference counts: except for the references    *)
(* they take or drop for their caller, they leave the counts as they were, *)
(* for what they take on the way they release.  Then that they keep hash,  *)
(* queues, flags and counts in step: what is linked is in the hash under   *)
(* its key and in the lruq of its class, what is free is in the free       *)
(* queue, and no chunk is lost or in two places.                           *)
(***************************************************************************)
EXTENDS Items, FiniteSetTheorems, SequenceTheorems, TLAPS

(***************************************************************************)
(* The queue operators.                                                    *)
(***************************************************************************)

\* A nonempty set of naturals has a least element.
LEMMA LeastNat ==
    ASSUME NEW I \in SUBSET Nat, I # {}
    PROVE  \E i \in I : \A j \in I : i <= j
<1>1. IsWellFoundedOn(OpToRel(<, Nat), Nat)
  BY NatLessThanWellFounded
<1>2. PICK i \in I : \A j \in I : <<j, i>> \notin OpToRel(<, Nat)
  BY <1>1, WFMin
<1>3. \A j \in I : ~(j < i)
  BY <1>2 DEF OpToRel
<1>4. \A j \in I : i <= j
  BY <1>3
<1> QED
  BY <1>4

\* FirstAt picks the least position.
LEMMA FirstAtProperties ==
    ASSUME NEW T, NEW q \in Seq(T), NEW I \in SUBSET (DOMAIN q), I # {}
    PROVE  \E i \in I : /\ FirstAt(q, I) = q[i]
                        /\ q[i] \in T
                        /\ \A j \in I : i <= j
<1>1. I \subseteq Nat
  BY LenProperties
<1>2. \E i \in I : \A j \in I : i <= j
  BY <1>1, LeastNat
<1>3. \A i \in I : q[i] \in T
  BY LenProperties
<1> QED
  BY <1>2, <1>3 DEF FirstAt

\* The rank numbers the positions that are kept from 1 on, in order.
LEMMA RankProperties ==
    ASSUME NEW n \in Nat, NEW I \in SUBSET (1..n)
    PROVE  /\ IsFiniteSet(I)
           /\ Cardinality(I) \in Nat
           /\ \A i \in I : Rank(I, i) \in 1..Cardinality(I)
           /\ \A i, j \in I : i < j => Rank(I, i) < Rank(I, j)
           /\ \A k \in 1..Cardinality(I) : \E i \in I : Rank(I, i) = k
<1> DEFINE Below(i) == {j \in I : j <= i}
<1> DEFINE f == [i \in I |-> Rank(I, i)]
<1>1. IsFiniteSet(I) /\ Cardinality(I) \in Nat
  <2>1. IsFiniteSet(1..n)
    BY FS_Interval
  <2>2. IsFiniteSet(I)
    BY <2>1, FS_Subset
  <2> QED
    BY <2>2, FS_CardinalityType
<1>2. ASSUME NEW i \in I
      PROVE  Rank(I, i) \in 1..Cardinality(I)
  <2>1. Below(i) \in SUBSET I
    OBVIOUS
  <2>2. IsFiniteSet(Below(i)) /\ Cardinality(Below(i)) <= Cardinality(I)
    BY <1>1, <2>1, FS_Subset
  <2>3. Cardinality(Below(i)) \in Nat
    BY <2>2, FS_CardinalityType
  <2>4. i \in Below(i)
    OBVIOUS
  <2>5. Cardinality(Below(i)) # 0
    BY <2>2, <2>4, FS_EmptySet
  <2> QED
    BY <1>1, <2>2, <2>3, <2>5 DEF Rank
<1>3. ASSUME NEW i \in I, NEW j \in I, i < j
      PROVE  Rank(I, i) < Rank(I, j)
  <2>1. Below(i) \in SUBSET Below(j)
    <3>1. \A k \in I : k <= i => k <= j
      BY <1>3
    <3> QED
      BY <3>1
  <2>2. Below(j) \in SUBSET I
    OBVIOUS
  <2>3. IsFiniteSet(Below(j))
    BY <1>1, <2>2, FS_Subset
  <2>4. /\ Cardinality(Below(i)) <= Cardinality(Below(j))
        /\ Cardinality(Below(j)) = Cardinality(Below(i)) => Below(j) = Below(i)
    BY <2>1, <2>3, FS_Subset
  <2>5. j \in Below(j) /\ j \notin Below(i)
    BY <1>3
  <2>6. Cardinality(Below(i)) # Cardinality(Below(j))
    BY <2>4, <2>5
  <2> QED
    BY <1>2, <2>4, <2>6 DEF Rank
<1>4. f \in Injection(I, 1..Cardinality(I))
  <2>1. f \in [I -> 1..Cardinality(I)]
    BY <1>2
  <2>2. \A i, j \in I : f[i] = f[j] => i = j
    <3> SUFFICES ASSUME NEW i \in I, NEW j \in I, i # j
                 PROVE  f[i] # f[j]
      OBVIOUS
    <3>1. CASE i < j
      BY <3>1, <1>2, <1>3
    <3>2. CASE j < i
      BY <3>2, <1>2, <1>3
    <3> QED
      BY <3>1, <3>2
  <2> QED
    BY <2>1, <2>2 DEF Injection, IsInjective
<1>5. f \in Surjection(I, 1..Cardinality(I))
  <2>1. /\ IsFiniteSet(1..Cardinality(I))
        /\ Cardinality(1..Cardinality(I)) = Cardinality(I)
    BY <1>1, FS_Interval
  <2> QED
    BY <1>4, <2>1, FS_Injection
<1>6. \A k \in 1..Cardinality(I) : \E i \in I : Rank(I, i) = k
  BY <1>5 DEF Surjection
<1> QED
  BY <1>1, <1>2, <1>3, <1>6

\* Without removes exactly the elements of S, and creates no duplicates.
LEMMA WithoutProperties ==
    ASSUME NEW T, NEW q \in Seq(T), NEW S
    PROVE  /\ Without(q, S) \in Seq(T)
           /\ Elems(Without(q, S)) = Elems(q) \ S
           /\ NoDup(q) => NoDup(Without(q, S))
<1> DEFINE I == Kept(q, S)
           n == Cardinality(I)
           at(k) == CHOOSE i \in I : Rank(I, i) = k
           w == Without(q, S)
<1>1. Len(q) \in Nat /\ DOMAIN q = 1..Len(q) /\ \A i \in DOMAIN q : q[i] \in T
  BY LenProperties
<1>2. I \in SUBSET (1..Len(q))
  BY <1>1 DEF Kept
<1> HIDE DEF I
<1>3. /\ n \in Nat
      /\ \A i \in I : Rank(I, i) \in 1..n
      /\ \A i, j \in I : i < j => Rank(I, i) < Rank(I, j)
      /\ \A k \in 1..n : \E i \in I : Rank(I, i) = k
  BY <1>1, <1>2, RankProperties
<1>4. \A k \in 1..n : at(k) \in I /\ Rank(I, at(k)) = k
  BY <1>3
<1>5. w = [k \in 1..n |-> q[at(k)]]
  BY DEF Without, I
<1> HIDE DEF n, at, w
<1>6. w \in Seq(T)
  <2>1. w \in [1..n -> T]
    BY <1>1, <1>2, <1>4, <1>5
  <2> QED
    BY <1>3, <2>1, SeqDef
<1>7. DOMAIN w = 1..n /\ \A k \in 1..n : w[k] = q[at(k)]
  BY <1>5
<1>8. \A i \in I : at(Rank(I, i)) = i
  <2> SUFFICES ASSUME NEW i \in I
               PROVE  at(Rank(I, i)) = i
    OBVIOUS
  <2> DEFINE j == at(Rank(I, i))
  <2>1. Rank(I, i) \in 1..n
    BY <1>3
  <2>2. j \in I /\ Rank(I, j) = Rank(I, i)
    BY <1>4, <2>1
  <2> HIDE DEF j
  <2>3. i \in Nat /\ j \in Nat
    BY <1>2, <2>2
  <2>4. ~(i < j) /\ ~(j < i)
    BY <1>3, <2>1, <2>2
  <2> QED
    BY <2>3, <2>4 DEF j
<1>9. Elems(w) = Elems(q) \ S
  <2>1. \A k \in 1..n : w[k] \in Elems(q) \ S
    BY <1>4, <1>7 DEF Elems, I, Kept
  <2>2. ASSUME NEW i \in DOMAIN q, q[i] \notin S
        PROVE  q[i] \in Elems(w)
    <3>1. i \in I
      BY <2>2 DEF I, Kept
    <3>2. Rank(I, i) \in 1..n /\ w[Rank(I, i)] = q[i]
      BY <1>3, <1>7, <1>8, <3>1
    <3> QED
      BY <1>7, <3>2 DEF Elems
  <2> QED
    BY <1>7, <2>1, <2>2 DEF Elems
<1>10. ASSUME NoDup(q)
       PROVE  NoDup(w)
  <2> SUFFICES ASSUME NEW k \in 1..n, NEW l \in 1..n, w[k] = w[l]
               PROVE  k = l
    BY <1>7 DEF NoDup
  <2>1. at(k) = at(l)
    BY <1>4, <1>7, <1>10 DEF NoDup, I, Kept
  <2> QED
    BY <1>4, <2>1
<1> QED
  BY <1>6, <1>9, <1>10 DEF w

\* TAILQ_INSERT_TAIL adds its element, which must not be queued yet.
LEMMA AppendElems ==
    ASSUME NEW T, NEW q \in Seq(T), NEW x \in T
    PROVE  /\ Append(q, x) \in Seq(T)
           /\ Elems(Append(q, x)) = Elems(q) \cup {x}
           /\ NoDup(q) /\ x \notin Elems(q) => NoDup(Append(q, x))
<1> DEFINE a == Append(q, x)
           n == Len(q)
<1>1. /\ a \in Seq(T) /\ Len(a) = n + 1 /\ n \in Nat
      /\ DOMAIN a = 1..(n + 1) /\ DOMAIN q = 1..n
      /\ \A i \in 1..n : a[i] = q[i]
      /\ a[n + 1] = x
  BY AppendProperties, LenProperties
<1> HIDE DEF a, n
<1>2. Elems(a) = Elems(q) \cup {x}
  <2>1. ASSUME NEW y \in Elems(a) PROVE y \in Elems(q) \cup {x}
    <3>1. PICK i \in 1..(n + 1) : a[i] = y
      BY <1>1, <2>1 DEF Elems
    <3>2. i \in 1..n \/ i = n + 1
      BY <1>1
    <3> QED
      BY <1>1, <3>1, <3>2 DEF Elems
  <2>2. ASSUME NEW y \in Elems(q) PROVE y \in Elems(a)
    <3>1. PICK i \in 1..n : q[i] = y
      BY <1>1, <2>2 DEF Elems
    <3>2. i \in 1..(n + 1) /\ a[i] = y
      BY <1>1, <3>1
    <3> QED
      BY <1>1, <3>2 DEF Elems
  <2>3. x \in Elems(a)
    BY <1>1 DEF Elems
  <2> QED
    BY <2>1, <2>2, <2>3
<1>3. ASSUME NoDup(q), x \notin Elems(q) PROVE NoDup(a)
  <2> SUFFICES ASSUME NEW i \in 1..(n + 1), NEW j \in 1..(n + 1), a[i] = a[j]
               PROVE  i = j
    BY <1>1 DEF NoDup
  <2>1. \A k \in 1..n : q[k] # x
    BY <1>1, <1>3 DEF Elems
  <2>2. (i \in 1..n \/ i = n + 1) /\ (j \in 1..n \/ j = n + 1)
    BY <1>1
  <2> QED
    BY <1>1, <1>3, <2>1, <2>2 DEF NoDup
<1> QED
  BY <1>1, <1>2, <1>3 DEF a

\* Putting one queue before another, as TAILQ_INSERT_HEAD does with a queue
\* of one element.
LEMMA ConcatElems ==
    ASSUME NEW T, NEW p \in Seq(T), NEW q \in Seq(T)
    PROVE  /\ p \o q \in Seq(T)
           /\ Elems(p \o q) = Elems(p) \cup Elems(q)
           /\ NoDup(p) /\ NoDup(q) /\ Elems(p) \cap Elems(q) = {} => NoDup(p \o q)
<1> DEFINE a == p \o q
           m == Len(p)
           n == Len(q)
<1>1. /\ a \in Seq(T) /\ m \in Nat /\ n \in Nat
      /\ DOMAIN a = 1..(m + n) /\ DOMAIN p = 1..m /\ DOMAIN q = 1..n
      /\ \A i \in 1..(m + n) : a[i] = IF i <= m THEN p[i] ELSE q[i - m]
  BY ConcatProperties, LenProperties
<1> HIDE DEF a, m, n
<1>2. \A i \in 1..(m + n) : (i \in 1..m /\ a[i] = p[i]) \/ (i - m \in 1..n /\ a[i] = q[i - m])
  BY <1>1
<1>3. Elems(a) = Elems(p) \cup Elems(q)
  <2>1. Elems(a) \subseteq Elems(p) \cup Elems(q)
    BY <1>1, <1>2 DEF Elems
  <2>2. Elems(p) \subseteq Elems(a)
    <3>1. \A i \in 1..m : i \in 1..(m + n) /\ a[i] = p[i]
      BY <1>1
    <3> QED
      BY <1>1, <3>1 DEF Elems
  <2>3. Elems(q) \subseteq Elems(a)
    <3>1. \A i \in 1..n : i + m \in 1..(m + n) /\ a[i + m] = q[i]
      BY <1>1
    <3> QED
      BY <1>1, <3>1 DEF Elems
  <2> QED
    BY <2>1, <2>2, <2>3
<1>4. ASSUME NoDup(p), NoDup(q), Elems(p) \cap Elems(q) = {} PROVE NoDup(a)
  <2> SUFFICES ASSUME NEW i \in 1..(m + n), NEW j \in 1..(m + n), a[i] = a[j]
               PROVE  i = j
    BY <1>1 DEF NoDup
  <2>1. \A k \in 1..m, l \in 1..n : p[k] # q[l]
    BY <1>1, <1>4 DEF Elems
  <2>2. \/ i \in 1..m /\ j \in 1..m /\ p[i] = p[j]
        \/ i - m \in 1..n /\ j - m \in 1..n /\ q[i - m] = q[j - m]
    BY <1>2, <2>1
  <2>3. CASE i \in 1..m /\ j \in 1..m /\ p[i] = p[j]
    BY <1>1, <1>4, <2>3 DEF NoDup
  <2>4. CASE i - m \in 1..n /\ j - m \in 1..n /\ q[i - m] = q[j - m]
    <3>1. i - m = j - m
      BY <1>1, <1>4, <2>4 DEF NoDup
    <3> QED
      BY <1>1, <3>1
  <2> QED
    BY <2>2, <2>3, <2>4
<1> QED
  BY <1>1, <1>3, <1>4 DEF a

\* The queue of one element.
LEMMA SingleElems ==
    ASSUME NEW T, NEW x \in T
    PROVE  <<x>> \in Seq(T) /\ Elems(<<x>>) = {x} /\ NoDup(<<x>>)
<1>1. <<x>> \in Seq(T) /\ DOMAIN <<x>> = {1} /\ <<x>>[1] = x
  OBVIOUS
<1> QED
  BY <1>1 DEF Elems, NoDup

\* Taking the head off a queue without duplicates takes that element out.
LEMMA TailElems ==
    ASSUME NEW T, NEW q \in Seq(T), q # << >>
    PROVE  /\ Head(q) \in T /\ Tail(q) \in Seq(T) /\ Head(q) \in Elems(q)
           /\ NoDup(q) => NoDup(Tail(q)) /\ Elems(Tail(q)) = Elems(q) \ {Head(q)}
<1> DEFINE t == Tail(q)
           n == Len(q)
<1>1. /\ t \in Seq(T) /\ Head(q) \in T /\ Head(q) = q[1]
      /\ n \in Nat \ {0} /\ DOMAIN q = 1..n
      /\ DOMAIN t = 1..(n - 1) /\ \A i \in 1..(n - 1) : t[i] = q[i + 1]
  BY HeadTailProperties, LenProperties, EmptySeq
<1> HIDE DEF t, n
<1>2. Head(q) \in Elems(q)
  BY <1>1 DEF Elems
<1>3. ASSUME NoDup(q) PROVE NoDup(t)
  <2> SUFFICES ASSUME NEW i \in 1..(n - 1), NEW j \in 1..(n - 1), t[i] = t[j]
               PROVE  i = j
    BY <1>1 DEF NoDup
  <2>1. i + 1 \in 1..n /\ j + 1 \in 1..n /\ q[i + 1] = q[j + 1]
    BY <1>1
  <2>2. i + 1 = j + 1
    BY <1>1, <1>3, <2>1 DEF NoDup
  <2> QED
    BY <2>2
<1>4. ASSUME NoDup(q) PROVE Elems(t) = Elems(q) \ {q[1]}
  <2>1. ASSUME NEW i \in 1..(n - 1) PROVE t[i] \in Elems(q) /\ t[i] # q[1]
    <3>1. i + 1 \in 1..n /\ 1 \in 1..n /\ i + 1 # 1 /\ t[i] = q[i + 1]
      BY <1>1
    <3>2. q[i + 1] # q[1]
      BY <1>1, <1>4, <3>1 DEF NoDup
    <3>3. q[i + 1] \in Elems(q)
      BY <1>1, <3>1 DEF Elems
    <3> QED
      BY <3>1, <3>2, <3>3
  <2>2. ASSUME NEW i \in 1..n, q[i] # q[1] PROVE q[i] \in Elems(t)
    <3>1. i - 1 \in 1..(n - 1) /\ t[i - 1] = q[i]
      BY <1>1, <2>2
    <3> QED
      BY <1>1, <3>1 DEF Elems
  <2> QED
    BY <1>1, <2>1, <2>2 DEF Elems
<1> QED
  BY <1>1, <1>2, <1>3, <1>4 DEF t

-----------------------------------------------------------------------------
(***************************************************************************)
(* The slab allocator.                                                     *)
(***************************************************************************)

\* Items of the slabs allocated so far.
Live(h) == (1..h.nslab) \X (1..max_nitem)

\* The memory has its type, and hash and queues point into allocated slabs.
HeapOK(h) ==
    /\ h \in HeapType
    /\ h.slab_lruq \in Seq(1..h.nslab)
    /\ \A id \in Class : /\ h.free_item[id] \in Live(h) \cup {NoItem}
                         /\ h.free_itemq[id] \in Seq(Live(h))
                         /\ h.item_lruq[id] \in Seq(Live(h))
    /\ \A k \in MaybeKey : h.hash[k] \in Live(h) \cup {NoItem}

\* From h to m the memory stays well formed and counts the same references;
\* a slab may have been added.
Quiet(h, m) ==
    /\ HeapOK(m)
    /\ m.refcount = h.refcount
    /\ m.slab_refcount = h.slab_refcount
    /\ h.nslab <= m.nslab

\* A slab without references has no referenced item, and so has a slab that
\* is not allocated yet.
CountsOK(h) ==
    \A s \in Slab : /\ h.slab_refcount[s] = 0 =>
                          \A it \in Item : it[1] = s => h.refcount[it] = 0
                    /\ s > h.nslab => h.slab_refcount[s] = 0

-----------------------------------------------------------------------------
\* What is live is an item of the heap.
LEMMA LiveItems ==
    ASSUME NEW h, HeapOK(h)
    PROVE  /\ 1..h.nslab \subseteq Slab
           /\ Live(h) \subseteq Item
           /\ \A q \in Seq(1..h.nslab) : q \in Seq(Slab)
           /\ \A q \in Seq(Live(h)) : q \in Seq(Item)
<1>1. 1..h.nslab \subseteq Slab
  BY SlabAssumption DEF HeapOK, HeapType, Slab
<1>2. Live(h) \subseteq Item
  BY <1>1 DEF Live, Item
<1> QED
  BY <1>1, <1>2, SeqMonotonic

\* NoItem is none of them.
LEMMA LiveNotNoItem ==
    ASSUME NEW h, HeapOK(h), NEW it \in Live(h)
    PROVE  it # NoItem /\ it \in Item /\ it[1] \in 1..h.nslab /\ it[1] \in Slab
  BY LiveItems, SlabAssumption DEF Live

\* An operation that does nothing leaves the counts alone.
LEMMA QuietRefl ==
    ASSUME NEW h, HeapOK(h)
    PROVE  Quiet(h, h)
  BY SlabAssumption DEF Quiet, HeapOK, HeapType

\* The case of an operation that adds no slab.
LEMMA SameSlabsQuiet ==
    ASSUME NEW h, HeapOK(h), NEW m, HeapOK(m), m.refcount = h.refcount,
           m.slab_refcount = h.slab_refcount, m.nslab = h.nslab
    PROVE  Quiet(h, m)
  BY SlabAssumption DEF Quiet, HeapOK, HeapType

\* Two operations in a row that leave the counts alone leave them alone.
LEMMA QuietTrans ==
    ASSUME NEW h, HeapOK(h), NEW g, Quiet(h, g), NEW m, Quiet(g, m)
    PROVE  Quiet(h, m)
  BY SlabAssumption DEF Quiet, HeapOK, HeapType

\* Live items stay live, and the counts stay consistent.
LEMMA QuietLive ==
    ASSUME NEW h, HeapOK(h), NEW g, Quiet(h, g)
    PROVE  /\ HeapOK(g)
           /\ Live(h) \subseteq Live(g)
           /\ 1..h.nslab \subseteq 1..g.nslab
           /\ CountsOK(h) => CountsOK(g)
<1>1. h.nslab \in Nat /\ g.nslab \in Nat /\ h.nslab <= g.nslab
  BY SlabAssumption DEF Quiet, HeapOK, HeapType
<1>2. 1..h.nslab \subseteq 1..g.nslab
  BY <1>1
<1>3. Live(h) \subseteq Live(g)
  BY <1>2 DEF Live
<1>4. CountsOK(h) => CountsOK(g)
  BY <1>1, SlabAssumption DEF CountsOK, Quiet, Slab
<1> QED
  BY <1>2, <1>3, <1>4 DEF Quiet

-----------------------------------------------------------------------------
\* An ASSERT of the code records its outcome and touches no count.
LEMMA CheckQuiet ==
    ASSUME NEW h, HeapOK(h), NEW ok, NEW name \in AssertName
    PROVE  /\ Quiet(h, Check(h, ok, name))
           /\ Check(h, ok, name).nslab = h.nslab
<1> DEFINE m == Check(h, ok, name)
<1>1. /\ HeapOK(m)
      /\ m.refcount = h.refcount
      /\ m.slab_refcount = h.slab_refcount
      /\ m.nslab = h.nslab
  BY SlabAssumption DEF HeapOK, HeapType, Check, Live
<1> HIDE DEF m
<1>2. Quiet(h, m)
  BY <1>1, SameSlabsQuiet
<1> QED
  BY <1>1, <1>2 DEF m

\* slab_lruq_touch moves a slab to the tail of the slab LRU queue, and
\* touches no count.
LEMMA TouchSlabQuiet ==
    ASSUME NEW h, HeapOK(h), NEW s \in 1..h.nslab, NEW a \in BOOLEAN, now \in Nat
    PROVE  Quiet(h, slab_lruq_touch(h, s, a))
<1> DEFINE q == Append(Without(h.slab_lruq, {s}), s)
<1>1. q \in Seq(1..h.nslab)
  BY WithoutProperties, AppendProperties DEF HeapOK
<1>2. q \in Seq(Slab)
  BY <1>1, LiveItems
<1> DEFINE m == slab_lruq_touch(h, s, a)
<1>3. /\ HeapOK(m)
      /\ m.refcount = h.refcount
      /\ m.slab_refcount = h.slab_refcount
      /\ m.nslab = h.nslab
  <2>1. CASE m = h
    BY <2>1
  <2>2. CASE m = [h EXCEPT !.utime[s] = now, !.slab_lruq = q]
    <3> HIDE DEF m, q
    <3> QED
      BY <1>1, <1>2, <2>2, SlabAssumption DEF HeapOK, HeapType, Live
  <2> QED
    BY <2>1, <2>2 DEF slab_lruq_touch
<1> QED
  BY <1>3, SameSlabsQuiet

\* slab_put_item puts a live item at the head of the free queue of its class,
\* and touches no count.
LEMMA PutQuiet ==
    ASSUME NEW h, HeapOK(h), NEW it \in Live(h)
    PROVE  Quiet(h, slab_put_item(h, it))
<1> DEFINE id == item_id(h, it)
           ok == /\ ~item_is_linked(h, it)
                 /\ ~item_is_slabbed(h, it)
                 /\ h.refcount[it] = 0
           g == Check(h, ok, "slab_put_item_into_freeq")
           m == [g EXCEPT !.flags[it] = (@ \cup {"SLABBED"}) \ {"RALIGN"},
                          !.hdr[it] = Blank,
                          !.free_itemq[id] = <<it>> \o @]
<1> HIDE DEF ok
<1>1. Quiet(h, g) /\ g.nslab = h.nslab
  BY CheckQuiet DEF AssertName
<1>2. slab_put_item(h, it) = m
  BY DEF slab_put_item, ok
<1> HIDE DEF g, id
<1>3. \A c \in Class : <<it>> \o g.free_itemq[c] \in Seq(Live(g))
  <2>1. <<it>> \in Seq(Live(g))
    BY <1>1 DEF Live
  <2>2. \A c \in Class : g.free_itemq[c] \in Seq(Live(g))
    BY <1>1 DEF Quiet, HeapOK
  <2> QED
    BY <2>1, <2>2, ConcatProperties
<1>4. \A c \in Class : <<it>> \o g.free_itemq[c] \in Seq(Item)
  BY <1>1, <1>3, LiveItems DEF Quiet
<1>5. Blank \in ItemHdr
  BY DEF Blank, ItemHdr, MaybeKey
<1>6. Quiet(g, m)
  BY <1>1, <1>3, <1>4, <1>5, SlabAssumption
     DEF HeapOK, HeapType, Quiet, Live, ItemFlag
<1> QED
  BY <1>1, <1>2, <1>6, QuietTrans

\* slab_evict_one takes every item of a slab out of the hash table and of the
\* queues, and touches no count.
LEMMA EvictQuiet ==
    ASSUME NEW h, HeapOK(h), NEW s \in 1..h.nslab
    PROVE  /\ Quiet(h, slab_evict_one(h, s))
           /\ slab_evict_one(h, s).nslab = h.nslab
<1> DEFINE id      == h.slab_class[s]
           items   == slab_items(h, s)
           linked  == {it \in items : item_is_linked(h, it)}
           slabbed == {it \in items : ~item_is_linked(h, it) /\ item_is_slabbed(h, it)}
           ok      == \A it \in items : h.refcount[it] = 0
           dead    == {h.hdr[it].key : it \in linked}
           g       == Check(h, ok, "slab_evict_one")
           flags   == [it \in Item |->
                         IF it \in items THEN g.flags[it] \ {"LINKED", "SLABBED"}
                         ELSE g.flags[it]]
           hash    == [k \in MaybeKey |-> IF k \in dead THEN NoItem ELSE g.hash[k]]
           free    == IF g.free_item[id] # NoItem /\ item_2_slab(g.free_item[id]) = s
                      THEN NoItem ELSE g.free_item[id]
           m       == [g EXCEPT !.free_item[id] = free,
                                !.flags = flags,
                                !.hash = hash,
                                !.item_lruq[id] = Without(@, linked),
                                !.free_itemq[id] = Without(@, slabbed),
                                !.slab_lruq = Without(@, {s})]
<1> HIDE DEF ok
<1>1. Quiet(h, g) /\ g.nslab = h.nslab
  BY CheckQuiet DEF AssertName
<1>2. slab_evict_one(h, s) = m
  BY DEF slab_evict_one, ok
<1> HIDE DEF g, id, items, linked, slabbed, dead
<1>3. \A c \in Class : /\ Without(g.item_lruq[c], linked) \in Seq(Live(g))
                       /\ Without(g.free_itemq[c], slabbed) \in Seq(Live(g))
  BY <1>1, WithoutProperties DEF Quiet, HeapOK
<1>4. Without(g.slab_lruq, {s}) \in Seq(1..g.nslab)
  BY <1>1, WithoutProperties DEF Quiet, HeapOK
<1>5. /\ \A c \in Class : /\ Without(g.item_lruq[c], linked) \in Seq(Item)
                          /\ Without(g.free_itemq[c], slabbed) \in Seq(Item)
      /\ Without(g.slab_lruq, {s}) \in Seq(Slab)
  BY <1>1, <1>3, <1>4, LiveItems DEF Quiet
<1>6. /\ flags \in [Item -> SUBSET ItemFlag]
      /\ hash \in [MaybeKey -> MaybeItem]
      /\ \A k \in MaybeKey : hash[k] \in Live(g) \cup {NoItem}
      /\ id \in Class => free \in MaybeItem /\ free \in Live(g) \cup {NoItem}
  BY <1>1 DEF Quiet, HeapOK, HeapType, MaybeItem
<1> HIDE DEF flags, hash, free
<1> DEFINE fi == [g.free_item EXCEPT ![id] = free]
           fq == [g.free_itemq EXCEPT ![id] = Without(@, slabbed)]
           lq == [g.item_lruq EXCEPT ![id] = Without(@, linked)]
           sq == Without(g.slab_lruq, {s})
<1>7. /\ HeapOK(m)
      /\ m.refcount = g.refcount
      /\ m.slab_refcount = g.slab_refcount
      /\ m.nslab = g.nslab
  <2>1. m = [g EXCEPT !.free_item = fi, !.flags = flags, !.hash = hash,
                      !.item_lruq = lq, !.free_itemq = fq, !.slab_lruq = sq]
    BY <1>1 DEF Quiet, HeapOK, HeapType
  <2>2. /\ fi \in [Class -> MaybeItem]
        /\ \A c \in Class : fi[c] \in Live(g) \cup {NoItem}
    BY <1>1, <1>6 DEF Quiet, HeapOK, HeapType
  <2>3. /\ fq \in [Class -> Seq(Item)]
        /\ \A c \in Class : fq[c] \in Seq(Live(g))
    BY <1>1, <1>3, <1>5 DEF Quiet, HeapOK, HeapType
  <2>4. /\ lq \in [Class -> Seq(Item)]
        /\ \A c \in Class : lq[c] \in Seq(Live(g))
    BY <1>1, <1>3, <1>5 DEF Quiet, HeapOK, HeapType
  <2> HIDE DEF fi, fq, lq, sq, m
  <2>5. m \in HeapType
    BY <1>1, <1>5, <1>6, <2>1, <2>2, <2>3, <2>4 DEF Quiet, HeapOK, HeapType, sq
  <2> QED
    BY <1>1, <1>4, <1>6, <2>1, <2>2, <2>3, <2>4, <2>5 DEF Quiet, HeapOK, HeapType, Live, sq
<1>8. Quiet(g, m)
  BY <1>1, <1>7, SameSlabsQuiet DEF Quiet
<1> QED
  BY <1>1, <1>2, <1>7, <1>8, QuietTrans

\* An unreferenced slab can be made the current one of a class.
LEMMA AddQuiet ==
    ASSUME NEW h, HeapOK(h), NEW s \in 1..h.nslab, NEW id \in Class,
           h.slab_refcount[s] = 0,
           \A it \in Item : it[1] = s => h.refcount[it] = 0
    PROVE  /\ Quiet(h, slab_add_one(h, s, id))
           /\ slab_add_one(h, s, id).free_item[id] \in Live(slab_add_one(h, s, id))
<1> DEFINE sc    == [h.slab_class EXCEPT ![s] = id]
           sr    == [h.slab_refcount EXCEPT ![s] = 0]
           sq    == Append(h.slab_lruq, s)
           count == [it \in Item |-> IF item_2_slab(it) = s THEN 0 ELSE h.refcount[it]]
           flags == [it \in Item |-> IF item_2_slab(it) = s THEN {} ELSE h.flags[it]]
           hdr   == [it \in Item |-> IF item_2_slab(it) = s THEN Blank ELSE h.hdr[it]]
           fi    == [h.free_item EXCEPT ![id] = <<s, 1>>]
           m     == slab_add_one(h, s, id)
<1>1. m = [h EXCEPT !.slab_class = sc, !.slab_refcount = sr, !.slab_lruq = sq,
                    !.refcount = count, !.flags = flags, !.hdr = hdr,
                    !.free_item = fi]
  BY DEF slab_add_one, HeapOK, HeapType
<1>2. s \in Slab
  BY LiveItems
<1>3. sc \in [Slab -> Class \cup {0}]
  BY <1>2 DEF HeapOK, HeapType
<1>4. sr = h.slab_refcount
  BY <1>2 DEF HeapOK, HeapType
<1>5. sq \in Seq(1..h.nslab) /\ sq \in Seq(Slab)
  BY <1>2, LiveItems, AppendProperties DEF HeapOK
<1>6. count = h.refcount
  BY DEF HeapOK, HeapType, item_2_slab
<1>7. flags \in [Item -> SUBSET ItemFlag]
  BY DEF HeapOK, HeapType
<1>8. hdr \in [Item -> ItemHdr]
  BY DEF HeapOK, HeapType, Blank, ItemHdr, MaybeKey
<1>9. <<s, 1>> \in Live(h)
  <2>1. 1 \in 1..max_nitem
    BY SlabAssumption DEF Class
  <2> QED
    BY <2>1 DEF Live
<1>10. /\ fi \in [Class -> MaybeItem]
       /\ \A c \in Class : fi[c] \in Live(h) \cup {NoItem}
       /\ fi[id] = <<s, 1>>
  BY <1>9, LiveItems DEF HeapOK, HeapType, MaybeItem
<1> HIDE DEF m, sc, sr, sq, count, flags, hdr, fi
<1>11. m \in HeapType
  BY <1>1, <1>3, <1>4, <1>5, <1>6, <1>7, <1>8, <1>10 DEF HeapOK, HeapType
<1>12. /\ m.refcount = h.refcount
       /\ m.slab_refcount = h.slab_refcount
       /\ m.nslab = h.nslab
       /\ m.slab_lruq = sq /\ m.free_item = fi
       /\ m.free_itemq = h.free_itemq /\ m.item_lruq = h.item_lruq
       /\ m.hash = h.hash
  BY <1>1, <1>4, <1>6 DEF HeapOK, HeapType
<1>13. HeapOK(m) /\ m.free_item[id] \in Live(m)
  BY <1>5, <1>9, <1>10, <1>11, <1>12 DEF HeapOK, Live
<1>14. Quiet(h, m)
  BY <1>12, <1>13, SameSlabsQuiet
<1> QED
  BY <1>13, <1>14 DEF m

\* A slab taken from the pool extends the heap.
LEMMA PoolQuiet ==
    ASSUME NEW h, HeapOK(h), CountsOK(h), h.nslab < max_nslab, NEW junk \in Nat
    PROVE  LET s == h.nslab + 1
               m == [h EXCEPT !.nslab = s, !.utime[s] = junk]
           IN  /\ Quiet(h, m) /\ CountsOK(m)
               /\ s \in 1..m.nslab /\ s \in Slab
               /\ m.slab_refcount[s] = 0
<1> DEFINE s == h.nslab + 1
           u == [h.utime EXCEPT ![s] = junk]
           m == [h EXCEPT !.nslab = s, !.utime[s] = junk]
<1>1. h.nslab \in Nat /\ s \in Slab /\ s \in 0..max_nslab
  BY SlabAssumption DEF HeapOK, HeapType, Slab
<1>2. m = [h EXCEPT !.nslab = s, !.utime = u]
  BY DEF HeapOK, HeapType
<1>3. u \in [Slab -> Nat]
  BY <1>1 DEF HeapOK, HeapType
<1>4. h.slab_refcount[s] = 0
  BY <1>1 DEF CountsOK
<1>5. 1..h.nslab \subseteq 1..s /\ s \in 1..s /\ h.nslab <= s
  BY <1>1
<1>6. Live(h) \subseteq (1..s) \X (1..max_nitem)
  BY <1>5 DEF Live
<1>7. /\ \A q \in Seq(1..h.nslab) : q \in Seq(1..s)
      /\ \A q \in Seq(Live(h)) : q \in Seq((1..s) \X (1..max_nitem))
  BY <1>5, <1>6, SeqMonotonic
<1> HIDE DEF s, u, m
<1>8. m \in HeapType
  BY <1>1, <1>2, <1>3 DEF HeapOK, HeapType
<1>9. /\ m.nslab = s
      /\ m.refcount = h.refcount
      /\ m.slab_refcount = h.slab_refcount
      /\ m.slab_lruq = h.slab_lruq /\ m.free_item = h.free_item
      /\ m.free_itemq = h.free_itemq /\ m.item_lruq = h.item_lruq
      /\ m.hash = h.hash
  BY <1>2 DEF HeapOK, HeapType
<1>10. HeapOK(m)
  BY <1>6, <1>7, <1>8, <1>9 DEF HeapOK, Live
<1>11. Quiet(h, m)
  BY <1>5, <1>9, <1>10 DEF Quiet
<1>12. CountsOK(m)
  BY <1>11, QuietLive
<1> QED
  BY <1>1, <1>4, <1>5, <1>9, <1>11, <1>12 DEF m, s

\* slab_get evicts a slab only if nobody refers into it, so it leaves the
\* counts alone.
LEMMA GetSlabQuiet ==
    ASSUME NEW h, HeapOK(h), CountsOK(h), NEW id \in Class,
           NEW f \in BOOLEAN, NEW e \in Env(h, f)
    PROVE  /\ Quiet(h, slab_get(h, id, e))
           /\ slab_get(h, id, e).free_item[id] \in Live(slab_get(h, id, e)) \cup {NoItem}
<1> DEFINE h0 == Check(h, h.free_item[id] = NoItem /\ h.free_itemq[id] = << >>,
                       "slab_get")
           m  == slab_get(h, id, e)
           Good(g) == Quiet(h, g) /\ g.free_item[id] \in Live(g) \cup {NoItem}
<1>1. Quiet(h, h0) /\ h0.nslab = h.nslab
  BY CheckQuiet DEF AssertName
<1>2. CountsOK(h0) /\ HeapOK(h0)
  BY <1>1, QuietLive
<1>3. ASSUME NEW g, HeapOK(g), CountsOK(g), Quiet(h, g), NEW s \in 1..g.nslab,
             g.slab_refcount[s] = 0
      PROVE  Good(slab_add_one(g, s, id))
  <2>1. s \in Slab
    BY <1>3, LiveItems
  <2>2. \A it \in Item : it[1] = s => g.refcount[it] = 0
    BY <1>3, <2>1 DEF CountsOK
  <2> DEFINE a == slab_add_one(g, s, id)
  <2>3. Quiet(g, a) /\ a.free_item[id] \in Live(a)
    BY <1>3, <2>2, AddQuiet
  <2> QED
    BY <1>3, <2>3, QuietTrans
<1>4. ASSUME NEW s \in 1..h.nslab, h.slab_refcount[s] = 0
      PROVE  Good(slab_add_one(slab_evict_one(h0, s), s, id))
  <2> DEFINE g == slab_evict_one(h0, s)
  <2>1. Quiet(h0, g) /\ g.nslab = h0.nslab
    BY <1>1, <1>2, EvictQuiet
  <2>2. Quiet(h, g) /\ HeapOK(g) /\ CountsOK(g)
    BY <1>1, <1>2, <2>1, QuietTrans, QuietLive
  <2>3. g.slab_refcount[s] = 0 /\ s \in 1..g.nslab
    BY <1>1, <1>4, <2>1, <2>2 DEF Quiet
  <2> HIDE DEF g
  <2> QED
    BY <1>3, <2>2, <2>3 DEF g
<1> HIDE DEF h0
<1>5. CASE h.nslab < max_nslab /\ e.malloc
  <2> DEFINE s == h.nslab + 1
             g == [h0 EXCEPT !.nslab = s, !.utime[s] = e.junk]
  <2>1. e.junk \in Nat
    BY SlabAssumption DEF Env
  <2>2. Quiet(h0, g) /\ CountsOK(g) /\ s \in 1..g.nslab /\ g.slab_refcount[s] = 0
    BY <1>1, <1>2, <1>5, <2>1, PoolQuiet
  <2>3. Quiet(h, g) /\ HeapOK(g)
    BY <1>1, <1>2, <2>2, QuietTrans, QuietLive
  <2>4. m = slab_add_one(g, s, id)
    BY <1>5 DEF slab_get, h0
  <2> HIDE DEF g, s, m
  <2> QED
    BY <1>3, <2>2, <2>3, <2>4 DEF m
<1>6. CASE ~(h.nslab < max_nslab /\ e.malloc)
  <2> DEFINE S == LruSlabs(h)
             lru == evict_opt \cap {"CS", "AS"} # {} /\ S # {}
  <2>1. CASE lru
    <3> DEFINE s == FirstAt(h.slab_lruq, S)
    <3>1. s \in 1..h.nslab /\ h.slab_refcount[s] = 0
      <4>1. h.slab_lruq \in Seq(1..h.nslab)
        BY DEF HeapOK
      <4>2. S # {} /\ S \subseteq DOMAIN h.slab_lruq
        BY <2>1 DEF LruSlabs
      <4>3. PICK i \in S : s = h.slab_lruq[i] /\ h.slab_lruq[i] \in 1..h.nslab
        BY <4>1, <4>2, FirstAtProperties
      <4>4. h.slab_refcount[h.slab_lruq[i]] = 0
        BY <4>3 DEF LruSlabs
      <4> HIDE DEF s
      <4> QED
        BY <4>3, <4>4
    <3>2. m = slab_add_one(slab_evict_one(h0, s), s, id)
      BY <1>6, <2>1 DEF slab_get, h0
    <3> QED
      BY <1>4, <3>1, <3>2
  <2>2. CASE ~lru /\ "RS" \in evict_opt /\ RandSlabs(h, e) # {}
    <3>1. e.rand \in 1..h.nslab /\ h.slab_refcount[e.rand] = 0
      BY <2>2 DEF RandSlabs, Env
    <3>2. m = slab_add_one(slab_evict_one(h0, e.rand), e.rand, id)
      BY <1>6, <2>2 DEF slab_get, h0
    <3> QED
      BY <1>4, <3>1, <3>2
  <2>3. CASE ~lru /\ ~("RS" \in evict_opt /\ RandSlabs(h, e) # {})
    <3> DEFINE ok == ~("RS" \in evict_opt) \/ e.rand # 0
    <3>1. m = Check(h0, ok, "slab_table_rand")
      BY <1>6, <2>3 DEF slab_get, h0
    <3> HIDE DEF ok
    <3>2. Quiet(h0, m)
      BY <1>2, <3>1, CheckQuiet DEF AssertName
    <3>3. Quiet(h, m)
      BY <1>1, <3>2, QuietTrans
    <3> QED
      BY <3>3 DEF Quiet, HeapOK
  <2> QED
    BY <2>1, <2>2, <2>3
<1> QED
  BY <1>5, <1>6

\* slab_get_item returns an item of the heap, or none.
LEMMA GetItemQuiet ==
    ASSUME NEW h, HeapOK(h), CountsOK(h), NEW id \in Class,
           NEW f \in BOOLEAN, NEW e \in Env(h, f)
    PROVE  /\ Quiet(h, slab_get_item(h, id, e).mem)
           /\ slab_get_item(h, id, e).it \in Live(slab_get_item(h, id, e).mem) \cup {NoItem}
<1> DEFINE r == slab_get_item(h, id, e)
<1>1. CASE use_freeq /\ h.free_itemq[id] # << >>
  <2> DEFINE it == Head(h.free_itemq[id])
             ok == item_is_slabbed(h, it) /\ ~item_is_linked(h, it)
             g  == Check(h, ok, "slab_get_item_from_freeq")
             m  == [g EXCEPT !.flags[it] = @ \ {"SLABBED"},
                             !.free_itemq[id] = Tail(@)]
  <2>1. r = [mem |-> m, it |-> it]
    BY <1>1 DEF slab_get_item, slab_get_item_from_freeq
  <2> HIDE DEF ok
  <2>2. Quiet(h, g) /\ g.nslab = h.nslab /\ g.free_itemq = h.free_itemq
    <3>1. Quiet(h, g) /\ g.nslab = h.nslab
      BY CheckQuiet DEF AssertName
    <3>2. g.free_itemq = h.free_itemq
      BY DEF Check, HeapOK, HeapType
    <3> QED
      BY <3>1, <3>2
  <2>3. h.free_itemq[id] \in Seq(Live(h))
    BY DEF HeapOK
  <2>4. it \in Live(h) /\ Tail(h.free_itemq[id]) \in Seq(Live(h))
    BY <1>1, <2>3, HeadTailProperties
  <2>5. it \in Item /\ Tail(h.free_itemq[id]) \in Seq(Item)
    BY <2>4, LiveItems
  <2> DEFINE fl == [g.flags EXCEPT ![it] = @ \ {"SLABBED"}]
             fq == [g.free_itemq EXCEPT ![id] = Tail(@)]
  <2> HIDE DEF g, it
  <2>6. m = [g EXCEPT !.flags = fl, !.free_itemq = fq]
    BY <2>2 DEF Quiet, HeapOK, HeapType
  <2>7. fl \in [Item -> SUBSET ItemFlag]
    BY <2>2, <2>5 DEF Quiet, HeapOK, HeapType
  <2>8. /\ fq \in [Class -> Seq(Item)]
        /\ \A c \in Class : fq[c] \in Seq(Live(g))
    BY <2>2, <2>4, <2>5 DEF Quiet, HeapOK, HeapType, Live
  <2> HIDE DEF fl, fq, m
  <2>9. m \in HeapType
    BY <2>2, <2>6, <2>7, <2>8 DEF Quiet, HeapOK, HeapType
  <2>10. /\ m.refcount = g.refcount /\ m.slab_refcount = g.slab_refcount
         /\ m.nslab = g.nslab /\ m.free_itemq = fq
         /\ m.slab_lruq = g.slab_lruq /\ m.free_item = g.free_item
         /\ m.item_lruq = g.item_lruq /\ m.hash = g.hash
    BY <2>2, <2>6 DEF Quiet, HeapOK, HeapType
  <2>11. HeapOK(m)
    BY <2>2, <2>8, <2>9, <2>10 DEF Quiet, HeapOK, Live
  <2>12. Quiet(g, m)
    BY <2>2, <2>10, <2>11, SameSlabsQuiet DEF Quiet
  <2>13. Quiet(h, m)
    BY <2>2, <2>12, QuietTrans
  <2>14. it \in Live(m)
    BY <2>2, <2>4, <2>10 DEF Live
  <2> QED
    BY <2>1, <2>13, <2>14
<1>2. CASE ~(use_freeq /\ h.free_itemq[id] # << >>)
  <2> DEFINE g  == IF h.free_item[id] = NoItem THEN slab_get(h, id, e) ELSE h
             it == g.free_item[id]
             nx == IF it[2] < nitem[id] THEN <<it[1], it[2] + 1>> ELSE NoItem
             m  == IF it = NoItem THEN g ELSE [g EXCEPT !.free_item[id] = nx]
  <2>1. r = [mem |-> m, it |-> it]
    BY <1>2 DEF slab_get_item, slab_next_item
  <2>2. Quiet(h, g) /\ it \in Live(g) \cup {NoItem}
    BY GetSlabQuiet, QuietRefl DEF HeapOK
  <2> HIDE DEF g
  <2>3. CASE it = NoItem
    BY <2>1, <2>2, <2>3
  <2>4. CASE it # NoItem
    <3>1. it \in Live(g)
      BY <2>2, <2>4
    <3>2. nx \in Live(g) \cup {NoItem}
      BY <3>1, SlabAssumption DEF Live, Class
    <3>3. nx \in MaybeItem
      BY <2>2, <3>2, LiveItems DEF Quiet, MaybeItem
    <3> DEFINE fi == [g.free_item EXCEPT ![id] = nx]
    <3>4. m = [g EXCEPT !.free_item = fi]
      BY <2>2, <2>4 DEF Quiet, HeapOK, HeapType
    <3> HIDE DEF nx, m
    <3>5. /\ fi \in [Class -> MaybeItem]
          /\ \A c \in Class : fi[c] \in Live(g) \cup {NoItem}
      BY <2>2, <3>2, <3>3 DEF Quiet, HeapOK, HeapType
    <3> HIDE DEF fi
    <3>6. m \in HeapType
      BY <2>2, <3>4, <3>5 DEF Quiet, HeapOK, HeapType
    <3>7. /\ m.refcount = g.refcount /\ m.slab_refcount = g.slab_refcount
          /\ m.nslab = g.nslab /\ m.free_item = fi
          /\ m.slab_lruq = g.slab_lruq /\ m.free_itemq = g.free_itemq
          /\ m.item_lruq = g.item_lruq /\ m.hash = g.hash
      BY <2>2, <3>4 DEF Quiet, HeapOK, HeapType
    <3>8. HeapOK(m)
      BY <2>2, <3>5, <3>6, <3>7 DEF Quiet, HeapOK, Live
    <3>9. Quiet(g, m) /\ it \in Live(m)
      BY <2>2, <3>1, <3>7, <3>8, SameSlabsQuiet DEF Quiet, Live
    <3>10. Quiet(h, m)
      BY <2>2, <3>9, QuietTrans
    <3> QED
      BY <2>1, <3>9, <3>10
  <2> QED
    BY <2>3, <2>4
<1> QED
  BY <1>1, <1>2

-----------------------------------------------------------------------------
(***************************************************************************)
(* The operations on items.                                                *)
(***************************************************************************)

\* From h to m item it gains (loses) one reference, and nothing else does.
Plus(h, m, it) ==
    /\ HeapOK(m)
    /\ it \in Live(m)
    /\ h.nslab <= m.nslab
    /\ m.refcount = [h.refcount EXCEPT ![it] = @ + 1]
    /\ m.slab_refcount = [h.slab_refcount EXCEPT ![it[1]] = @ + 1]

Minus(h, m, it) ==
    /\ HeapOK(m)
    /\ h.nslab <= m.nslab
    /\ m.refcount = [h.refcount EXCEPT ![it] = @ - 1]
    /\ m.slab_refcount = [h.slab_refcount EXCEPT ![it[1]] = @ - 1]

\* What a function that returns an item does: no item, or one more reference
\* on the item it returns.
Got(h, r) ==
    \/ r.it = NoItem /\ Quiet(h, r.mem)
    \/ r.it # NoItem /\ Plus(h, r.mem, r.it)

\* No count is within n of wrapping around.
Room(h, n) ==
    /\ \A it \in Item : h.refcount[it] + n < RefMod
    /\ \A s \in Slab : h.slab_refcount[s] + n < RefMod

-----------------------------------------------------------------------------
\* The counts of a well-formed memory.
LEMMA CountTypes ==
    ASSUME NEW h, HeapOK(h)
    PROVE  /\ h.refcount \in [Item -> Nat]
           /\ h.slab_refcount \in [Slab -> Nat]
           /\ h.nslab \in Nat
  BY SlabAssumption DEF HeapOK, HeapType

\* A reference taken after an operation that touches no count is one
\* reference taken.
LEMMA QuietPlus ==
    ASSUME NEW h, HeapOK(h), NEW g, Quiet(h, g), NEW m, NEW it, Plus(g, m, it)
    PROVE  Plus(h, m, it)
<1>1. HeapOK(g) /\ HeapOK(m)
  BY DEF Quiet, Plus
<1>2. h.nslab \in Nat /\ g.nslab \in Nat /\ m.nslab \in Nat
  BY <1>1, CountTypes
<1>3. h.nslab <= m.nslab
  BY <1>2 DEF Quiet, Plus
<1> QED
  BY <1>3 DEF Quiet, Plus

\* So is a reference taken before one.
LEMMA PlusQuiet ==
    ASSUME NEW h, HeapOK(h), NEW g, NEW it, Plus(h, g, it), NEW m, Quiet(g, m)
    PROVE  Plus(h, m, it)
<1>1. HeapOK(g) /\ HeapOK(m)
  BY DEF Quiet, Plus
<1>2. h.nslab \in Nat /\ g.nslab \in Nat /\ m.nslab \in Nat
  BY <1>1, CountTypes
<1>3. h.nslab <= m.nslab
  BY <1>2 DEF Quiet, Plus
<1>4. it \in Live(m)
  BY <1>1, QuietLive DEF Plus
<1> QED
  BY <1>3, <1>4 DEF Quiet, Plus

\* A reference dropped before an operation that touches no count is one
\* reference dropped.
LEMMA MinusQuiet ==
    ASSUME NEW h, HeapOK(h), NEW g, NEW it, Minus(h, g, it), NEW m, Quiet(g, m)
    PROVE  Minus(h, m, it)
<1>1. HeapOK(g) /\ HeapOK(m)
  BY DEF Quiet, Minus
<1>2. h.nslab \in Nat /\ g.nslab \in Nat /\ m.nslab \in Nat
  BY <1>1, CountTypes
<1>3. h.nslab <= m.nslab
  BY <1>2 DEF Quiet, Minus
<1> QED
  BY <1>3 DEF Quiet, Minus

\* So is a reference dropped after one.
LEMMA QuietMinus ==
    ASSUME NEW h, HeapOK(h), NEW g, Quiet(h, g), NEW m, NEW it, Minus(g, m, it)
    PROVE  Minus(h, m, it)
<1>1. HeapOK(g) /\ HeapOK(m)
  BY DEF Quiet, Minus
<1>2. h.nslab \in Nat /\ g.nslab \in Nat /\ m.nslab \in Nat
  BY <1>1, CountTypes
<1>3. h.nslab <= m.nslab
  BY <1>2 DEF Quiet, Minus
<1> QED
  BY <1>3 DEF Quiet, Minus

\* An item gains a reference: the counts stay consistent.
LEMMA PlusFacts ==
    ASSUME NEW h, HeapOK(h), CountsOK(h), NEW g, NEW it, Plus(h, g, it)
    PROVE  /\ HeapOK(g) /\ CountsOK(g)
           /\ it \in Live(g) /\ it \in Item /\ it[1] \in Slab
           /\ g.refcount[it] > 0
<1>1. HeapOK(g) /\ it \in Live(g)
  BY DEF Plus
<1>2. it \in Item /\ it[1] \in Slab /\ it[1] \in 1..g.nslab
  BY <1>1, LiveNotNoItem
<1>3. /\ h.refcount \in [Item -> Nat] /\ h.slab_refcount \in [Slab -> Nat]
      /\ h.nslab \in Nat /\ g.nslab \in Nat /\ h.nslab <= g.nslab
  BY <1>1, CountTypes DEF Plus
<1>4. g.refcount[it] > 0
  BY <1>2, <1>3 DEF Plus
<1>5. ASSUME NEW s \in Slab, g.slab_refcount[s] = 0, NEW x \in Item, x[1] = s
      PROVE  g.refcount[x] = 0
  <2>1. s # it[1] /\ h.slab_refcount[s] = 0
    BY <1>2, <1>3, <1>5 DEF Plus
  <2>2. x # it /\ h.refcount[x] = 0
    BY <1>5, <2>1 DEF CountsOK
  <2> QED
    BY <1>2, <1>3, <2>2 DEF Plus
<1>6. ASSUME NEW s \in Slab, s > g.nslab
      PROVE  g.slab_refcount[s] = 0
  <2>1. s # it[1] /\ s > h.nslab
    BY <1>2, <1>3, <1>6, SlabAssumption DEF Slab
  <2> QED
    BY <1>2, <1>3, <2>1 DEF Plus, CountsOK
<1>7. CountsOK(g)
  BY <1>5, <1>6 DEF CountsOK
<1> QED
  BY <1>1, <1>2, <1>4, <1>7

\* What is taken and released again leaves nothing.
LEMMA PlusMinus ==
    ASSUME NEW h, HeapOK(h), NEW g, NEW it, Plus(h, g, it), NEW m, Minus(g, m, it)
    PROVE  Quiet(h, m)
<1>1. HeapOK(g) /\ HeapOK(m) /\ it \in Live(g)
  BY DEF Plus, Minus
<1>2. it \in Item /\ it[1] \in Slab
  BY <1>1, LiveNotNoItem
<1>3. /\ h.refcount \in [Item -> Nat] /\ h.slab_refcount \in [Slab -> Nat]
      /\ h.nslab \in Nat /\ g.nslab \in Nat /\ m.nslab \in Nat
  BY <1>1, CountTypes
<1>4. m.refcount = h.refcount
  BY <1>2, <1>3 DEF Plus, Minus
<1>5. m.slab_refcount = h.slab_refcount
  BY <1>2, <1>3 DEF Plus, Minus
<1>6. h.nslab <= m.nslab
  BY <1>3 DEF Plus, Minus
<1> QED
  BY <1>1, <1>4, <1>5, <1>6 DEF Quiet

\* Two references are taken and the first is released.
LEMMA PlusSwap ==
    ASSUME NEW h, HeapOK(h), NEW g, NEW x, Plus(h, g, x), NEW k, NEW y, Plus(g, k, y),
           NEW m, Minus(k, m, x)
    PROVE  Plus(h, m, y)
<1>1. HeapOK(g) /\ HeapOK(k) /\ HeapOK(m) /\ x \in Live(g) /\ y \in Live(k)
  BY DEF Plus, Minus
<1>2. x \in Item /\ x[1] \in Slab /\ y \in Item /\ y[1] \in Slab
  BY <1>1, LiveNotNoItem
<1>3. /\ h.refcount \in [Item -> Nat] /\ h.slab_refcount \in [Slab -> Nat]
      /\ h.nslab \in Nat /\ g.nslab \in Nat /\ k.nslab \in Nat /\ m.nslab \in Nat
  BY <1>1, CountTypes
<1>4. m.refcount = [h.refcount EXCEPT ![y] = @ + 1]
  BY <1>2, <1>3 DEF Plus, Minus
<1>5. m.slab_refcount = [h.slab_refcount EXCEPT ![y[1]] = @ + 1]
  BY <1>2, <1>3 DEF Plus, Minus
<1>6. h.nslab <= m.nslab /\ k.nslab <= m.nslab
  BY <1>3 DEF Plus, Minus
<1>7. 1..k.nslab \subseteq 1..m.nslab
  BY <1>3, <1>6
<1>8. y \in Live(m)
  BY <1>1, <1>7 DEF Live
<1> QED
  BY <1>1, <1>4, <1>5, <1>6, <1>8 DEF Plus

\* The distance to the wrap-around is kept where counts are kept, and one
\* reference uses one unit of it.
LEMMA RoomAfter ==
    ASSUME NEW h, HeapOK(h), NEW g
    PROVE  /\ \A n \in Nat : Room(h, n) /\ Quiet(h, g) => Room(g, n)
           /\ \A it : Room(h, 2) /\ Plus(h, g, it) => Room(g, 1)
           /\ Room(h, 2) => Room(h, 1)
<1>1. h.refcount \in [Item -> Nat] /\ h.slab_refcount \in [Slab -> Nat]
  BY CountTypes
<1>2. \A n \in Nat : Room(h, n) /\ Quiet(h, g) => Room(g, n)
  BY DEF Room, Quiet
<1>3. Room(h, 2) => Room(h, 1)
  BY <1>1, SlabAssumption DEF Room
<1>4. ASSUME NEW it, Room(h, 2), Plus(h, g, it)
      PROVE  Room(g, 1)
  <2>1. it \in Item /\ it[1] \in Slab
    BY <1>4, LiveNotNoItem DEF Plus
  <2>2. \A x \in Item : g.refcount[x] + 1 < RefMod
    BY <1>1, <1>4, <2>1, SlabAssumption DEF Plus, Room
  <2>3. ASSUME NEW s \in Slab
        PROVE  g.slab_refcount[s] + 1 < RefMod
    <3>1. h.slab_refcount[s] \in Nat /\ h.slab_refcount[s] + 2 < RefMod /\ RefMod \in Nat
      BY <1>1, <1>4, SlabAssumption DEF Room
    <3>2. g.slab_refcount[s] \in {h.slab_refcount[s], h.slab_refcount[s] + 1}
      BY <1>1, <1>4, <2>1 DEF Plus
    <3> QED
      BY <3>1, <3>2
  <2> QED
    BY <2>2, <2>3 DEF Room
<1> QED
  BY <1>2, <1>3, <1>4

-----------------------------------------------------------------------------
\* Updates of single fields that keep the memory well formed.
LEMMA FlagsQuiet ==
    ASSUME NEW h, HeapOK(h), NEW it \in Item, NEW f \in SUBSET ItemFlag
    PROVE  Quiet(h, [h EXCEPT !.flags[it] = f])
<1> DEFINE m == [h EXCEPT !.flags[it] = f]
<1>1. HeapOK(m) /\ m.refcount = h.refcount /\ m.slab_refcount = h.slab_refcount
      /\ m.nslab = h.nslab
  BY DEF HeapOK, HeapType, Live
<1> QED
  BY <1>1, SameSlabsQuiet

\* Writing the header of an item touches no count.
LEMMA HdrQuiet ==
    ASSUME NEW h, HeapOK(h), NEW it \in Item, NEW x \in ItemHdr
    PROVE  Quiet(h, [h EXCEPT !.hdr[it] = x])
<1> DEFINE m == [h EXCEPT !.hdr[it] = x]
<1>1. HeapOK(m) /\ m.refcount = h.refcount /\ m.slab_refcount = h.slab_refcount
      /\ m.nslab = h.nslab
  BY DEF HeapOK, HeapType, Live
<1> QED
  BY <1>1, SameSlabsQuiet

\* Advancing the cas counter touches no count.
LEMMA CasIdQuiet ==
    ASSUME NEW h, HeapOK(h), NEW n \in Nat
    PROVE  Quiet(h, [h EXCEPT !.cas_id = n])
<1> DEFINE m == [h EXCEPT !.cas_id = n]
<1>1. HeapOK(m) /\ m.refcount = h.refcount /\ m.slab_refcount = h.slab_refcount
      /\ m.nslab = h.nslab
  BY DEF HeapOK, HeapType, Live
<1> QED
  BY <1>1, SameSlabsQuiet

\* Pointing a hash entry at a live item, or at none, touches no count.
LEMMA HashQuiet ==
    ASSUME NEW h, HeapOK(h), NEW k, NEW x \in Live(h) \cup {NoItem}
    PROVE  Quiet(h, [h EXCEPT !.hash[k] = x])
<1> DEFINE m == [h EXCEPT !.hash[k] = x]
<1>1. x \in MaybeItem
  BY LiveItems DEF MaybeItem
<1>2. HeapOK(m) /\ m.refcount = h.refcount /\ m.slab_refcount = h.slab_refcount
      /\ m.nslab = h.nslab
  BY <1>1 DEF HeapOK, HeapType, Live
<1> QED
  BY <1>2, SameSlabsQuiet

\* Replacing an item LRU queue by a queue of live items touches no count.
LEMMA LruqQuiet ==
    ASSUME NEW h, HeapOK(h), NEW id, NEW q, id \in Class => q \in Seq(Live(h))
    PROVE  Quiet(h, [h EXCEPT !.item_lruq[id] = q])
<1> DEFINE m == [h EXCEPT !.item_lruq[id] = q]
<1>1. id \in Class => q \in Seq(Item)
  BY LiveItems
<1>2. HeapOK(m) /\ m.refcount = h.refcount /\ m.slab_refcount = h.slab_refcount
      /\ m.nslab = h.nslab
  BY <1>1 DEF HeapOK, HeapType, Live
<1> QED
  BY <1>2, SameSlabsQuiet

\* The header of an item with one field changed is a header.
LEMMA HdrFields ==
    ASSUME NEW h, HeapOK(h), NEW it \in Item, NEW n \in Nat
    PROVE  /\ [h.hdr[it] EXCEPT !.atime = n] \in ItemHdr
           /\ [h.hdr[it] EXCEPT !.cas = n] \in ItemHdr
           /\ [h.hdr[it] EXCEPT !.nbyte = n] \in ItemHdr
           /\ h.hdr[it].nbyte \in Nat /\ h.hdr[it].exptime \in Nat
           /\ h.hdr[it].key \in MaybeKey /\ h.hdr[it].cas \in Nat
           /\ h.flags[it] \in SUBSET ItemFlag
           /\ h.cas_id \in Nat
<1>1. h.hdr[it] \in ItemHdr /\ h.flags[it] \in SUBSET ItemFlag /\ h.cas_id \in Nat
  BY DEF HeapOK, HeapType
<1> QED
  BY <1>1 DEF ItemHdr

-----------------------------------------------------------------------------
\* item_next_cas touches no count.
LEMMA NextCasQuiet ==
    ASSUME NEW h, HeapOK(h), NEW it \in Item
    PROVE  Quiet(h, item_next_cas(h, it))
<1> DEFINE n == h.cas_id + 1
           g == [h EXCEPT !.cas_id = n]
           x == [g.hdr[it] EXCEPT !.cas = n]
           m == [g EXCEPT !.hdr[it] = x]
<1>1. n \in Nat
  BY DEF HeapOK, HeapType
<1>2. Quiet(h, g) /\ HeapOK(g)
  BY <1>1, CasIdQuiet DEF Quiet
<1>3. x \in ItemHdr
  BY <1>1, <1>2, HdrFields
<1>4. Quiet(g, m)
  BY <1>2, <1>3, HdrQuiet
<1>5. Quiet(h, m)
  BY <1>2, <1>4, QuietTrans
<1>6. item_next_cas(h, it) \in {h, m}
  BY DEF item_next_cas
<1> QED
  BY <1>5, <1>6, QuietRefl

\* assoc_insert of a live item touches no count.
LEMMA InsertQuiet ==
    ASSUME NEW h, HeapOK(h), NEW it \in Live(h)
    PROVE  Quiet(h, assoc_insert(h, it))
<1> DEFINE ok == h.hash[h.hdr[it].key] = NoItem
           g  == Check(h, ok, "assoc_insert")
<1> HIDE DEF ok
<1>1. Quiet(h, g)
  BY CheckQuiet DEF AssertName
<1>2. HeapOK(g) /\ it \in Live(g) \cup {NoItem}
  BY <1>1, QuietLive
<1> DEFINE k == h.hdr[it].key
<1>3. assoc_insert(h, it) = [g EXCEPT !.hash[k] = it]
  BY DEF assoc_insert, ok
<1> HIDE DEF g, k
<1>4. Quiet(g, [g EXCEPT !.hash[k] = it])
  BY <1>2, HashQuiet
<1> QED
  BY <1>1, <1>3, <1>4, QuietTrans

\* assoc_delete touches no count.
LEMMA DeleteQuiet ==
    ASSUME NEW h, HeapOK(h), NEW k
    PROVE  Quiet(h, assoc_delete(h, k))
<1> DEFINE ok == h.hash[k] # NoItem
           g  == Check(h, ok, "assoc_delete")
<1> HIDE DEF ok
<1>1. Quiet(h, g)
  BY CheckQuiet DEF AssertName
<1>2. HeapOK(g)
  BY <1>1, QuietLive
<1>3. assoc_delete(h, k) = [g EXCEPT !.hash[k] = NoItem]
  BY DEF assoc_delete, ok
<1> HIDE DEF g
<1>4. Quiet(g, assoc_delete(h, k))
  BY <1>2, <1>3, HashQuiet
<1> QED
  BY <1>1, <1>4, QuietTrans

\* item_unlink_q touches no count.
LEMMA UnlinkQQuiet ==
    ASSUME NEW h, HeapOK(h), NEW it
    PROVE  Quiet(h, item_unlink_q(h, it))
<1> DEFINE id == item_id(h, it)
           q  == Without(h.item_lruq[id], {it})
<1>1. id \in Class => q \in Seq(Live(h))
  BY WithoutProperties DEF HeapOK
<1>2. item_unlink_q(h, it) = [h EXCEPT !.item_lruq[id] = q]
  BY DEF item_unlink_q
<1> HIDE DEF id, q
<1>3. Quiet(h, [h EXCEPT !.item_lruq[id] = q])
  BY <1>1, LruqQuiet
<1> QED
  BY <1>2, <1>3

\* item_link_q stamps a live item, queues it and may move its slab; it touches
\* no count.
LEMMA LinkQQuiet ==
    ASSUME NEW h, HeapOK(h), NEW it \in Live(h), NEW a \in BOOLEAN, now \in Nat
    PROVE  Quiet(h, item_link_q(h, it, a))
<1> DEFINE id == item_id(h, it)
           ok == ~item_is_slabbed(h, it)
           h0 == Check(h, ok, "item_link_q")
           x  == [h0.hdr[it] EXCEPT !.atime = now]
           h1 == [h0 EXCEPT !.hdr[it] = x]
           q  == Append(h1.item_lruq[id], it)
           h2 == [h1 EXCEPT !.item_lruq[id] = q]
<1> HIDE DEF ok
<1>1. Quiet(h, h0)
  BY CheckQuiet DEF AssertName
<1>2. HeapOK(h0) /\ it \in Live(h0) /\ it \in Item
  BY <1>1, QuietLive, LiveNotNoItem
<1>3. item_link_q(h, it, a) = slab_lruq_touch(h2, item_2_slab(it), a)
  <2>1. h1.item_lruq = h0.item_lruq
    BY <1>2 DEF HeapOK, HeapType
  <2>2. h2 = [h0 EXCEPT !.hdr[it].atime = now, !.item_lruq[id] = Append(@, it)]
    BY <2>1 DEF HeapOK, HeapType
  <2> HIDE DEF h2
  <2> QED
    BY <2>2 DEF item_link_q, ok
<1> HIDE DEF h0, id
<1>4. Quiet(h0, h1)
  BY <1>2, HdrFields, HdrQuiet
<1>5. HeapOK(h1) /\ it \in Live(h1)
  BY <1>2, <1>4, QuietLive
<1> HIDE DEF h1
<1>6. id \in Class => q \in Seq(Live(h1))
  BY <1>5, AppendProperties DEF HeapOK
<1> HIDE DEF q
<1>7. Quiet(h1, h2)
  BY <1>5, <1>6, LruqQuiet
<1>8. Quiet(h, h2)
  BY <1>1, <1>2, <1>4, <1>5, <1>7, QuietTrans
<1>9. HeapOK(h2) /\ it \in Live(h2)
  BY <1>5, <1>7, QuietLive
<1> HIDE DEF h2
<1>10. item_2_slab(it) \in 1..h2.nslab
  BY <1>9, LiveNotNoItem DEF item_2_slab
<1>11. Quiet(h2, slab_lruq_touch(h2, item_2_slab(it), a))
  BY <1>9, <1>10, TouchSlabQuiet
<1> QED
  BY <1>3, <1>8, <1>11, QuietTrans

\* item_reuse takes a linked item out of the hash table and of its queue, and
\* touches no count: the item it reuses had none.
LEMMA ReuseQuiet ==
    ASSUME NEW h, HeapOK(h), NEW it \in Live(h)
    PROVE  Quiet(h, item_reuse(h, it))
<1> DEFINE ok == /\ ~item_is_slabbed(h, it)
                 /\ item_is_linked(h, it)
                 /\ h.refcount[it] = 0
           k  == h.hdr[it].key
           h0 == Check(h, ok, "item_reuse")
           f  == h0.flags[it] \ {"LINKED"}
           h1 == [h0 EXCEPT !.flags[it] = f]
           h2 == assoc_delete(h1, k)
<1>1. item_reuse(h, it) = item_unlink_q(h2, it)
  BY DEF item_reuse
<1> HIDE DEF ok, k
<1>2. Quiet(h, h0)
  BY CheckQuiet DEF AssertName
<1>3. HeapOK(h0) /\ it \in Item
  BY <1>2, QuietLive, LiveNotNoItem
<1> HIDE DEF h0
<1>4. f \in SUBSET ItemFlag
  BY <1>3 DEF HeapOK, HeapType
<1> HIDE DEF f
<1>5. Quiet(h0, h1)
  BY <1>3, <1>4, FlagsQuiet
<1> HIDE DEF h1
<1>6. HeapOK(h1) /\ Quiet(h1, h2) /\ HeapOK(h2)
  BY <1>3, <1>5, DeleteQuiet, QuietLive DEF Quiet
<1> HIDE DEF h2
<1>7. Quiet(h2, item_unlink_q(h2, it))
  BY <1>6, UnlinkQQuiet
<1>8. Quiet(h, h2)
  BY <1>2, <1>3, <1>5, <1>6, QuietTrans
<1> QED
  BY <1>1, <1>7, <1>8, QuietTrans

\* item_link touches no count: being linked is not a reference.
LEMMA LinkQuiet ==
    ASSUME NEW h, HeapOK(h), NEW it \in Live(h), now \in Nat
    PROVE  Quiet(h, item_link(h, it))
<1> DEFINE ok == ~item_is_linked(h, it) /\ ~item_is_slabbed(h, it)
           h0 == Check(h, ok, "item_link")
           f  == h0.flags[it] \cup {"LINKED"}
           h1 == [h0 EXCEPT !.flags[it] = f]
           h2 == item_next_cas(h1, it)
           h3 == assoc_insert(h2, it)
<1>1. item_link(h, it) = item_link_q(h3, it, TRUE)
  BY DEF item_link
<1> HIDE DEF ok
<1>2. Quiet(h, h0)
  BY CheckQuiet DEF AssertName
<1>3. HeapOK(h0) /\ it \in Item /\ it \in Live(h0)
  BY <1>2, QuietLive, LiveNotNoItem
<1> HIDE DEF h0
<1>4. f \in SUBSET ItemFlag
  BY <1>3 DEF HeapOK, HeapType, ItemFlag
<1> HIDE DEF f
<1>5. Quiet(h0, h1)
  BY <1>3, <1>4, FlagsQuiet
<1>6. HeapOK(h1) /\ it \in Live(h1)
  BY <1>3, <1>5, QuietLive
<1> HIDE DEF h1
<1>7. Quiet(h1, h2)
  BY <1>3, <1>6, NextCasQuiet
<1>8. HeapOK(h2) /\ it \in Live(h2)
  BY <1>6, <1>7, QuietLive
<1> HIDE DEF h2
<1>9. Quiet(h2, h3)
  BY <1>8, InsertQuiet
<1>10. HeapOK(h3) /\ it \in Live(h3)
  BY <1>8, <1>9, QuietLive
<1> HIDE DEF h3
<1>11. Quiet(h3, item_link_q(h3, it, TRUE))
  BY <1>10, LinkQQuiet
<1>12. Quiet(h, h2)
  BY <1>2, <1>3, <1>5, <1>6, <1>7, QuietTrans
<1>13. Quiet(h, h3)
  BY <1>8, <1>9, <1>12, QuietTrans
<1> QED
  BY <1>1, <1>10, <1>11, <1>13, QuietTrans

\* item_unlink touches no count, whether it frees the item or not.
LEMMA UnlinkQuiet ==
    ASSUME NEW h, HeapOK(h), NEW it \in Live(h)
    PROVE  Quiet(h, item_unlink(h, it))
<1> DEFINE k  == h.hdr[it].key
           f  == h.flags[it] \ {"LINKED"}
           h1 == [h EXCEPT !.flags[it] = f]
           h2 == assoc_delete(h1, k)
           h3 == item_unlink_q(h2, it)
<1>1. item_unlink(h, it) \in {h, h3, slab_put_item(h3, it)}
  BY DEF item_unlink
<1> HIDE DEF k
<1>2. it \in Item /\ f \in SUBSET ItemFlag
  BY LiveNotNoItem DEF HeapOK, HeapType
<1> HIDE DEF f
<1>3. Quiet(h, h1)
  BY <1>2, FlagsQuiet
<1>4. HeapOK(h1) /\ it \in Live(h1)
  BY <1>3, QuietLive
<1> HIDE DEF h1
<1>5. Quiet(h1, h2)
  BY <1>4, DeleteQuiet
<1>6. HeapOK(h2) /\ it \in Live(h2)
  BY <1>4, <1>5, QuietLive
<1> HIDE DEF h2
<1>7. Quiet(h2, h3)
  BY <1>6, UnlinkQQuiet
<1>8. HeapOK(h3) /\ it \in Live(h3)
  BY <1>6, <1>7, QuietLive
<1> HIDE DEF h3
<1>9. Quiet(h3, slab_put_item(h3, it))
  BY <1>8, PutQuiet
<1>10. Quiet(h, h3)
  BY <1>3, <1>4, <1>5, <1>6, <1>7, QuietTrans
<1>11. Quiet(h, slab_put_item(h3, it))
  BY <1>8, <1>9, <1>10, QuietTrans
<1> QED
  BY <1>1, <1>10, <1>11, QuietRefl

\* item_touch touches no count.
LEMMA TouchQuiet ==
    ASSUME NEW h, HeapOK(h), NEW it \in Live(h), now \in Nat
    PROVE  Quiet(h, item_touch(h, it))
<1> DEFINE ok == ~item_is_slabbed(h, it)
           h1 == Check(h, ok, "item_touch")
           h2 == item_unlink_q(h1, it)
<1>1. item_touch(h, it) \in {h1, item_link_q(h2, it, FALSE)}
  BY DEF item_touch
<1> HIDE DEF ok
<1>2. Quiet(h, h1)
  BY CheckQuiet DEF AssertName
<1>3. HeapOK(h1) /\ it \in Live(h1)
  BY <1>2, QuietLive
<1> HIDE DEF h1
<1>4. Quiet(h1, h2)
  BY <1>3, UnlinkQQuiet
<1>5. HeapOK(h2) /\ it \in Live(h2)
  BY <1>3, <1>4, QuietLive
<1> HIDE DEF h2
<1>6. Quiet(h2, item_link_q(h2, it, FALSE))
  BY <1>5, LinkQQuiet
<1>7. Quiet(h, item_link_q(h2, it, FALSE))
  BY <1>2, <1>3, <1>4, <1>5, <1>6, QuietTrans
<1> QED
  BY <1>1, <1>2, <1>7

\* item_relink swaps one live item for another and touches no count.
LEMMA RelinkQuiet ==
    ASSUME NEW h, HeapOK(h), NEW it \in Live(h), NEW nit \in Live(h), now \in Nat
    PROVE  Quiet(h, item_relink(h, it, nit))
<1> DEFINE ok == ~item_is_slabbed(h, it) /\ ~item_is_slabbed(h, nit)
           h1 == Check(h, ok, "item_relink")
           h2 == item_unlink(h1, it)
<1>1. item_relink(h, it, nit) = item_link(h2, nit)
  BY DEF item_relink
<1> HIDE DEF ok
<1>2. Quiet(h, h1)
  BY CheckQuiet DEF AssertName
<1>3. HeapOK(h1) /\ it \in Live(h1) /\ nit \in Live(h1)
  BY <1>2, QuietLive
<1> HIDE DEF h1
<1>4. Quiet(h1, h2)
  BY <1>3, UnlinkQuiet
<1>5. HeapOK(h2) /\ nit \in Live(h2)
  BY <1>3, <1>4, QuietLive
<1> HIDE DEF h2
<1>6. Quiet(h2, item_link(h2, nit))
  BY <1>5, LinkQuiet
<1> QED
  BY <1>1, <1>2, <1>3, <1>4, <1>5, <1>6, QuietTrans

\* An in-place incr or decr touches no count.
LEMMA RewriteQuiet ==
    ASSUME NEW h, HeapOK(h), NEW it \in Live(h), NEW n \in Nat
    PROVE  Quiet(h, item_rewrite(h, it, n))
<1> DEFINE x == [h.hdr[it] EXCEPT !.nbyte = n]
           g == [h EXCEPT !.hdr[it] = x]
<1>1. item_rewrite(h, it, n) = item_next_cas(g, it)
  BY DEF item_rewrite
<1>2. it \in Item
  BY LiveNotNoItem
<1>3. Quiet(h, g)
  BY <1>2, HdrFields, HdrQuiet
<1> HIDE DEF g
<1>4. HeapOK(g) /\ Quiet(g, item_next_cas(g, it))
  BY <1>2, <1>3, NextCasQuiet DEF Quiet
<1> QED
  BY <1>1, <1>3, <1>4, QuietTrans

\* item_flush_expired unlinks any number of items and touches no count.
LEMMA FlushQuiet ==
    ASSUME NEW h, HeapOK(h)
    PROVE  Quiet(h, item_flush_expired(h))
<1> DEFINE recent(q)  == {i \in DOMAIN q : \A j \in i..Len(q) :
                                              h.hdr[q[j]].atime >= oldest_live}
           flushed(id) == {h.item_lruq[id][i] : i \in recent(h.item_lruq[id])}
           all   == UNION {flushed(id) : id \in Class}
           freed == {it \in all : h.refcount[it] = 0}
           dead  == {h.hdr[it].key : it \in all}
           ok    == \A it \in all : ~item_is_slabbed(h, it)
           g     == Check(h, ok, "item_flush_expired")
           flags == [it \in Item |->
                       IF it \in freed THEN {"SLABBED"}
                       ELSE IF it \in all THEN g.flags[it] \ {"LINKED"} ELSE g.flags[it]]
           hdr   == [it \in Item |-> IF it \in freed THEN Blank ELSE g.hdr[it]]
           hash  == [k \in MaybeKey |-> IF k \in dead THEN NoItem ELSE g.hash[k]]
           fq    == [id \in Class |->
                       Without(h.item_lruq[id], Item \ freed) \o g.free_itemq[id]]
           lq    == [id \in Class |-> Without(g.item_lruq[id], all)]
           m     == [g EXCEPT !.flags = flags, !.hdr = hdr, !.hash = hash,
                              !.free_itemq = fq, !.item_lruq = lq]
<1>1. item_flush_expired(h) \in {h, m}
  BY DEF item_flush_expired
<1> HIDE DEF ok, all, freed, dead
<1>2. Quiet(h, g) /\ g.nslab = h.nslab
  BY CheckQuiet DEF AssertName
<1>3. HeapOK(g)
  BY <1>2 DEF Quiet
<1> HIDE DEF g
<1>4. flags \in [Item -> SUBSET ItemFlag]
  BY <1>3 DEF HeapOK, HeapType, ItemFlag
<1>5. hdr \in [Item -> ItemHdr]
  BY <1>3 DEF HeapOK, HeapType, Blank, ItemHdr, MaybeKey
<1>6. /\ hash \in [MaybeKey -> MaybeItem]
      /\ \A k \in MaybeKey : hash[k] \in Live(g) \cup {NoItem}
  BY <1>3 DEF HeapOK, HeapType, MaybeItem
<1>7. \A id \in Class : fq[id] \in Seq(Live(g)) /\ lq[id] \in Seq(Live(g))
  <2> SUFFICES ASSUME NEW id \in Class
               PROVE  fq[id] \in Seq(Live(g)) /\ lq[id] \in Seq(Live(g))
    OBVIOUS
  <2>1. /\ h.item_lruq[id] \in Seq(Live(h)) /\ g.item_lruq[id] \in Seq(Live(g))
        /\ g.free_itemq[id] \in Seq(Live(g))
    BY <1>3 DEF HeapOK
  <2>2. Live(g) = Live(h)
    BY <1>2 DEF Live
  <2>3. Without(h.item_lruq[id], Item \ freed) \in Seq(Live(g))
    BY <2>1, <2>2, WithoutProperties
  <2>4. Without(g.item_lruq[id], all) \in Seq(Live(g))
    BY <2>1, WithoutProperties
  <2> QED
    BY <2>1, <2>3, <2>4, ConcatProperties
<1>8. fq \in [Class -> Seq(Item)] /\ lq \in [Class -> Seq(Item)]
  BY <1>3, <1>7, LiveItems
<1> HIDE DEF flags, hdr, hash, fq, lq
<1>9. m \in HeapType
  BY <1>3, <1>4, <1>5, <1>6, <1>8 DEF HeapOK, HeapType
<1>10. /\ m.refcount = g.refcount /\ m.slab_refcount = g.slab_refcount
       /\ m.nslab = g.nslab /\ m.hash = hash
       /\ m.slab_lruq = g.slab_lruq /\ m.free_item = g.free_item
       /\ m.free_itemq = fq /\ m.item_lruq = lq
  BY <1>3 DEF HeapOK, HeapType
<1> HIDE DEF m
<1>11. HeapOK(m)
  BY <1>3, <1>6, <1>7, <1>9, <1>10 DEF HeapOK, Live
<1>12. Quiet(g, m)
  BY <1>3, <1>10, <1>11, SameSlabsQuiet
<1>13. Quiet(h, m)
  BY <1>2, <1>12, QuietTrans
<1> QED
  BY <1>1, <1>13, QuietRefl

-----------------------------------------------------------------------------
\* item_acquire_refcount adds one reference, on the item and on its slab,
\* when neither count is about to wrap.
LEMMA AcquirePlus ==
    ASSUME NEW h, HeapOK(h), NEW it \in Live(h), Room(h, 1)
    PROVE  Plus(h, item_acquire_refcount(h, it), it)
<1> DEFINE s  == item_2_slab(it)
           rc == [h.refcount EXCEPT ![it] = @ + 1]
           sr == [h.slab_refcount EXCEPT ![s] = @ + 1]
           m  == item_acquire_refcount(h, it)
<1>1. it \in Item /\ s \in Slab /\ s = it[1]
  BY LiveNotNoItem DEF item_2_slab
<1>2. h.refcount[it] \in Nat /\ h.slab_refcount[s] \in Nat
  BY <1>1, CountTypes
<1>3. RefInc(h.refcount[it]) = h.refcount[it] + 1
  BY <1>1, <1>2, SlabAssumption DEF Room, RefInc
<1>4. RefInc(h.slab_refcount[s]) = h.slab_refcount[s] + 1
  BY <1>1, <1>2, SlabAssumption DEF Room, RefInc
<1>5. m = [h EXCEPT !.refcount = rc, !.slab_refcount = sr]
  BY <1>3, <1>4 DEF item_acquire_refcount, slab_acquire_refcount, HeapOK, HeapType
<1>6. rc \in [Item -> Nat] /\ sr \in [Slab -> Nat]
  BY <1>1, <1>2, CountTypes
<1> HIDE DEF m, rc, sr
<1>7. m \in HeapType
  BY <1>5, <1>6 DEF HeapOK, HeapType
<1>8. /\ m.refcount = rc /\ m.slab_refcount = sr /\ m.nslab = h.nslab
      /\ m.slab_lruq = h.slab_lruq /\ m.free_item = h.free_item
      /\ m.free_itemq = h.free_itemq /\ m.item_lruq = h.item_lruq
      /\ m.hash = h.hash
  BY <1>5 DEF HeapOK, HeapType
<1>9. HeapOK(m) /\ it \in Live(m)
  BY <1>7, <1>8 DEF HeapOK, Live
<1>10. h.nslab <= m.nslab
  BY <1>8, CountTypes
<1> QED
  BY <1>1, <1>8, <1>9, <1>10 DEF Plus, m, rc, sr

\* item_release_refcount drops one reference when there is one on the item
\* and one on its slab.
LEMMA ReleaseMinus ==
    ASSUME NEW h, HeapOK(h), NEW it \in Live(h), h.refcount[it] > 0,
           h.slab_refcount[it[1]] > 0
    PROVE  Minus(h, item_release_refcount(h, it), it)
<1> DEFINE s  == item_2_slab(it)
           ok == h.refcount[it] > 0
           h0 == Check(h, ok, "item_release_refcount")
           rc == [h0.refcount EXCEPT ![it] = @ - 1]
           h1 == [h0 EXCEPT !.refcount = rc]
           os == h1.slab_refcount[s] > 0
           h2 == Check(h1, os, "slab_release_refcount")
           sr == [h2.slab_refcount EXCEPT ![s] = @ - 1]
           m  == [h2 EXCEPT !.slab_refcount = sr]
<1>1. it \in Item /\ s \in Slab /\ s = it[1]
  BY LiveNotNoItem DEF item_2_slab
<1>2. h.refcount \in [Item -> Nat] /\ h.slab_refcount \in [Slab -> Nat] /\ h.nslab \in Nat
  BY CountTypes
<1>3. Quiet(h, h0)
  <2> HIDE DEF ok
  <2> QED
    BY CheckQuiet DEF AssertName
<1>4. HeapOK(h0) /\ h0.refcount = h.refcount /\ h0.slab_refcount = h.slab_refcount
      /\ h.nslab <= h0.nslab /\ h0.nslab \in Nat
  BY <1>3, CountTypes DEF Quiet
<1>5. rc \in [Item -> Nat]
  BY <1>1, <1>2, <1>4
<1>6. HeapOK(h1) /\ h1.refcount = rc /\ h1.slab_refcount = h.slab_refcount
      /\ h1.nslab = h0.nslab
  <2> HIDE DEF h0, rc
  <2>1. h1 \in HeapType
    BY <1>4, <1>5 DEF HeapOK, HeapType
  <2>2. /\ h1.refcount = rc /\ h1.slab_refcount = h0.slab_refcount /\ h1.nslab = h0.nslab
        /\ h1.slab_lruq = h0.slab_lruq /\ h1.free_item = h0.free_item
        /\ h1.free_itemq = h0.free_itemq /\ h1.item_lruq = h0.item_lruq
        /\ h1.hash = h0.hash
    BY <1>4 DEF HeapOK, HeapType
  <2> QED
    BY <1>4, <2>1, <2>2 DEF HeapOK, Live
<1>7. Quiet(h1, h2)
  <2> HIDE DEF os, h1
  <2> QED
    BY <1>6, CheckQuiet DEF AssertName
<1>8. HeapOK(h2) /\ h2.refcount = rc /\ h2.slab_refcount = h.slab_refcount
      /\ h1.nslab <= h2.nslab /\ h2.nslab \in Nat
  BY <1>6, <1>7, CountTypes DEF Quiet
<1>9. sr \in [Slab -> Nat] /\ sr = [h.slab_refcount EXCEPT ![it[1]] = @ - 1]
  <2> HIDE DEF h2
  <2>1. h.slab_refcount[s] \in Nat \ {0}
    BY <1>1, <1>2
  <2> HIDE DEF s
  <2> QED
    BY <1>1, <1>2, <1>8, <2>1
<1>10. HeapOK(m) /\ m.refcount = rc /\ m.slab_refcount = sr /\ m.nslab = h2.nslab
  <2> HIDE DEF h2, sr, rc
  <2>1. m \in HeapType
    BY <1>8, <1>9 DEF HeapOK, HeapType
  <2>2. /\ m.refcount = h2.refcount /\ m.slab_refcount = sr /\ m.nslab = h2.nslab
        /\ m.slab_lruq = h2.slab_lruq /\ m.free_item = h2.free_item
        /\ m.free_itemq = h2.free_itemq /\ m.item_lruq = h2.item_lruq
        /\ m.hash = h2.hash
    BY <1>8 DEF HeapOK, HeapType
  <2> QED
    BY <1>8, <2>1, <2>2 DEF HeapOK, Live
<1>11. item_release_refcount(h, it) = m
  <2>1. h2.slab_refcount[s] # 0
    BY <1>1, <1>2, <1>8
  <2>2. h1 = [h0 EXCEPT !.refcount[it] = @ - 1]
    BY <1>4 DEF HeapOK, HeapType
  <2>3. m = [h2 EXCEPT !.slab_refcount[s] = IF @ = 0 THEN RefMod - 1 ELSE @ - 1]
    <3> HIDE DEF h2
    <3> QED
      BY <1>8, <2>1 DEF HeapOK, HeapType
  <2>4. slab_release_refcount(h1, s) = m
    <3> HIDE DEF h1, sr
    <3> QED
      BY <2>3 DEF slab_release_refcount
  <2>5. item_release_refcount(h, it) = slab_release_refcount(h1, s)
    BY <2>2 DEF item_release_refcount
  <2> QED
    BY <2>4, <2>5
<1>12. h.nslab <= m.nslab
  <2> HIDE DEF h0, h1, h2, m
  <2> QED
    BY <1>2, <1>4, <1>6, <1>8, <1>10
<1>13. rc = [h.refcount EXCEPT ![it] = @ - 1]
  BY <1>4
<1> QED
  BY <1>9, <1>10, <1>11, <1>12, <1>13 DEF Minus

\* item_remove drops the reference of its caller.
LEMMA RemoveMinus ==
    ASSUME NEW h, HeapOK(h), CountsOK(h), NEW it \in Live(h), h.refcount[it] > 0
    PROVE  Minus(h, item_remove(h, it), it)
<1> DEFINE ok == ~item_is_slabbed(h, it)
           h0 == Check(h, ok, "item_remove")
           h1 == item_release_refcount(h0, it)
<1>1. it \in Item /\ it[1] \in Slab
  BY LiveNotNoItem
<1>2. h.slab_refcount[it[1]] > 0
  <2>1. h.slab_refcount[it[1]] # 0
    BY <1>1 DEF CountsOK
  <2>2. h.slab_refcount[it[1]] \in Nat
    BY <1>1, CountTypes
  <2> QED
    BY <2>1, <2>2
<1>3. item_remove(h, it) \in {h1, slab_put_item(h1, it)}
  BY DEF item_remove
<1> HIDE DEF ok
<1>4. Quiet(h, h0)
  BY CheckQuiet DEF AssertName
<1>5. HeapOK(h0) /\ it \in Live(h0)
  BY <1>4, QuietLive
<1>6. h0.refcount[it] > 0 /\ h0.slab_refcount[it[1]] > 0
  BY <1>2, <1>4 DEF Quiet
<1> HIDE DEF h0
<1>7. Minus(h0, h1, it)
  BY <1>5, <1>6, ReleaseMinus
<1> HIDE DEF h1
<1>8. Minus(h, h1, it)
  BY <1>4, <1>7, QuietMinus
<1>9. HeapOK(h1) /\ it \in Live(h1)
  <2>1. HeapOK(h1) /\ h.nslab <= h1.nslab
    BY <1>8 DEF Minus
  <2>2. h.nslab \in Nat /\ h1.nslab \in Nat
    BY <2>1, CountTypes
  <2>3. 1..h.nslab \subseteq 1..h1.nslab
    BY <2>1, <2>2
  <2> QED
    BY <2>1, <2>3 DEF Live
<1>10. Minus(h, slab_put_item(h1, it), it)
  BY <1>8, <1>9, PutQuiet, MinusQuiet
<1> QED
  BY <1>3, <1>8, <1>10

\* The usual case: the caller took that reference itself.
LEMMA RemoveQuiet ==
    ASSUME NEW h, HeapOK(h), CountsOK(h), NEW g, NEW it, Plus(h, g, it)
    PROVE  Quiet(h, item_remove(g, it))
<1>1. Minus(g, item_remove(g, it), it)
  BY PlusFacts, RemoveMinus
<1> QED
  BY <1>1, PlusMinus

\* item_get returns no item, or an item with one more reference: an expired
\* item that it unlinks on the way keeps its counts.
LEMMA GetGot ==
    ASSUME NEW h, HeapOK(h), Room(h, 1), NEW k \in MaybeKey
    PROVE  Got(h, item_get(h, k))
<1> DEFINE it == h.hash[k]
           r  == item_get(h, k)
<1>1. it \in Live(h) \cup {NoItem}
  BY DEF HeapOK
<1>2. CASE it = NoItem
  <2>1. r = [mem |-> h, it |-> NoItem]
    BY <1>2 DEF item_get
  <2> QED
    BY <2>1, QuietRefl DEF Got
<1>3. CASE it # NoItem /\ item_dead(h, it)
  <2>1. r = [mem |-> item_unlink(h, it), it |-> NoItem]
    BY <1>3 DEF item_get
  <2> QED
    BY <1>1, <1>3, <2>1, UnlinkQuiet DEF Got
<1>4. CASE it # NoItem /\ ~item_dead(h, it)
  <2>1. r = [mem |-> item_acquire_refcount(h, it), it |-> it]
    BY <1>4 DEF item_get
  <2>2. Plus(h, item_acquire_refcount(h, it), it)
    BY <1>1, <1>4, AcquirePlus
  <2> QED
    BY <1>4, <2>1, <2>2 DEF Got
<1> QED
  BY <1>2, <1>3, <1>4

\* What an allocation finds is an item of the heap.
LEMMA LruqItem ==
    ASSUME NEW h, HeapOK(h), NEW id \in Class
    PROVE  item_get_from_lruq(h, id) \in Live(h) \cup {NoItem}
<1> DEFINE q == h.item_lruq[id]
           unused  == {i \in DOMAIN q : /\ i <= ITEM_LRUQ_MAX_TRIES
                                        /\ h.refcount[q[i]] = 0}
           expired == {i \in unused : item_expired(h, q[i])}
<1>1. q \in Seq(Live(h))
  BY DEF HeapOK
<1>2. ASSUME NEW I \in SUBSET (DOMAIN q), I # {}
      PROVE  FirstAt(q, I) \in Live(h)
  <2>1. PICK i \in I : FirstAt(q, I) = q[i] /\ q[i] \in Live(h)
    BY <1>1, <1>2, FirstAtProperties
  <2> QED
    BY <2>1
<1>3. unused \subseteq DOMAIN q /\ expired \subseteq DOMAIN q
  OBVIOUS
<1> DEFINE r == IF ~use_lruq \/ unused = {} THEN NoItem
                ELSE IF expired # {} THEN FirstAt(q, expired) ELSE FirstAt(q, unused)
<1>4. item_get_from_lruq(h, id) = r
  BY DEF item_get_from_lruq
<1> HIDE DEF q, unused, expired
<1>5. r \in Live(h) \cup {NoItem}
  BY <1>2, <1>3
<1> QED
  BY <1>4, <1>5

\* The item that _item_alloc finds, in a free queue, in a new or evicted slab
\* or in the LRU queue, is a live one, and no count has changed.
LEMMA ObtainQuiet ==
    ASSUME NEW h, HeapOK(h), CountsOK(h), NEW id \in Class,
           NEW f \in BOOLEAN, NEW e \in Env(h, f)
    PROVE  /\ Quiet(h, item_obtain(h, id, e).mem)
           /\ item_obtain(h, id, e).it \in Live(item_obtain(h, id, e).mem) \cup {NoItem}
<1> DEFINE lit == item_get_from_lruq(h, id)
           sg  == slab_get_item(h, id, e)
           r   == item_obtain(h, id, e)
<1>1. lit \in Live(h) \cup {NoItem}
  BY LruqItem
<1>2. Quiet(h, sg.mem) /\ sg.it \in Live(sg.mem) \cup {NoItem}
  BY GetItemQuiet
<1>3. \/ r = sg
      \/ lit # NoItem /\ r = [mem |-> item_reuse(h, lit), it |-> lit]
      \/ lit # NoItem /\ r = [mem |-> item_reuse(sg.mem, lit), it |-> lit]
  BY DEF item_obtain, item_choose
<1> HIDE DEF lit, sg, r
<1>4. lit # NoItem => /\ Quiet(h, item_reuse(h, lit))
                      /\ lit \in Live(item_reuse(h, lit))
  BY <1>1, ReuseQuiet, QuietLive
<1>5. HeapOK(sg.mem) /\ (lit # NoItem => lit \in Live(sg.mem))
  BY <1>1, <1>2, QuietLive
<1>6. lit # NoItem => /\ Quiet(sg.mem, item_reuse(sg.mem, lit))
                      /\ lit \in Live(item_reuse(sg.mem, lit))
  BY <1>5, ReuseQuiet, QuietLive
<1>7. lit # NoItem => Quiet(h, item_reuse(sg.mem, lit))
  BY <1>2, <1>6, QuietTrans
<1> QED
  BY <1>2, <1>3, <1>4, <1>6, <1>7 DEF r

\* item_alloc returns no item, or an item with one more reference.
LEMMA AllocGot ==
    ASSUME NEW h, HeapOK(h), CountsOK(h), Room(h, 1), NEW id \in Class,
           NEW key \in MaybeKey, NEW exptime \in Nat, NEW nbyte \in Nat,
           NEW f \in BOOLEAN, NEW e \in Env(h, f)
    PROVE  Got(h, item_alloc(h, id, key, exptime, nbyte, e))
<1> DEFINE got == item_obtain(h, id, e)
           it  == got.it
           ok  == /\ item_id(got.mem, it) = id
                  /\ ~item_is_linked(got.mem, it)
                  /\ ~item_is_slabbed(got.mem, it)
                  /\ got.mem.refcount[it] = 0
           h1  == Check(got.mem, ok, "item_alloc")
           h2  == item_acquire_refcount(h1, it)
           h3  == [h2 EXCEPT !.flags[it] = {}]
           x   == [key |-> key, nbyte |-> nbyte, exptime |-> exptime,
                   atime |-> 0, cas |-> 0]
           m   == [h3 EXCEPT !.hdr[it] = x]
           r   == item_alloc(h, id, key, exptime, nbyte, e)
<1>1. Quiet(h, got.mem) /\ it \in Live(got.mem) \cup {NoItem}
  BY ObtainQuiet
<1>2. CASE it = NoItem
  <2>1. r = got
    BY <1>2 DEF item_alloc, item_init
  <2> QED
    BY <1>1, <1>2, <2>1 DEF Got
<1>3. CASE it # NoItem
  <2>1. r = [mem |-> m, it |-> it]
    BY <1>3 DEF item_alloc, item_init
  <2> HIDE DEF ok, got, x, it
  <2>2. HeapOK(got.mem) /\ it \in Live(got.mem) /\ Room(got.mem, 1)
    BY <1>1, <1>3, QuietLive, RoomAfter
  <2>3. Quiet(got.mem, h1)
    BY <2>2, CheckQuiet DEF AssertName
  <2>4. HeapOK(h1) /\ it \in Live(h1) /\ Room(h1, 1)
    BY <2>2, <2>3, QuietLive, RoomAfter
  <2> HIDE DEF h1
  <2>5. Plus(h1, h2, it)
    BY <2>4, AcquirePlus
  <2>6. HeapOK(h2) /\ it \in Item
    BY <2>5, LiveNotNoItem DEF Plus
  <2> HIDE DEF h2
  <2>7. Quiet(h2, h3)
    BY <2>6, FlagsQuiet
  <2>8. HeapOK(h3)
    BY <2>7 DEF Quiet
  <2> HIDE DEF h3
  <2>9. x \in ItemHdr
    BY DEF x, ItemHdr
  <2>10. Quiet(h3, m)
    BY <2>6, <2>8, <2>9, HdrQuiet
  <2> HIDE DEF m
  <2>11. Plus(h1, m, it)
    BY <2>4, <2>5, <2>6, <2>7, <2>8, <2>10, PlusQuiet
  <2>12. Plus(h, m, it)
    BY <1>1, <2>2, <2>3, <2>4, <2>11, QuietPlus
  <2> HIDE DEF r
  <2> QED
    BY <1>3, <2>1, <2>12 DEF Got, r
<1> QED
  BY <1>2, <1>3

-----------------------------------------------------------------------------
(***************************************************************************)
(* The operations of the protocol leave the counts as they were.           *)
(***************************************************************************)

\* A memory an operation can start from.
Ready(h) == HeapOK(h) /\ CountsOK(h) /\ Room(h, 2) /\ now \in Nat

\* The lookup every operation starts with, and what follows from a hit.
LEMMA Lookup ==
    ASSUME NEW h, Ready(h), NEW k \in MaybeKey
    PROVE  LET g == item_get(h, k)
           IN  \/ g.it = NoItem /\ Quiet(h, g.mem)
               \/ /\ g.it # NoItem /\ Plus(h, g.mem, g.it)
                  /\ HeapOK(g.mem) /\ CountsOK(g.mem) /\ Room(g.mem, 1)
                  /\ g.it \in Live(g.mem) /\ Live(h) \subseteq Live(g.mem)
<1> DEFINE g == item_get(h, k)
<1>1. Got(h, g)
  BY GetGot, RoomAfter DEF Ready
<1> HIDE DEF g
<1>2. CASE g.it = NoItem /\ Quiet(h, g.mem)
  BY <1>2 DEF g
<1>3. CASE g.it # NoItem /\ Plus(h, g.mem, g.it)
  <2>1. HeapOK(g.mem) /\ CountsOK(g.mem) /\ g.it \in Live(g.mem)
    BY <1>3, PlusFacts DEF Ready
  <2>2. Room(g.mem, 1)
    BY <1>3, RoomAfter DEF Ready
  <2>3. h.nslab \in Nat /\ g.mem.nslab \in Nat /\ h.nslab <= g.mem.nslab
    BY <1>3, <2>1, CountTypes DEF Plus, Ready
  <2>4. 1..h.nslab \subseteq 1..g.mem.nslab
    BY <2>3
  <2>5. Live(h) \subseteq Live(g.mem)
    BY <2>4 DEF Live
  <2> QED
    BY <1>3, <2>1, <2>2, <2>5 DEF g
<1> QED
  BY <1>1, <1>2, <1>3 DEF Got

\* Replacing the item just looked up, and dropping the reference the lookup
\* took, leaves the counts as they were before the lookup.
LEMMA SupplantQuiet ==
    ASSUME NEW h, Ready(h), NEW g, Plus(h, g.mem, g.it), NEW it \in Live(g.mem)
    PROVE  Quiet(h, item_supplant(g, it))
<1> DEFINE m == item_relink(g.mem, g.it, it)
<1>1. HeapOK(g.mem) /\ g.it \in Live(g.mem)
  BY DEF Plus
<1>2. Quiet(g.mem, m)
  BY <1>1, RelinkQuiet DEF Ready
<1>3. Plus(h, m, g.it)
  BY <1>2, PlusQuiet DEF Ready
<1> HIDE DEF m
<1>4. Quiet(h, item_remove(m, g.it))
  BY <1>3, RemoveQuiet DEF Ready
<1> QED
  BY <1>4 DEF item_supplant, m

\* set, add, replace and cas release the references they take, whatever they
\* decide.
LEMMA StoreQuiet ==
    ASSUME NEW h, Ready(h), NEW it \in Live(h)
    PROVE  /\ Quiet(h, item_set(h, it))
           /\ Quiet(h, item_cas(h, it))
           /\ Quiet(h, item_add(h, it))
           /\ Quiet(h, item_replace(h, it))
<1> DEFINE k == h.hdr[it].key
           g == item_get(h, k)
<1>1. k \in MaybeKey
  <2>1. it \in Item /\ HeapOK(h)
    BY LiveNotNoItem DEF Ready
  <2> QED
    BY <2>1, HdrFields, 0 \in Nat
<1>2. /\ item_set(h, it) = IF g.it = NoItem THEN item_link(g.mem, it) ELSE item_supplant(g, it)
      /\ item_cas(h, it) \in IF g.it = NoItem THEN {g.mem}
                              ELSE {item_remove(g.mem, g.it), item_supplant(g, it)}
      /\ item_add(h, it) = IF g.it = NoItem THEN item_link(g.mem, it)
                           ELSE item_remove(g.mem, g.it)
      /\ item_replace(h, it) = IF g.it = NoItem THEN g.mem ELSE item_supplant(g, it)
  BY DEF item_set, item_cas, item_add, item_replace
<1> HIDE DEF k
<1>3. \/ g.it = NoItem /\ Quiet(h, g.mem)
      \/ g.it # NoItem /\ Plus(h, g.mem, g.it) /\ Live(h) \subseteq Live(g.mem)
  BY <1>1, Lookup
<1> HIDE DEF g
<1>4. CASE g.it = NoItem /\ Quiet(h, g.mem)
  <2>1. HeapOK(g.mem) /\ it \in Live(g.mem)
    BY <1>4, QuietLive DEF Ready
  <2>2. Quiet(g.mem, item_link(g.mem, it))
    BY <2>1, LinkQuiet DEF Ready
  <2>3. Quiet(h, item_link(g.mem, it))
    BY <1>4, <2>2, QuietTrans DEF Ready
  <2> QED
    BY <1>2, <1>4, <2>3
<1>5. CASE g.it # NoItem /\ Plus(h, g.mem, g.it) /\ Live(h) \subseteq Live(g.mem)
  <2>1. Quiet(h, item_supplant(g, it))
    BY <1>5, SupplantQuiet
  <2>2. Quiet(h, item_remove(g.mem, g.it))
    BY <1>5, RemoveQuiet DEF Ready
  <2> QED
    BY <1>2, <1>5, <2>1, <2>2
<1> QED
  BY <1>3, <1>4, <1>5

\* Growing an item in a new one releases both of them.
LEMMA RegrowQuiet ==
    ASSUME NEW h, Ready(h), NEW g, NEW oit, Plus(h, g, oit), Room(g, 1),
           NEW id \in Class, NEW nbyte \in Nat, NEW flags \in SUBSET ItemFlag,
           NEW f \in BOOLEAN, NEW e \in Env(g, f)
    PROVE  Quiet(h, item_regrow(g, oit, id, nbyte, flags, e))
<1> DEFINE k  == g.hdr[oit].key
           x  == g.hdr[oit].exptime
           a  == item_alloc(g, id, k, x, nbyte, e)
           fl == a.mem.flags[a.it] \cup flags
           a1 == [a.mem EXCEPT !.flags[a.it] = fl]
           m  == item_relink(a1, oit, a.it)
           m1 == item_remove(m, oit)
           r  == item_regrow(g, oit, id, nbyte, flags, e)
<1>1. HeapOK(g) /\ CountsOK(g) /\ oit \in Live(g) /\ oit \in Item
  BY PlusFacts DEF Ready
<1>2. k \in MaybeKey /\ x \in Nat
  BY <1>1, HdrFields, 0 \in Nat
<1>3. r = IF a.it = NoItem THEN item_remove(a.mem, oit) ELSE item_remove(m1, a.it)
  BY DEF item_regrow, item_swap
<1> HIDE DEF k, x, r
<1>4. Got(g, a)
  BY <1>1, <1>2, AllocGot
<1> HIDE DEF a
<1>5. CASE a.it = NoItem /\ Quiet(g, a.mem)
  <2>1. Plus(h, a.mem, oit)
    BY <1>5, PlusQuiet DEF Ready
  <2> QED
    BY <1>3, <1>5, <2>1, RemoveQuiet DEF Ready, r
<1>6. CASE a.it # NoItem /\ Plus(g, a.mem, a.it)
  <2>1. /\ HeapOK(a.mem) /\ CountsOK(a.mem)
        /\ a.it \in Live(a.mem) /\ a.it \in Item
    BY <1>1, <1>6, PlusFacts
  <2>2. oit \in Live(a.mem)
    <3>1. g.nslab \in Nat /\ a.mem.nslab \in Nat /\ g.nslab <= a.mem.nslab
      BY <1>1, <1>6, <2>1, CountTypes DEF Plus
    <3>2. 1..g.nslab \subseteq 1..a.mem.nslab
      BY <3>1
    <3> QED
      BY <1>1, <3>2 DEF Live
  <2>3. fl \in SUBSET ItemFlag
    BY <2>1 DEF HeapOK, HeapType
  <2> HIDE DEF fl
  <2>4. Quiet(a.mem, a1)
    BY <2>1, <2>3, FlagsQuiet
  <2>5. HeapOK(a1) /\ oit \in Live(a1) /\ a.it \in Live(a1)
    BY <2>1, <2>2, <2>4, QuietLive
  <2> HIDE DEF a1
  <2>6. Quiet(a1, m)
    BY <2>5, RelinkQuiet DEF Ready
  <2> HIDE DEF m
  <2>7. Plus(g, m, a.it)
    BY <1>1, <1>6, <2>1, <2>4, <2>5, <2>6, PlusQuiet
  <2>8. HeapOK(m) /\ CountsOK(m)
    BY <1>1, <2>7, PlusFacts
  <2>9. oit \in Live(m) /\ m.refcount[oit] > 0
    <3>1. HeapOK(m) /\ oit \in Live(m)
      BY <2>5, <2>6, QuietLive
    <3>2. g.refcount[oit] > 0
      BY PlusFacts DEF Ready
    <3>3. g.refcount \in [Item -> Nat] /\ a.it \in Item
      BY <1>1, <2>1, CountTypes
    <3>4. m.refcount[oit] > 0
      BY <1>1, <2>7, <3>2, <3>3 DEF Plus
    <3> QED
      BY <3>1, <3>4
  <2>10. Minus(m, m1, oit)
    BY <2>8, <2>9, RemoveMinus
  <2> HIDE DEF m1
  <2>11. Plus(h, m1, a.it)
    BY <2>7, <2>10, PlusSwap DEF Ready
  <2>12. Quiet(h, item_remove(m1, a.it))
    BY <2>11, RemoveQuiet DEF Ready
  <2> QED
    BY <1>3, <1>6, <2>12 DEF r
<1> QED
  BY <1>4, <1>5, <1>6 DEF Got

\* slab_id answers with a class, or with none.
LEMMA SlabidClass ==
    ASSUME NEW n \in Nat
    PROVE  /\ item_slabid(n) \in Class \cup {0}
           /\ item_slabid(n) # 0 => item_slabid(n) \in Class
<1> DEFINE fits == {id \in Class : n <= capacity[id]}
<1>1. Class = 1..Len(nitem) /\ Len(nitem) \in Nat
  BY SlabAssumption DEF Class
<1>2. fits \in SUBSET Nat
  BY <1>1
<1>3. fits # {} => \E id \in fits : \A j \in fits : id <= j
  BY <1>2, LeastNat
<1>4. item_slabid(n) \in Class \cup {0}
  BY <1>3 DEF item_slabid
<1> QED
  BY <1>4

\* The choices of the environment do not shrink while there is a slab.
LEMMA EnvGrows ==
    ASSUME NEW h, HeapOK(h), NEW g, HeapOK(g), h.nslab <= g.nslab,
           NEW it \in Live(h), NEW f \in BOOLEAN, NEW e \in Env(h, f)
    PROVE  e \in Env(g, f)
<1>1. h.nslab \in Nat /\ g.nslab \in Nat /\ it[1] \in 1..h.nslab
  BY CountTypes, LiveNotNoItem
<1>2. h.nslab # 0 /\ g.nslab # 0 /\ 1..h.nslab \subseteq 1..g.nslab
  BY <1>1
<1> QED
  BY <1>2 DEF Env

\* append and prepend release every reference they take, on the old item and
\* on the new one, on each of their early returns.
LEMMA AnnexQuiet ==
    ASSUME NEW h, Ready(h), NEW it \in Live(h), NEW append \in BOOLEAN,
           NEW f \in BOOLEAN, NEW e \in Env(h, f)
    PROVE  Quiet(h, item_annex(h, it, append, e))
<1> DEFINE k     == h.hdr[it].key
           g     == item_get(h, k)
           oit   == g.it
           total == g.mem.hdr[oit].nbyte + g.mem.hdr[it].nbyte
           id    == item_slabid(total)
           flags == IF append THEN {} ELSE {"RALIGN"}
           r     == item_annex(h, it, append, e)
<1>1. HeapOK(h) /\ it \in Item
  BY LiveNotNoItem DEF Ready
<1>2. k \in MaybeKey
  BY <1>1, HdrFields, 0 \in Nat
<1>3. IF oit = NoItem THEN r = g.mem
      ELSE \/ r = item_remove(g.mem, oit)
           \/ id # 0 /\ r = item_remove(item_rewrite(g.mem, oit, total), oit)
           \/ id # 0 /\ r = item_regrow(g.mem, oit, id, total, flags, e)
  BY DEF item_annex
<1> HIDE DEF k, r
<1>4. \/ oit = NoItem /\ Quiet(h, g.mem)
      \/ /\ oit # NoItem /\ Plus(h, g.mem, oit)
         /\ HeapOK(g.mem) /\ CountsOK(g.mem) /\ Room(g.mem, 1)
         /\ oit \in Live(g.mem) /\ Live(h) \subseteq Live(g.mem)
  BY <1>2, Lookup
<1> HIDE DEF g
<1>5. CASE oit = NoItem /\ Quiet(h, g.mem)
  BY <1>3, <1>5 DEF r
<1>6. CASE /\ oit # NoItem /\ Plus(h, g.mem, oit)
           /\ HeapOK(g.mem) /\ CountsOK(g.mem) /\ Room(g.mem, 1)
           /\ oit \in Live(g.mem) /\ Live(h) \subseteq Live(g.mem)
  <2> HIDE DEF oit
  <2>1. oit \in Item
    BY <1>6, LiveNotNoItem
  <2>2. total \in Nat
    <3>1. g.mem.hdr[oit].nbyte \in Nat /\ g.mem.hdr[it].nbyte \in Nat
      BY <1>1, <1>6, <2>1, HdrFields, 0 \in Nat
    <3> QED
      BY <3>1
  <2>3. id # 0 => id \in Class
    BY <2>2, SlabidClass
  <2>4. flags \in SUBSET ItemFlag
    BY DEF ItemFlag
  <2>5. e \in Env(g.mem, f)
    BY <1>1, <1>6, EnvGrows DEF Plus
  <2> HIDE DEF total, id, flags
  <2>6. Quiet(h, item_remove(g.mem, oit))
    BY <1>6, RemoveQuiet DEF Ready
  <2>7. Quiet(g.mem, item_rewrite(g.mem, oit, total))
    BY <1>6, <2>2, RewriteQuiet
  <2>8. Plus(h, item_rewrite(g.mem, oit, total), oit)
    BY <1>1, <1>6, <2>7, PlusQuiet
  <2>9. Quiet(h, item_remove(item_rewrite(g.mem, oit, total), oit))
    BY <2>8, RemoveQuiet DEF Ready
  <2>10. id # 0 => Quiet(h, item_regrow(g.mem, oit, id, total, flags, e))
    BY <1>6, <2>2, <2>3, <2>4, <2>5, RegrowQuiet
  <2> QED
    BY <1>3, <1>6, <2>6, <2>9, <2>10 DEF r
<1> QED
  BY <1>4, <1>5, <1>6

\* incr and decr release every reference they take, on each of their early
\* returns.
LEMMA DeltaQuiet ==
    ASSUME NEW h, Ready(h), NEW k \in MaybeKey, NEW numeric \in BOOLEAN, NEW res \in Nat,
           item_slabid(res) # 0, NEW f \in BOOLEAN, NEW e \in Env(h, f)
    PROVE  Quiet(h, item_delta(h, k, numeric, res, e))
<1> DEFINE g  == item_get(h, k)
           it == g.it
           id == item_slabid(res)
           ok == id # 0
           g1 == Check(g.mem, ok, "item_delta")
           r  == item_delta(h, k, numeric, res, e)
<1>1. HeapOK(h)
  BY DEF Ready
<1>2. IF it = NoItem THEN r = g.mem
      ELSE \/ r = item_remove(g.mem, it)
           \/ r = item_regrow(g1, it, id, res, {}, e)
           \/ r = item_remove(item_rewrite(g.mem, it, res), it)
  BY DEF item_delta
<1>3. it # NoItem => it \in Live(h)
  <2>1. it \in {NoItem, h.hash[k]}
    BY DEF item_get
  <2>2. h.hash[k] \in Live(h) \cup {NoItem}
    BY <1>1 DEF HeapOK
  <2> QED
    BY <2>1, <2>2
<1> HIDE DEF r
<1>4. \/ it = NoItem /\ Quiet(h, g.mem)
      \/ /\ it # NoItem /\ Plus(h, g.mem, it)
         /\ HeapOK(g.mem) /\ CountsOK(g.mem) /\ Room(g.mem, 1)
         /\ it \in Live(g.mem) /\ Live(h) \subseteq Live(g.mem)
  BY Lookup
<1> HIDE DEF g
<1>5. CASE it = NoItem /\ Quiet(h, g.mem)
  BY <1>2, <1>5 DEF r
<1>6. CASE /\ it # NoItem /\ Plus(h, g.mem, it)
           /\ HeapOK(g.mem) /\ CountsOK(g.mem) /\ Room(g.mem, 1)
           /\ it \in Live(g.mem) /\ Live(h) \subseteq Live(g.mem)
  <2> HIDE DEF it
  <2>1. id \in Class
    BY SlabidClass
  <2> HIDE DEF ok
  <2>2. Quiet(g.mem, g1)
    BY <1>6, CheckQuiet DEF AssertName
  <2>3. Plus(h, g1, it) /\ Room(g1, 1)
    BY <1>1, <1>6, <2>2, PlusQuiet, RoomAfter
  <2> HIDE DEF g1
  <2>4. e \in Env(g1, f)
    BY <1>1, <1>3, <1>6, <2>3, EnvGrows DEF Plus
  <2>5. {} \in SUBSET ItemFlag
    OBVIOUS
  <2> HIDE DEF id
  <2>6. Quiet(h, item_regrow(g1, it, id, res, {}, e))
    BY <2>1, <2>3, <2>4, <2>5, RegrowQuiet
  <2>7. Quiet(h, item_remove(g.mem, it))
    BY <1>6, RemoveQuiet DEF Ready
  <2>8. Plus(h, item_rewrite(g.mem, it, res), it)
    BY <1>1, <1>6, RewriteQuiet, PlusQuiet
  <2>9. Quiet(h, item_remove(item_rewrite(g.mem, it, res), it))
    BY <2>8, RemoveQuiet DEF Ready
  <2> QED
    BY <1>2, <1>6, <2>6, <2>7, <2>9 DEF r
<1> QED
  BY <1>4, <1>5, <1>6

\* delete releases the reference its lookup took.
LEMMA ItemDeleteQuiet ==
    ASSUME NEW h, Ready(h), NEW k \in MaybeKey
    PROVE  Quiet(h, item_delete(h, k))
<1> DEFINE g == item_get(h, k)
<1>1. item_delete(h, k) = IF g.it = NoItem THEN g.mem
                          ELSE item_remove(item_unlink(g.mem, g.it), g.it)
  BY DEF item_delete
<1>2. \/ g.it = NoItem /\ Quiet(h, g.mem)
      \/ /\ g.it # NoItem /\ Plus(h, g.mem, g.it)
         /\ HeapOK(g.mem) /\ g.it \in Live(g.mem)
  BY Lookup
<1> HIDE DEF g
<1>3. CASE g.it = NoItem /\ Quiet(h, g.mem)
  BY <1>1, <1>3
<1>4. CASE /\ g.it # NoItem /\ Plus(h, g.mem, g.it)
           /\ HeapOK(g.mem) /\ g.it \in Live(g.mem)
  <2>1. Plus(h, item_unlink(g.mem, g.it), g.it)
    BY <1>4, UnlinkQuiet, PlusQuiet DEF Ready
  <2> QED
    BY <1>1, <1>4, <2>1, RemoveQuiet DEF Ready
<1> QED
  BY <1>2, <1>3, <1>4

-----------------------------------------------------------------------------
(***************************************************************************)
(* The memory: hash, queues, flags and counts.                             *)
(***************************************************************************)

\* x is one of the chunks its slab is carved into.
Chunk(h, x) == x[1] <= h.nslab /\ x[2] <= nitem[item_id(h, x)]

\* x was not handed out yet by the current slab of its class.
Unused(h, x) ==
    \E id \in Class : /\ h.free_item[id] # NoItem
                      /\ h.free_item[id][1] = x[1]
                      /\ x[2] >= h.free_item[id][2]

\* Every allocated slab has a class and is once in the slab lruq.
SlabsOK(h) ==
    /\ NoDup(h.slab_lruq)
    /\ Elems(h.slab_lruq) = 1..h.nslab
    /\ \A s \in 1..h.nslab : h.slab_class[s] \in Class

\* The queues of a class hold the linked and the free items of the class.
LruqOK(h) ==
    \A id \in Class :
        /\ NoDup(h.item_lruq[id])
        /\ \A x \in Item : x \in Elems(h.item_lruq[id]) <=>
                               item_is_linked(h, x) /\ item_id(h, x) = id

FreeqOK(h) ==
    \A id \in Class :
        /\ NoDup(h.free_itemq[id])
        /\ \A x \in Item : x \in Elems(h.free_itemq[id]) <=>
                               item_is_slabbed(h, x) /\ item_id(h, x) = id

\* The hash finds linked items, under their keys, and all of them.
HashOK(h) ==
    /\ h.hash[NoKey] = NoItem
    /\ \A k \in Key : h.hash[k] # NoItem => /\ item_is_linked(h, h.hash[k])
                                            /\ h.hdr[h.hash[k]].key = k
    /\ \A x \in Item : item_is_linked(h, x) => /\ h.hdr[x].key \in Key
                                               /\ h.hash[h.hdr[x].key] = x

\* The current slab of a class is one of its slabs, and has a chunk left.
CurrentOK(h) ==
    \A id \in Class : h.free_item[id] # NoItem =>
        /\ h.slab_class[h.free_item[id][1]] = id
        /\ h.free_item[id][2] <= nitem[id]

\* A free item has no reference, and what was never handed out neither; a
\* referenced item has a key; what is no chunk is never used.
ItemOK(h, x) ==
    /\ item_is_slabbed(h, x) => h.refcount[x] = 0 /\ ~item_is_linked(h, x)
    /\ Unused(h, x) => h.refcount[x] = 0 /\ h.flags[x] = {}
    /\ h.refcount[x] > 0 => h.hdr[x].key \in Key
    /\ ~Chunk(h, x) => h.refcount[x] = 0 /\ h.flags[x] = {}

\* A chunk outside X is linked, free, referenced or unused; those in X are
\* what an operation has in its hands: none of these.
Whereabouts(h, X) ==
    /\ \A x \in Item : Chunk(h, x) /\ x \notin X =>
          \/ item_is_linked(h, x) \/ item_is_slabbed(h, x)
          \/ h.refcount[x] > 0    \/ Unused(h, x)
    /\ \A x \in X : /\ x \in Item /\ Chunk(h, x)
                    /\ ~item_is_linked(h, x) /\ ~item_is_slabbed(h, x)
                    /\ h.refcount[x] = 0     /\ ~Unused(h, x)

Sound(h, X) ==
    /\ HeapOK(h)
    /\ SlabsOK(h)
    /\ LruqOK(h)
    /\ FreeqOK(h)
    /\ HashOK(h)
    /\ CurrentOK(h)
    /\ \A x \in Item : ItemOK(h, x)
    /\ Whereabouts(h, X)

\* From h to m, what is referenced throughout keeps key, expiry and class,
\* and what is not linked keeps its flags too, unless it is in T.
Keeps(h, m, T) ==
    \A x \in Item : h.refcount[x] > 0 /\ m.refcount[x] > 0 =>
        /\ m.hdr[x].key = h.hdr[x].key
        /\ m.hdr[x].exptime = h.hdr[x].exptime
        /\ item_id(m, x) = item_id(h, x)
        /\ ~item_is_linked(h, x) /\ x \notin T => m.flags[x] = h.flags[x]

-----------------------------------------------------------------------------
(***************************************************************************)
(* Most operations change the status of one item.  What they do to it is   *)
(* stated with the operators below, and OneItem shows that this is enough. *)
(***************************************************************************)

\* Slabs keep their class; the slab lruq may be reordered.
SlabsSame(h, m) ==
    /\ m.slab_class = h.slab_class
    /\ m.nslab = h.nslab
    /\ NoDup(m.slab_lruq)
    /\ Elems(m.slab_lruq) = Elems(h.slab_lruq)

\* Items other than it keep their status.
OthersSame(h, m, it) ==
    \A x \in Item : x # it => /\ m.flags[x] = h.flags[x]
                              /\ m.refcount[x] = h.refcount[x]
                              /\ m.hdr[x].key = h.hdr[x].key
                              /\ Chunk(h, x) => (Unused(m, x) <=> Unused(h, x))

\* Queues p are queues q but for it, which is in the one of class id or in
\* none.
Requeued(q, p, it, id, in) ==
    \A c \in Class :
        /\ NoDup(p[c])
        /\ \A x \in Item : x \in Elems(p[c]) <=> IF x = it THEN in /\ c = id
                                                 ELSE x \in Elems(q[c])

\* The hash finds it under its key if it is linked now, and not otherwise.
Rehashed(h, m, it) ==
    /\ \A k \in MaybeKey :
          m.hash[k] = IF item_is_linked(m, it) /\ k = m.hdr[it].key THEN it
                      ELSE IF h.hash[k] = it THEN NoItem ELSE h.hash[k]
    /\ item_is_linked(m, it) => /\ m.hdr[it].key \in Key
                                /\ h.hash[m.hdr[it].key] \in {it, NoItem}

InHand(m, it) ==
    ~item_is_linked(m, it) /\ ~item_is_slabbed(m, it) /\ m.refcount[it] = 0

\* A change of one item that puts it where its flags say keeps the memory
\* sound.
LEMMA OneItem ==
    ASSUME NEW h, NEW X, Sound(h, X), NEW m, HeapOK(m), NEW it \in Item, Chunk(h, it),
           SlabsSame(h, m), OthersSame(h, m, it), CurrentOK(m), ~Unused(m, it),
           Requeued(h.item_lruq, m.item_lruq, it, item_id(h, it), item_is_linked(m, it)),
           Requeued(h.free_itemq, m.free_itemq, it, item_id(h, it), item_is_slabbed(m, it)),
           Rehashed(h, m, it),
           item_is_slabbed(m, it) => m.refcount[it] = 0 /\ ~item_is_linked(m, it),
           m.refcount[it] > 0 => m.hdr[it].key \in Key
    PROVE  Sound(m, IF InHand(m, it) THEN X \cup {it} ELSE X \ {it})
<1> DEFINE Y == IF InHand(m, it) THEN X \cup {it} ELSE X \ {it}
<1>1. \A x \in Item : item_id(m, x) = item_id(h, x) /\ (Chunk(m, x) <=> Chunk(h, x))
  BY DEF SlabsSame, item_id, Chunk
<1>2. \A x \in Item : x # it => /\ item_is_linked(m, x) <=> item_is_linked(h, x)
                                /\ item_is_slabbed(m, x) <=> item_is_slabbed(h, x)
  BY DEF OthersSame, item_is_linked, item_is_slabbed
<1>3. SlabsOK(m)
  BY DEF Sound, SlabsOK, SlabsSame
<1>4. LruqOK(m)
  BY <1>1, <1>2 DEF Sound, LruqOK, Requeued
<1>5. FreeqOK(m)
  BY <1>1, <1>2 DEF Sound, FreeqOK, Requeued
<1>6. HashOK(m)
  <2>1. NoKey \in MaybeKey /\ NoKey \notin Key /\ Key \subseteq MaybeKey
    BY SlabAssumption DEF MaybeKey
  <2>2. m.hash[NoKey] = NoItem
    BY <2>1 DEF Sound, HashOK, Rehashed
  <2>3. ASSUME NEW k \in Key, m.hash[k] # NoItem
        PROVE  item_is_linked(m, m.hash[k]) /\ m.hdr[m.hash[k]].key = k
    <3>1. CASE item_is_linked(m, it) /\ k = m.hdr[it].key
      BY <2>1, <3>1 DEF Rehashed
    <3>2. CASE ~(item_is_linked(m, it) /\ k = m.hdr[it].key)
      <4>1. m.hash[k] = h.hash[k] /\ h.hash[k] # it /\ h.hash[k] # NoItem
        BY <2>1, <2>3, <3>2 DEF Rehashed
      <4>2. h.hash[k] \in Item
        BY <2>1, <4>1, LiveItems DEF HeapOK, Sound
      <4> QED
        BY <1>2, <4>1, <4>2 DEF Sound, HashOK, OthersSame
    <3> QED
      BY <3>1, <3>2
  <2>4. ASSUME NEW x \in Item, item_is_linked(m, x)
        PROVE  m.hdr[x].key \in Key /\ m.hash[m.hdr[x].key] = x
    <3>1. CASE x = it
      BY <2>1, <2>4, <3>1 DEF Rehashed
    <3>2. CASE x # it
      <4>1. item_is_linked(h, x) /\ m.hdr[x].key = h.hdr[x].key
        BY <1>2, <2>4, <3>2 DEF OthersSame
      <4>2. h.hdr[x].key \in Key /\ h.hash[h.hdr[x].key] = x
        BY <4>1 DEF Sound, HashOK
      <4>3. x # NoItem
        BY SlabAssumption
      <4> QED
        BY <2>1, <3>2, <4>1, <4>2, <4>3 DEF Rehashed
    <3> QED
      BY <3>1, <3>2
  <2> QED
    BY <2>2, <2>3, <2>4 DEF HashOK
<1>7. ASSUME NEW x \in Item
      PROVE  ItemOK(m, x)
  <2>1. CASE x = it
    BY <1>1, <2>1 DEF ItemOK
  <2>2. CASE x # it
    BY <1>1, <1>2, <2>2 DEF ItemOK, OthersSame, Sound
  <2> QED
    BY <2>1, <2>2
<1>8. Whereabouts(m, Y)
  <2>1. m.refcount[it] \in Nat
    BY CountTypes
  <2>2. ASSUME NEW x \in Item, Chunk(m, x), x \notin Y
        PROVE  \/ item_is_linked(m, x) \/ item_is_slabbed(m, x)
               \/ m.refcount[x] > 0    \/ Unused(m, x)
    <3>1. CASE x = it
      BY <2>1, <2>2, <3>1 DEF InHand
    <3>2. CASE x # it
      <4>1. x \notin X
        BY <2>2, <3>2
      <4> QED
        BY <1>1, <1>2, <2>2, <3>2, <4>1 DEF Sound, Whereabouts, OthersSame
    <3> QED
      BY <3>1, <3>2
  <2>3. ASSUME NEW x \in Y
        PROVE  /\ x \in Item /\ Chunk(m, x)
               /\ ~item_is_linked(m, x) /\ ~item_is_slabbed(m, x)
               /\ m.refcount[x] = 0     /\ ~Unused(m, x)
    <3>1. CASE x = it
      <4>1. InHand(m, it)
        BY <2>3, <3>1
      <4> QED
        BY <1>1, <3>1, <4>1 DEF InHand
    <3>2. CASE x # it
      <4>1. x \in X
        BY <2>3, <3>2
      <4>2. x \in Item
        BY <4>1 DEF Sound, Whereabouts
      <4> QED
        BY <1>1, <1>2, <3>2, <4>1, <4>2 DEF Sound, Whereabouts, OthersSame
    <3> QED
      BY <3>1, <3>2
  <2> HIDE DEF Y
  <2> QED
    BY <2>2, <2>3 DEF Whereabouts
<1> HIDE DEF Y
<1>9. Sound(m, Y)
  BY <1>3, <1>4, <1>5, <1>6, <1>7, <1>8 DEF Sound
<1> QED
  BY <1>9 DEF Y

\* A linked, free or referenced item is a chunk that was handed out.
LEMMA InUse ==
    ASSUME NEW h, NEW X, Sound(h, X), NEW x \in Item,
           item_is_linked(h, x) \/ item_is_slabbed(h, x) \/ h.refcount[x] > 0 \/ x \in X
    PROVE  /\ Chunk(h, x) /\ ~Unused(h, x) /\ item_id(h, x) \in Class /\ x \in Live(h)
           /\ x[1] \in 1..h.nslab
<1>1. h.refcount[x] \in Nat /\ h.nslab \in Nat
  BY CountTypes DEF Sound
<1>2. Chunk(h, x) /\ ~Unused(h, x)
  BY <1>1 DEF Sound, ItemOK, Whereabouts, item_is_linked, item_is_slabbed
<1>3. x[1] \in Slab /\ x[2] \in 1..max_nitem /\ x = <<x[1], x[2]>>
  BY DEF Item
<1>4. x[1] \in 1..h.nslab
  BY <1>1, <1>2, <1>3, SlabAssumption DEF Chunk, Slab
<1>5. x \in Live(h)
  BY <1>3, <1>4 DEF Live
<1> QED
  BY <1>2, <1>4, <1>5 DEF Sound, SlabsOK, item_id, item_2_slab

\* Soundness reads only these fields.
LEMMA SameHeap ==
    ASSUME NEW h, NEW X, Sound(h, X), NEW m, HeapOK(m),
           m.flags = h.flags, m.refcount = h.refcount, m.slab_class = h.slab_class,
           m.nslab = h.nslab, m.slab_lruq = h.slab_lruq, m.free_item = h.free_item,
           m.free_itemq = h.free_itemq, m.item_lruq = h.item_lruq, m.hash = h.hash,
           \A x \in Item : m.hdr[x].key = h.hdr[x].key
    PROVE  Sound(m, X)
<1>1. \A x : /\ item_id(m, x) = item_id(h, x) /\ (Chunk(m, x) <=> Chunk(h, x))
             /\ item_is_linked(m, x) <=> item_is_linked(h, x)
             /\ item_is_slabbed(m, x) <=> item_is_slabbed(h, x)
             /\ Unused(m, x) <=> Unused(h, x)
  BY DEF item_id, Chunk, item_is_linked, item_is_slabbed, Unused
<1>2. SlabsOK(m)
  BY DEF Sound, SlabsOK
<1>3. LruqOK(m) /\ FreeqOK(m)
  BY <1>1 DEF Sound, LruqOK, FreeqOK
<1>4. CurrentOK(m)
  BY DEF Sound, CurrentOK
<1>5. HashOK(m)
  <2>1. \A k \in Key : h.hash[k] # NoItem => h.hash[k] \in Item
    BY LiveItems DEF HeapOK, Sound, MaybeKey
  <2> QED
    BY <1>1, <2>1 DEF Sound, HashOK
<1>6. \A x \in Item : ItemOK(m, x)
  BY <1>1 DEF Sound, ItemOK
<1>7. Whereabouts(m, X)
  BY <1>1 DEF Sound, Whereabouts
<1> QED
  BY <1>2, <1>3, <1>4, <1>5, <1>6, <1>7 DEF Sound

\* An ASSERT of the code changes nothing but the record of failures, and that
\* only if it fails.
LEMMA CheckSound ==
    ASSUME NEW h, NEW X, Sound(h, X), NEW ok, NEW name \in AssertName
    PROVE  /\ Sound(Check(h, ok, name), X)
           /\ Keeps(h, Check(h, ok, name), {})
           /\ ok => Check(h, ok, name).failed = h.failed
           /\ Check(h, ok, name) \in HeapType
<1> DEFINE m == Check(h, ok, name)
<1>1. HeapOK(m)
  BY CheckQuiet DEF Quiet, Sound
<1>2. /\ m.flags = h.flags /\ m.refcount = h.refcount /\ m.slab_class = h.slab_class
      /\ m.nslab = h.nslab /\ m.slab_lruq = h.slab_lruq /\ m.free_item = h.free_item
      /\ m.free_itemq = h.free_itemq /\ m.item_lruq = h.item_lruq /\ m.hash = h.hash
      /\ m.hdr = h.hdr
      /\ ok => m.failed = h.failed
  BY DEF Check, Sound, HeapOK, HeapType
<1> HIDE DEF m
<1>3. Sound(m, X)
  BY <1>1, <1>2, SameHeap
<1>4. Keeps(h, m, {})
  BY <1>2 DEF Keeps, item_id
<1> QED
  BY <1>1, <1>2, <1>3, <1>4 DEF m, HeapOK

\* slab_lruq_touch only reorders the slab lruq.
LEMMA TouchSlabFields ==
    ASSUME NEW h, HeapOK(h), NoDup(h.slab_lruq), Elems(h.slab_lruq) = 1..h.nslab,
           NEW s \in 1..h.nslab, NEW a \in BOOLEAN
    PROVE  LET m == slab_lruq_touch(h, s, a)
           IN  /\ SlabsSame(h, m)
               /\ m.flags = h.flags /\ m.refcount = h.refcount /\ m.hdr = h.hdr
               /\ m.free_item = h.free_item /\ m.free_itemq = h.free_itemq
               /\ m.item_lruq = h.item_lruq /\ m.hash = h.hash /\ m.failed = h.failed
               /\ m.slab_refcount = h.slab_refcount
<1> DEFINE w == Without(h.slab_lruq, {s})
           q == Append(w, s)
           m == slab_lruq_touch(h, s, a)
<1> DEFINE N == 1..h.nslab
<1>1. h.slab_lruq \in Seq(N) /\ s \in N
  BY DEF HeapOK
<1>2. w \in Seq(N) /\ NoDup(w) /\ Elems(w) = Elems(h.slab_lruq) \ {s}
  <2> HIDE DEF N
  <2> QED
    BY <1>1, WithoutProperties
<1> HIDE DEF w
<1>3. NoDup(q) /\ Elems(q) = Elems(w) \cup {s}
  <2> HIDE DEF N
  <2> QED
    BY <1>1, <1>2, AppendElems
<1>4. CASE m = h
  BY <1>4 DEF SlabsSame
<1>5. CASE m = [h EXCEPT !.utime[s] = now, !.slab_lruq = q]
  <2> HIDE DEF m, q
  <2> QED
    BY <1>2, <1>3, <1>5 DEF SlabsSame, HeapOK, HeapType, m
<1> QED
  BY <1>4, <1>5 DEF slab_lruq_touch, q, w

\* item_next_cas only changes cas ids.
LEMMA NextCasFields ==
    ASSUME NEW h, HeapOK(h), NEW it \in Item
    PROVE  LET m == item_next_cas(h, it)
           IN  /\ m.slab_class = h.slab_class /\ m.nslab = h.nslab /\ m.slab_lruq = h.slab_lruq
               /\ m.flags = h.flags /\ m.refcount = h.refcount
               /\ m.free_item = h.free_item /\ m.free_itemq = h.free_itemq
               /\ m.item_lruq = h.item_lruq /\ m.hash = h.hash /\ m.failed = h.failed
               /\ \A x \in Item : /\ m.hdr[x].key = h.hdr[x].key
                                  /\ m.hdr[x].exptime = h.hdr[x].exptime
                                  /\ m.hdr[x].nbyte = h.hdr[x].nbyte
<1> DEFINE m == item_next_cas(h, it)
<1>1. CASE m = h
  BY <1>1
<1>2. CASE m = [h EXCEPT !.cas_id = @ + 1, !.hdr[it].cas = h.cas_id + 1]
  <2> HIDE DEF m
  <2>1. h.hdr \in [Item -> ItemHdr]
    BY DEF HeapOK, HeapType
  <2>2. m.hdr = [h.hdr EXCEPT ![it].cas = h.cas_id + 1]
    BY <1>2 DEF HeapOK, HeapType
  <2>3. \A x \in Item : /\ m.hdr[x].key = h.hdr[x].key
                        /\ m.hdr[x].exptime = h.hdr[x].exptime
                        /\ m.hdr[x].nbyte = h.hdr[x].nbyte
    BY <2>1, <2>2 DEF ItemHdr
  <2> QED
    BY <1>2, <2>3 DEF HeapOK, HeapType, m
<1> QED
  BY <1>1, <1>2 DEF item_next_cas

-----------------------------------------------------------------------------
\* The queues of a sound memory.
LEMMA SoundQueues ==
    ASSUME NEW h, NEW X, Sound(h, X), NEW x \in Item
    PROVE  /\ h.item_lruq \in [Class -> Seq(Item)] /\ h.free_itemq \in [Class -> Seq(Item)]
           /\ \A c \in Class : NoDup(h.item_lruq[c]) /\ NoDup(h.free_itemq[c])
           /\ \A c \in Class : /\ x \in Elems(h.item_lruq[c]) <=>
                                    item_is_linked(h, x) /\ c = item_id(h, x)
                               /\ x \in Elems(h.free_itemq[c]) <=>
                                    item_is_slabbed(h, x) /\ c = item_id(h, x)
<1>1. h.item_lruq \in [Class -> Seq(Item)] /\ h.free_itemq \in [Class -> Seq(Item)]
  BY DEF Sound, HeapOK, HeapType
<1> QED
  BY <1>1 DEF Sound, LruqOK, FreeqOK

\* Queueing an item that is in no queue.
LEMMA QueueAdd ==
    ASSUME NEW Q \in [Class -> Seq(Item)], \A c \in Class : NoDup(Q[c]),
           NEW it \in Item, \A c \in Class : it \notin Elems(Q[c]), NEW id \in Class,
           NEW P, P = [Q EXCEPT ![id] = Append(Q[id], it)] \/ P = [Q EXCEPT ![id] = <<it>> \o Q[id]]
    PROVE  Requeued(Q, P, it, id, TRUE)
<1>1. Q[id] \in Seq(Item)
  OBVIOUS
<1>2. NoDup(P[id]) /\ Elems(P[id]) = Elems(Q[id]) \cup {it}
  <2>1. CASE P = [Q EXCEPT ![id] = Append(Q[id], it)]
    <3>1. P[id] = Append(Q[id], it)
      BY <2>1
    <3> QED
      BY <1>1, <3>1, AppendElems
  <2>2. CASE P = [Q EXCEPT ![id] = <<it>> \o Q[id]]
    <3> DEFINE one == <<it>>
    <3>1. P[id] = one \o Q[id]
      BY <2>2
    <3>2. one \in Seq(Item) /\ Elems(one) = {it} /\ NoDup(one)
      BY SingleElems
    <3> HIDE DEF one
    <3>3. Elems(one) \cap Elems(Q[id]) = {}
      BY <3>2
    <3>4. NoDup(one \o Q[id]) /\ Elems(one \o Q[id]) = Elems(one) \cup Elems(Q[id])
      BY <1>1, <3>2, <3>3, ConcatElems
    <3> QED
      BY <3>1, <3>2, <3>4
  <2> QED
    BY <2>1, <2>2
<1>3. \A c \in Class : c # id => P[c] = Q[c]
  OBVIOUS
<1> QED
  BY <1>2, <1>3 DEF Requeued

\* Taking an item out of the queue of its class.
LEMMA QueueDel ==
    ASSUME NEW Q \in [Class -> Seq(Item)], \A c \in Class : NoDup(Q[c]),
           NEW it \in Item, NEW id \in Class, \A c \in Class : c # id => it \notin Elems(Q[c]),
           NEW P, \/ P = [Q EXCEPT ![id] = Without(Q[id], {it})]
                  \/ Q[id] # << >> /\ it = Head(Q[id]) /\ P = [Q EXCEPT ![id] = Tail(Q[id])]
    PROVE  Requeued(Q, P, it, id, FALSE)
<1>1. Q[id] \in Seq(Item)
  OBVIOUS
<1>2. NoDup(P[id]) /\ Elems(P[id]) = Elems(Q[id]) \ {it}
  <2>1. CASE P = [Q EXCEPT ![id] = Without(Q[id], {it})]
    <3>1. P[id] = Without(Q[id], {it})
      BY <2>1
    <3> QED
      BY <1>1, <3>1, WithoutProperties
  <2>2. CASE Q[id] # << >> /\ it = Head(Q[id]) /\ P = [Q EXCEPT ![id] = Tail(Q[id])]
    <3>1. P[id] = Tail(Q[id])
      BY <2>2
    <3> QED
      BY <1>1, <2>2, <3>1, TailElems
  <2> QED
    BY <2>1, <2>2
<1>3. \A c \in Class : c # id => P[c] = Q[c]
  OBVIOUS
<1> QED
  BY <1>2, <1>3 DEF Requeued

\* Leaving the queues alone.
LEMMA QueueSame ==
    ASSUME NEW Q, \A c \in Class : NoDup(Q[c]), NEW it, NEW id, NEW in,
           \A c \in Class : it \in Elems(Q[c]) <=> in /\ c = id
    PROVE  Requeued(Q, Q, it, id, in)
  BY DEF Requeued

-----------------------------------------------------------------------------
\* Headers keep key and expiry.
HdrSame(h, m) ==
    \A x \in Item : m.hdr[x].key = h.hdr[x].key /\ m.hdr[x].exptime = h.hdr[x].exptime

\* The lruq of the class of it with it at its tail.
Queued(h, it) ==
    [h.item_lruq EXCEPT ![item_id(h, it)] = Append(h.item_lruq[item_id(h, it)], it)]

\* What item_link_q does to the fields of the memory.
Stamped(h, m, it) ==
    /\ SlabsSame(h, m)
    /\ m.flags = h.flags /\ m.refcount = h.refcount
    /\ m.free_item = h.free_item /\ m.free_itemq = h.free_itemq
    /\ m.item_lruq = Queued(h, it)
    /\ m.hash = h.hash
    /\ ~item_is_slabbed(h, it) => m.failed = h.failed
    /\ HdrSame(h, m)

\* item_link_q stamps an item and appends it to the lruq of its class.
LEMMA LinkQFields ==
    ASSUME NEW h, HeapOK(h), NoDup(h.slab_lruq), Elems(h.slab_lruq) = 1..h.nslab,
           NEW it \in Live(h), NEW a \in BOOLEAN, now \in Nat
    PROVE  Stamped(h, item_link_q(h, it, a), it)
<1> DEFINE id == item_id(h, it)
           ok == ~item_is_slabbed(h, it)
           g0 == Check(h, ok, "item_link_q")
           g == [g0 EXCEPT !.hdr[it].atime = now, !.item_lruq[id] = Append(@, it)]
           m == item_link_q(h, it, a)
<1>1. it \in Item /\ it[1] \in 1..h.nslab
  BY LiveNotNoItem
<1>2. /\ g0 \in HeapType
      /\ g0.slab_class = h.slab_class /\ g0.nslab = h.nslab /\ g0.slab_lruq = h.slab_lruq
      /\ g0.flags = h.flags /\ g0.refcount = h.refcount /\ g0.hdr = h.hdr
      /\ g0.free_item = h.free_item /\ g0.free_itemq = h.free_itemq
      /\ g0.item_lruq = h.item_lruq /\ g0.hash = h.hash
      /\ ok => g0.failed = h.failed
  BY DEF Check, HeapOK, HeapType, AssertName
<1> HIDE DEF g0
<1>3. /\ g.slab_class = h.slab_class /\ g.nslab = h.nslab /\ g.slab_lruq = h.slab_lruq
      /\ g.flags = h.flags /\ g.refcount = h.refcount
      /\ g.hdr = [h.hdr EXCEPT ![it].atime = now]
      /\ g.free_item = h.free_item /\ g.free_itemq = h.free_itemq
      /\ g.item_lruq = [h.item_lruq EXCEPT ![id] = Append(h.item_lruq[id], it)]
      /\ g.hash = h.hash
      /\ ok => g.failed = h.failed
  BY <1>2 DEF HeapType
<1>4. HeapOK(g)
  <2>1. Quiet(h, g0) /\ HeapOK(g0)
    BY CheckQuiet DEF g0, Quiet, AssertName
  <2>2. [g0.hdr[it] EXCEPT !.atime = now] \in ItemHdr
    BY <1>1, <2>1, HdrFields
  <2> DEFINE g1 == [g0 EXCEPT !.hdr[it] = [g0.hdr[it] EXCEPT !.atime = now]]
  <2>3. Quiet(g0, g1) /\ HeapOK(g1) /\ g1.item_lruq = g0.item_lruq /\ Live(g1) = Live(h)
    <3>1. Quiet(g0, g1)
      BY <1>1, <2>1, <2>2, HdrQuiet
    <3> QED
      BY <1>2, <3>1 DEF Quiet, HeapType, Live
  <2>4. id \in Class => Append(g1.item_lruq[id], it) \in Seq(Live(g1))
    <3> HIDE DEF g1
    <3>1. it \in Live(g1) /\ (id \in Class => g1.item_lruq[id] \in Seq(Live(g1)))
      BY <2>3 DEF HeapOK
    <3> HIDE DEF id
    <3> QED
      BY <3>1
  <2>5. Quiet(g1, [g1 EXCEPT !.item_lruq[id] = Append(g1.item_lruq[id], it)])
    BY <2>3, <2>4, LruqQuiet
  <2>6. g = [g1 EXCEPT !.item_lruq[id] = Append(g1.item_lruq[id], it)]
    BY <1>2 DEF HeapType
  <2> QED
    BY <2>5, <2>6 DEF Quiet
<1>5. m = slab_lruq_touch(g, it[1], a)
  BY DEF item_link_q, g0, item_2_slab
<1> HIDE DEF g
<1>6. /\ SlabsSame(g, m)
      /\ m.flags = g.flags /\ m.refcount = g.refcount /\ m.hdr = g.hdr
      /\ m.free_item = g.free_item /\ m.free_itemq = g.free_itemq
      /\ m.item_lruq = g.item_lruq /\ m.hash = g.hash /\ m.failed = g.failed
  BY <1>1, <1>3, <1>4, <1>5, TouchSlabFields
<1>7. \A x \in Item : m.hdr[x].key = h.hdr[x].key /\ m.hdr[x].exptime = h.hdr[x].exptime
  <2>1. h.hdr \in [Item -> ItemHdr]
    BY DEF HeapOK, HeapType
  <2> HIDE DEF m
  <2> QED
    BY <1>3, <1>6, <2>1 DEF ItemHdr
<1> HIDE DEF m
<1>8. SlabsSame(h, m)
  BY <1>3, <1>6 DEF SlabsSame
<1> QED
  BY <1>3, <1>6, <1>7, <1>8 DEF m, Stamped, Queued, HdrSame

\* What item_link does to them.
Linked(h, m, it) ==
    /\ SlabsSame(h, m)
    /\ m.flags = [h.flags EXCEPT ![it] = h.flags[it] \cup {"LINKED"}]
    /\ m.refcount = h.refcount
    /\ m.free_item = h.free_item /\ m.free_itemq = h.free_itemq
    /\ m.item_lruq = Queued(h, it)
    /\ m.hash = [h.hash EXCEPT ![h.hdr[it].key] = it]
    /\ ~item_is_slabbed(h, it) /\ ~item_is_linked(h, it) /\ h.hash[h.hdr[it].key] = NoItem
           => m.failed = h.failed
    /\ HdrSame(h, m)

\* item_link marks an item as linked and puts it into hash and lruq.
LEMMA LinkFields ==
    ASSUME NEW h, HeapOK(h), NoDup(h.slab_lruq), Elems(h.slab_lruq) = 1..h.nslab,
           NEW it \in Live(h), now \in Nat
    PROVE  Linked(h, item_link(h, it), it)
<1> DEFINE ok == ~item_is_linked(h, it) /\ ~item_is_slabbed(h, it)
           k == h.hdr[it].key
           g0 == Check(h, ok, "item_link")
           g1 == [g0 EXCEPT !.flags[it] = @ \cup {"LINKED"}]
           g2 == item_next_cas(g1, it)
           g3 == assoc_insert(g2, it)
           m == item_link(h, it)
<1>1. it \in Item
  BY LiveNotNoItem
<1>2. /\ g0 \in HeapType /\ HeapOK(g0)
      /\ g0.slab_class = h.slab_class /\ g0.nslab = h.nslab /\ g0.slab_lruq = h.slab_lruq
      /\ g0.flags = h.flags /\ g0.refcount = h.refcount /\ g0.hdr = h.hdr
      /\ g0.free_item = h.free_item /\ g0.free_itemq = h.free_itemq
      /\ g0.item_lruq = h.item_lruq /\ g0.hash = h.hash
      /\ ok => g0.failed = h.failed
  <2>1. HeapOK(g0)
    BY CheckQuiet DEF Quiet, AssertName
  <2> QED
    BY <2>1 DEF Check, HeapOK, HeapType, AssertName
<1> HIDE DEF g0
<1>3. /\ HeapOK(g1)
      /\ g1.slab_class = h.slab_class /\ g1.nslab = h.nslab /\ g1.slab_lruq = h.slab_lruq
      /\ g1.flags = [h.flags EXCEPT ![it] = h.flags[it] \cup {"LINKED"}]
      /\ g1.refcount = h.refcount /\ g1.hdr = h.hdr
      /\ g1.free_item = h.free_item /\ g1.free_itemq = h.free_itemq
      /\ g1.item_lruq = h.item_lruq /\ g1.hash = h.hash
      /\ g1.failed = g0.failed
  <2>1. g0.flags[it] \cup {"LINKED"} \in SUBSET ItemFlag
    BY <1>1, <1>2, HdrFields DEF ItemFlag
  <2>2. HeapOK([g0 EXCEPT !.flags[it] = g0.flags[it] \cup {"LINKED"}])
    BY <1>1, <1>2, <2>1, FlagsQuiet DEF Quiet
  <2> QED
    BY <1>2, <2>2 DEF HeapType
<1> HIDE DEF g1
<1>4. HeapOK(g2)
  BY <1>1, <1>3, NextCasQuiet DEF Quiet
<1>5. /\ g2.slab_class = g1.slab_class /\ g2.nslab = g1.nslab /\ g2.slab_lruq = g1.slab_lruq
      /\ g2.flags = g1.flags /\ g2.refcount = g1.refcount
      /\ g2.free_item = g1.free_item /\ g2.free_itemq = g1.free_itemq
      /\ g2.item_lruq = g1.item_lruq /\ g2.hash = g1.hash /\ g2.failed = g1.failed
      /\ \A x \in Item : /\ g2.hdr[x].key = g1.hdr[x].key
                         /\ g2.hdr[x].exptime = g1.hdr[x].exptime
  BY <1>1, <1>3, NextCasFields
<1> HIDE DEF g2
<1>6. Live(g2) = Live(h) /\ g2.hdr[it].key = k
  BY <1>1, <1>3, <1>5 DEF Live
<1>7. /\ HeapOK(g3)
      /\ g3.slab_class = g2.slab_class /\ g3.nslab = g2.nslab /\ g3.slab_lruq = g2.slab_lruq
      /\ g3.flags = g2.flags /\ g3.refcount = g2.refcount /\ g3.hdr = g2.hdr
      /\ g3.free_item = g2.free_item /\ g3.free_itemq = g2.free_itemq
      /\ g3.item_lruq = g2.item_lruq /\ g3.hash = [g2.hash EXCEPT ![k] = it]
      /\ g2.hash[k] = NoItem => g3.failed = g2.failed
  <2>1. HeapOK(g3)
    BY <1>4, <1>6, InsertQuiet DEF Quiet
  <2> HIDE DEF k
  <2> QED
    BY <1>4, <1>6, <2>1 DEF assoc_insert, Check, HeapOK, HeapType
<1>8. m = item_link_q(g3, it, TRUE)
  BY DEF item_link, g2, g1, g0
<1> HIDE DEF g3
<1>9. it \in Live(g3) /\ TRUE \in BOOLEAN
  BY <1>6, <1>7 DEF Live
<1> HIDE DEF k
<1>10. Stamped(g3, m, it)
  <2>1. NoDup(g3.slab_lruq) /\ Elems(g3.slab_lruq) = 1..g3.nslab /\ HeapOK(g3)
    BY <1>3, <1>5, <1>7
  <2> HIDE DEF m
  <2> QED
    BY <1>8, <1>9, <2>1, LinkQFields
<1> HIDE DEF m
<1>11. SlabsSame(h, m) /\ item_id(g3, it) = item_id(h, it)
  BY <1>3, <1>5, <1>7, <1>10 DEF SlabsSame, item_id, Stamped
<1>12. ~item_is_slabbed(h, it) => ~item_is_slabbed(g3, it)
  <2>1. h.flags \in [Item -> SUBSET ItemFlag]
    BY DEF HeapOK, HeapType
  <2> QED
    BY <1>1, <1>3, <1>5, <1>7, <2>1 DEF item_is_slabbed
<1>13. ok /\ h.hash[k] = NoItem => m.failed = h.failed
  BY <1>2, <1>3, <1>5, <1>7, <1>10, <1>12 DEF Stamped
<1>14. HdrSame(h, m) /\ m.item_lruq = Queued(h, it)
  BY <1>3, <1>5, <1>7, <1>10, <1>11 DEF HdrSame, Stamped, Queued
<1> QED
  BY <1>1, <1>3, <1>5, <1>7, <1>10, <1>11, <1>13, <1>14 DEF m, k, Linked, Stamped

\* Linking a referenced item under a key that no linked item has.
LEMMA LinkSound ==
    ASSUME NEW h, Sound(h, {}), NEW it \in Item, h.refcount[it] > 0,
           ~item_is_linked(h, it), h.hash[h.hdr[it].key] = NoItem, now \in Nat
    PROVE  /\ Sound(item_link(h, it), {})
           /\ Keeps(h, item_link(h, it), {it})
           /\ item_link(h, it).failed = h.failed
           /\ item_is_linked(item_link(h, it), it)
<1> DEFINE m == item_link(h, it)
           k == h.hdr[it].key
           id == item_id(h, it)
<1>1. HeapOK(h) /\ NoDup(h.slab_lruq) /\ Elems(h.slab_lruq) = 1..h.nslab
  BY DEF Sound, SlabsOK
<1>2. Chunk(h, it) /\ ~Unused(h, it) /\ id \in Class /\ it \in Live(h)
  BY InUse
<1>3. ~item_is_slabbed(h, it) /\ k \in Key
  BY CountTypes DEF Sound, ItemOK
<1>4. HeapOK(m)
  BY <1>1, <1>2, LinkQuiet DEF Quiet
<1>a. Linked(h, m, it)
  BY <1>1, <1>2, LinkFields
<1> HIDE DEF m
<1>5. /\ SlabsSame(h, m)
      /\ m.flags = [h.flags EXCEPT ![it] = h.flags[it] \cup {"LINKED"}]
      /\ m.refcount = h.refcount
      /\ m.free_item = h.free_item /\ m.free_itemq = h.free_itemq
      /\ m.item_lruq = [h.item_lruq EXCEPT ![id] = Append(h.item_lruq[id], it)]
      /\ m.hash = [h.hash EXCEPT ![k] = it]
      /\ m.failed = h.failed
      /\ \A x \in Item : /\ m.hdr[x].key = h.hdr[x].key
                         /\ m.hdr[x].exptime = h.hdr[x].exptime
  BY <1>3, <1>a DEF Linked, Queued, HdrSame
<1> HIDE DEF m, k, id
<1>6. /\ h.flags \in [Item -> SUBSET ItemFlag] /\ h.hash \in [MaybeKey -> MaybeItem]
      /\ k \in MaybeKey
  BY <1>1, <1>3 DEF HeapOK, HeapType, MaybeKey
<1>7. /\ \A x : Unused(m, x) <=> Unused(h, x)
      /\ CurrentOK(m)
  BY <1>5 DEF Unused, CurrentOK, Sound, SlabsSame
<1>8. item_is_linked(m, it) /\ ~item_is_slabbed(m, it)
  BY <1>3, <1>5, <1>6 DEF item_is_linked, item_is_slabbed
<1>9. OthersSame(h, m, it)
  BY <1>5, <1>6, <1>7 DEF OthersSame
<1>10. Requeued(h.item_lruq, m.item_lruq, it, id, item_is_linked(m, it))
  <2>1. /\ h.item_lruq \in [Class -> Seq(Item)]
        /\ \A c \in Class : NoDup(h.item_lruq[c]) /\ it \notin Elems(h.item_lruq[c])
    BY SoundQueues
  <2>2. Requeued(h.item_lruq, m.item_lruq, it, id, TRUE)
    BY <1>2, <1>5, <2>1, QueueAdd
  <2> QED
    BY <1>8, <2>2 DEF Requeued
<1>11. Requeued(h.free_itemq, m.free_itemq, it, id, item_is_slabbed(m, it))
  BY <1>3, <1>5, <1>8, SoundQueues, QueueSame
<1>12. Rehashed(h, m, it)
  <2>1. m.hdr[it].key = k
    BY <1>5 DEF k
  <2>2. h.hash[k] = NoItem
    BY DEF k
  <2>3. \A j \in MaybeKey : h.hash[j] # it
    <3>1. it # NoItem
      BY SlabAssumption
    <3> QED
      BY <3>1 DEF Sound, HashOK, MaybeKey
  <2> QED
    BY <1>3, <1>5, <1>6, <1>8, <2>1, <2>2, <2>3 DEF Rehashed
<1>13. ~InHand(m, it)
  BY <1>8 DEF InHand
<1>14. m.refcount[it] > 0 => m.hdr[it].key \in Key
  BY <1>3, <1>5 DEF k
<1>15. Sound(m, {})
  <2>1. Sound(m, {} \ {it})
    BY <1>2, <1>4, <1>5, <1>7, <1>8, <1>9, <1>10, <1>11, <1>12, <1>13, <1>14, OneItem DEF id
  <2> QED
    BY <2>1
<1>16. Keeps(h, m, {it})
  BY <1>5, <1>6 DEF Keeps, SlabsSame, item_id
<1> QED
  BY <1>5, <1>8, <1>15, <1>16 DEF m

-----------------------------------------------------------------------------
\* The hash never finds an item that is not linked.
LEMMA HashNot ==
    ASSUME NEW h, NEW X, Sound(h, X), NEW it \in Item, ~item_is_linked(h, it)
    PROVE  \A k \in MaybeKey : h.hash[k] # it
<1>1. it # NoItem
  BY SlabAssumption
<1> QED
  BY <1>1 DEF Sound, HashOK, MaybeKey

\* What both item_unlink and item_reuse do: the flag is cleared, and the item
\* leaves hash and lruq.
DropLink(h, it) ==
    item_unlink_q(assoc_delete([h EXCEPT !.flags[it] = @ \ {"LINKED"}], h.hdr[it].key), it)

\* What that does to the fields of the memory.
Unlinked(h, m, it) ==
    /\ m.slab_class = h.slab_class /\ m.nslab = h.nslab /\ m.slab_lruq = h.slab_lruq
    /\ m.flags = [h.flags EXCEPT ![it] = h.flags[it] \ {"LINKED"}]
    /\ m.refcount = h.refcount /\ m.hdr = h.hdr
    /\ m.free_item = h.free_item /\ m.free_itemq = h.free_itemq
    /\ m.item_lruq = [h.item_lruq EXCEPT ![item_id(h, it)] =
                         Without(h.item_lruq[item_id(h, it)], {it})]
    /\ m.hash = [h.hash EXCEPT ![h.hdr[it].key] = NoItem]
    /\ h.hash[h.hdr[it].key] # NoItem => m.failed = h.failed

\* DropLink changes just these fields.
LEMMA DropFields ==
    ASSUME NEW h, HeapOK(h), NEW it \in Item
    PROVE  HeapOK(DropLink(h, it)) /\ Unlinked(h, DropLink(h, it), it)
<1> DEFINE k == h.hdr[it].key
           g1 == [h EXCEPT !.flags[it] = @ \ {"LINKED"}]
           g2 == assoc_delete(g1, k)
           m == DropLink(h, it)
<1>1. HeapOK(g1)
  <2>1. h.flags[it] \ {"LINKED"} \in SUBSET ItemFlag
    BY HdrFields
  <2> QED
    BY <2>1, FlagsQuiet DEF Quiet
<1>2. /\ g1.flags = [h.flags EXCEPT ![it] = h.flags[it] \ {"LINKED"}]
      /\ g1.slab_class = h.slab_class /\ g1.nslab = h.nslab /\ g1.slab_lruq = h.slab_lruq
      /\ g1.refcount = h.refcount /\ g1.hdr = h.hdr
      /\ g1.free_item = h.free_item /\ g1.free_itemq = h.free_itemq
      /\ g1.item_lruq = h.item_lruq /\ g1.hash = h.hash /\ g1.failed = h.failed
  BY DEF HeapOK, HeapType
<1> HIDE DEF g1, k
<1>3. HeapOK(g2)
  BY <1>1, DeleteQuiet DEF Quiet
<1>4. /\ g2.flags = g1.flags
      /\ g2.slab_class = g1.slab_class /\ g2.nslab = g1.nslab /\ g2.slab_lruq = g1.slab_lruq
      /\ g2.refcount = g1.refcount /\ g2.hdr = g1.hdr
      /\ g2.free_item = g1.free_item /\ g2.free_itemq = g1.free_itemq
      /\ g2.item_lruq = g1.item_lruq /\ g2.hash = [g1.hash EXCEPT ![k] = NoItem]
      /\ g1.hash[k] # NoItem => g2.failed = g1.failed
  BY <1>1 DEF assoc_delete, Check, HeapOK, HeapType
<1> HIDE DEF g2
<1>5. m = item_unlink_q(g2, it)
  BY DEF DropLink, g2, g1, k
<1>6. HeapOK(m)
  BY <1>3, <1>5, UnlinkQQuiet DEF Quiet
<1> HIDE DEF m
<1>7. item_id(g2, it) = item_id(h, it)
  BY <1>2, <1>4 DEF item_id
<1>8. /\ m.flags = g2.flags
      /\ m.slab_class = g2.slab_class /\ m.nslab = g2.nslab /\ m.slab_lruq = g2.slab_lruq
      /\ m.refcount = g2.refcount /\ m.hdr = g2.hdr
      /\ m.free_item = g2.free_item /\ m.free_itemq = g2.free_itemq
      /\ m.item_lruq = [g2.item_lruq EXCEPT ![item_id(h, it)] =
                           Without(g2.item_lruq[item_id(h, it)], {it})]
      /\ m.hash = g2.hash /\ m.failed = g2.failed
  BY <1>3, <1>5, <1>7 DEF item_unlink_q, HeapOK, HeapType
<1>9. Unlinked(h, m, it)
  BY <1>2, <1>4, <1>8 DEF Unlinked, k
<1> QED
  BY <1>6, <1>9 DEF m

\* Unlinking an item: it is in the hands of the caller if it has no reference.
LEMMA DropSound ==
    ASSUME NEW h, Sound(h, {}), NEW it \in Item, item_is_linked(h, it),
           NEW m, HeapOK(m), Unlinked(h, m, it)
    PROVE  /\ Sound(m, IF h.refcount[it] = 0 THEN {it} ELSE {})
           /\ Keeps(h, m, {})
           /\ m.failed = h.failed
<1> DEFINE id == item_id(h, it)
           k == h.hdr[it].key
<1>1. Chunk(h, it) /\ ~Unused(h, it) /\ id \in Class
  BY InUse
<1>2. /\ h.hash[k] = it /\ k \in Key /\ it # NoItem
      /\ ~item_is_slabbed(h, it)
  BY SlabAssumption DEF Sound, HashOK, ItemOK
<1>3. SlabsSame(h, m)
  BY DEF Unlinked, SlabsSame, Sound, SlabsOK
<1>4. h.flags \in [Item -> SUBSET ItemFlag] /\ h.hash \in [MaybeKey -> MaybeItem]
  BY DEF Sound, HeapOK, HeapType
<1>5. ~item_is_linked(m, it) /\ ~item_is_slabbed(m, it)
  BY <1>2, <1>4 DEF Unlinked, item_is_linked, item_is_slabbed
<1>6. (\A x : Unused(m, x) <=> Unused(h, x)) /\ CurrentOK(m)
  BY DEF Unused, CurrentOK, Sound, Unlinked
<1>7. OthersSame(h, m, it)
  BY <1>4, <1>6 DEF OthersSame, Unlinked
<1>8. Requeued(h.item_lruq, m.item_lruq, it, id, item_is_linked(m, it))
  <2>1. /\ h.item_lruq \in [Class -> Seq(Item)]
        /\ \A c \in Class : NoDup(h.item_lruq[c])
        /\ \A c \in Class : c # id => it \notin Elems(h.item_lruq[c])
    BY SoundQueues
  <2>2. m.item_lruq = [h.item_lruq EXCEPT ![id] = Without(h.item_lruq[id], {it})]
    BY DEF Unlinked
  <2>3. Requeued(h.item_lruq, m.item_lruq, it, id, FALSE)
    BY <1>1, <2>1, <2>2, QueueDel
  <2> QED
    BY <1>5, <2>3 DEF Requeued
<1>9. Requeued(h.free_itemq, m.free_itemq, it, id, item_is_slabbed(m, it))
  BY <1>2, <1>5, SoundQueues, QueueSame DEF Unlinked
<1>10. Rehashed(h, m, it)
  <2>1. \A j \in MaybeKey : h.hash[j] = it => j = k
    BY <1>2 DEF Sound, HashOK, MaybeKey
  <2>2. m.hash = [h.hash EXCEPT ![k] = NoItem] /\ k \in MaybeKey
    BY <1>2 DEF Unlinked, MaybeKey
  <2> QED
    BY <1>2, <1>4, <1>5, <2>1, <2>2 DEF Rehashed
<1>11. m.refcount[it] > 0 => m.hdr[it].key \in Key
  BY <1>2 DEF Unlinked
<1>12. Sound(m, IF InHand(m, it) THEN {} \cup {it} ELSE {} \ {it})
  BY <1>1, <1>3, <1>5, <1>6, <1>7, <1>8, <1>9, <1>10, <1>11, OneItem
<1>13. InHand(m, it) <=> h.refcount[it] = 0
  BY <1>5 DEF InHand, Unlinked
<1>14. Sound(m, IF h.refcount[it] = 0 THEN {it} ELSE {})
  BY <1>12, <1>13
<1>15. Keeps(h, m, {})
  BY <1>4 DEF Keeps, Unlinked, item_id, item_is_linked
<1> QED
  BY <1>2, <1>14, <1>15 DEF Unlinked

\* What slab_put_item does to the fields of the memory.
Freed(h, m, it) ==
    /\ m.slab_class = h.slab_class /\ m.nslab = h.nslab /\ m.slab_lruq = h.slab_lruq
    /\ m.flags = [h.flags EXCEPT ![it] = (h.flags[it] \cup {"SLABBED"}) \ {"RALIGN"}]
    /\ m.refcount = h.refcount /\ m.hdr = [h.hdr EXCEPT ![it] = Blank]
    /\ m.free_item = h.free_item
    /\ m.free_itemq = [h.free_itemq EXCEPT ![item_id(h, it)] =
                          <<it>> \o h.free_itemq[item_id(h, it)]]
    /\ m.item_lruq = h.item_lruq
    /\ m.hash = h.hash

\* slab_put_item frees an item in the hands of its caller.
LEMMA PutSound ==
    ASSUME NEW h, NEW it, Sound(h, {it})
    PROVE  /\ Sound(slab_put_item(h, it), {})
           /\ Keeps(h, slab_put_item(h, it), {})
           /\ slab_put_item(h, it).failed = h.failed
           /\ Freed(h, slab_put_item(h, it), it)
<1> DEFINE id == item_id(h, it)
           ok == ~item_is_linked(h, it) /\ ~item_is_slabbed(h, it) /\ h.refcount[it] = 0
           m == slab_put_item(h, it)
<1>1. it \in Item /\ ok
  BY DEF Sound, Whereabouts
<1>2. Chunk(h, it) /\ ~Unused(h, it) /\ id \in Class /\ it \in Live(h)
  BY <1>1, InUse
<1>3. HeapOK(m)
  BY <1>2, PutQuiet DEF Quiet, Sound
<1>4. Freed(h, m, it) /\ m.failed = h.failed
  <2>1. h \in HeapType
    BY DEF Sound, HeapOK
  <2>2. Check(h, ok, "slab_put_item_into_freeq") = [h EXCEPT !.failed = h.failed]
    BY <1>1 DEF Check
  <2> DEFINE g == [h EXCEPT !.failed = h.failed]
  <2>3. m = [g EXCEPT !.flags[it] = (@ \cup {"SLABBED"}) \ {"RALIGN"},
                      !.hdr[it] = Blank,
                      !.free_itemq[id] = <<it>> \o @]
    BY <2>2 DEF slab_put_item
  <2> HIDE DEF m, id
  <2>4. Freed(h, m, it) <=>
            /\ m.slab_class = h.slab_class /\ m.nslab = h.nslab /\ m.slab_lruq = h.slab_lruq
            /\ m.flags = [h.flags EXCEPT ![it] = (h.flags[it] \cup {"SLABBED"}) \ {"RALIGN"}]
            /\ m.refcount = h.refcount /\ m.hdr = [h.hdr EXCEPT ![it] = Blank]
            /\ m.free_item = h.free_item
            /\ m.free_itemq = [h.free_itemq EXCEPT ![id] = <<it>> \o h.free_itemq[id]]
            /\ m.item_lruq = h.item_lruq
            /\ m.hash = h.hash
    BY DEF Freed, id
  <2> QED
    BY <2>1, <2>3, <2>4 DEF HeapType
<1> HIDE DEF m
<1>5. SlabsSame(h, m)
  BY <1>4 DEF Freed, SlabsSame, Sound, SlabsOK
<1>6. h.flags \in [Item -> SUBSET ItemFlag] /\ h.hdr \in [Item -> ItemHdr]
  BY DEF Sound, HeapOK, HeapType
<1>7. ~item_is_linked(m, it) /\ item_is_slabbed(m, it) /\ m.refcount[it] = 0
  BY <1>1, <1>4, <1>6 DEF Freed, item_is_linked, item_is_slabbed
<1>8. (\A x : Unused(m, x) <=> Unused(h, x)) /\ CurrentOK(m)
  BY <1>4 DEF Unused, CurrentOK, Sound, Freed
<1>9. OthersSame(h, m, it)
  BY <1>1, <1>4, <1>6, <1>8 DEF OthersSame, Freed
<1>10. Requeued(h.item_lruq, m.item_lruq, it, id, item_is_linked(m, it))
  BY <1>1, <1>4, <1>7, SoundQueues, QueueSame DEF Freed
<1>11. Requeued(h.free_itemq, m.free_itemq, it, id, item_is_slabbed(m, it))
  <2>1. /\ h.free_itemq \in [Class -> Seq(Item)]
        /\ \A c \in Class : NoDup(h.free_itemq[c])
        /\ \A c \in Class : it \notin Elems(h.free_itemq[c])
    BY <1>1, SoundQueues
  <2>2. m.free_itemq = [h.free_itemq EXCEPT ![id] = <<it>> \o h.free_itemq[id]]
    BY <1>4 DEF Freed
  <2>3. Requeued(h.free_itemq, m.free_itemq, it, id, TRUE)
    BY <1>1, <1>2, <2>1, <2>2, QueueAdd
  <2> QED
    BY <1>7, <2>3 DEF Requeued
<1>12. Rehashed(h, m, it)
  BY <1>1, <1>4, <1>7, HashNot DEF Rehashed, Freed
<1>13. Sound(m, IF InHand(m, it) THEN {it} \cup {it} ELSE {it} \ {it})
  <2>1. m.refcount[it] > 0 => m.hdr[it].key \in Key
    BY <1>7
  <2>2. item_is_slabbed(m, it) => m.refcount[it] = 0 /\ ~item_is_linked(m, it)
    BY <1>7
  <2>3. ~Unused(m, it)
    BY <1>2, <1>8
  <2> QED
    BY <1>1, <1>2, <1>3, <1>5, <1>8, <1>9, <1>10, <1>11, <1>12, <2>1, <2>2, <2>3, OneItem
<1>14. Sound(m, {})
  BY <1>7, <1>13 DEF InHand
<1>15. Keeps(h, m, {})
  BY <1>1, <1>4, <1>6 DEF Keeps, Freed, item_id
<1> QED
  BY <1>4, <1>14, <1>15 DEF m
-----------------------------------------------------------------------------
\* What is referenced in h is untouched in m.
Spares(h, m) ==
    \A x \in Item : h.refcount[x] > 0 => /\ m.flags[x] = h.flags[x]
                                         /\ m.hdr[x] = h.hdr[x]
                                         /\ item_id(m, x) = item_id(h, x)

\* The fields soundness reads are the same.
Same(h, m) ==
    /\ m.flags = h.flags /\ m.refcount = h.refcount /\ m.hdr = h.hdr
    /\ m.slab_class = h.slab_class /\ m.nslab = h.nslab /\ m.slab_lruq = h.slab_lruq
    /\ m.free_item = h.free_item /\ m.free_itemq = h.free_itemq
    /\ m.item_lruq = h.item_lruq /\ m.hash = h.hash

\* What is spared is kept.
LEMMA SparesKeeps ==
    ASSUME NEW h, NEW m, Spares(h, m), NEW T
    PROVE  Keeps(h, m, T)
  BY DEF Spares, Keeps

\* Two operations keep what each keeps, if what is referenced in the end was
\* so in between.
LEMMA KeepsTrans ==
    ASSUME NEW h, NEW g, NEW m, NEW T, Keeps(h, g, T), Keeps(g, m, T),
           \A x \in Item : h.refcount[x] > 0 /\ m.refcount[x] > 0 => g.refcount[x] > 0
    PROVE  Keeps(h, m, T)
  BY DEF Keeps, item_is_linked

\* Fewer exceptions are more kept.
LEMMA KeepsMore ==
    ASSUME NEW h, NEW m, NEW T, Keeps(h, m, {})
    PROVE  Keeps(h, m, T)
  BY DEF Keeps

\* An ASSERT of the code leaves all of that alone.
LEMMA CheckSame ==
    ASSUME NEW h, HeapOK(h), NEW ok, NEW name \in AssertName
    PROVE  /\ HeapOK(Check(h, ok, name)) /\ Same(h, Check(h, ok, name))
           /\ ok => Check(h, ok, name) = h
<1>1. HeapOK(Check(h, ok, name))
  BY CheckQuiet DEF Quiet
<1>2. Same(h, Check(h, ok, name))
  BY DEF Check, HeapOK, HeapType, Same
<1>3. ok => Check(h, ok, name) = h
  BY DEF Check, HeapOK, HeapType
<1> QED
  BY <1>1, <1>2, <1>3

\* An item other than it, and the slabs, are as they were.
Apart(h, m, it) ==
    /\ m.slab_class = h.slab_class
    /\ \A x \in Item : x # it => m.flags[x] = h.flags[x] /\ m.hdr[x] = h.hdr[x]

\* item_unlink of a linked item: its key is free afterwards.
LEMMA UnlinkSound ==
    ASSUME NEW h, Sound(h, {}), NEW it \in Item, item_is_linked(h, it)
    PROVE  LET m == item_unlink(h, it)
           IN  /\ Sound(m, {}) /\ Keeps(h, m, {}) /\ m.failed = h.failed
               /\ m.refcount = h.refcount
               /\ m.hash[h.hdr[it].key] = NoItem
               /\ Apart(h, m, it)
<1> DEFINE g == DropLink(h, it)
           m == item_unlink(h, it)
           k == h.hdr[it].key
<1>1. HeapOK(h) /\ k \in MaybeKey
  BY DEF Sound, HashOK, MaybeKey
<1>2. HeapOK(g) /\ Unlinked(h, g, it)
  BY <1>1, DropFields
<1>3. m = IF h.refcount[it] = 0 THEN slab_put_item(g, it) ELSE g
  BY DEF item_unlink, DropLink
<1> HIDE DEF g
<1>4. /\ Sound(g, IF h.refcount[it] = 0 THEN {it} ELSE {})
      /\ Keeps(h, g, {}) /\ g.failed = h.failed
  BY <1>2, DropSound
<1>5. /\ g.refcount = h.refcount /\ g.slab_class = h.slab_class /\ g.hdr = h.hdr
      /\ \A x \in Item : x # it => g.flags[x] = h.flags[x]
      /\ g.hash[k] = NoItem
  <2>1. h.flags \in [Item -> SUBSET ItemFlag] /\ h.hash \in [MaybeKey -> MaybeItem]
    BY <1>1 DEF HeapOK, HeapType
  <2> QED
    BY <1>1, <1>2, <2>1 DEF Unlinked
<1> HIDE DEF m
<1>6. CASE h.refcount[it] # 0
  <2>1. m = g /\ Sound(g, {})
    BY <1>3, <1>4, <1>6
  <2> QED
    BY <1>4, <1>5, <2>1 DEF Apart, m, k
<1>7. CASE h.refcount[it] = 0
  <2>1. m = slab_put_item(g, it) /\ Sound(g, {it})
    BY <1>3, <1>4, <1>7
  <2>2. /\ Sound(m, {}) /\ Keeps(g, m, {}) /\ m.failed = g.failed /\ Freed(g, m, it)
    BY <2>1, PutSound
  <2>3. Keeps(h, m, {})
    BY <1>4, <1>5, <2>2, KeepsTrans
  <2>4. /\ m.refcount = g.refcount /\ m.slab_class = g.slab_class /\ m.hash = g.hash
        /\ \A x \in Item : x # it => m.flags[x] = g.flags[x] /\ m.hdr[x] = g.hdr[x]
    <3>1. g.flags \in [Item -> SUBSET ItemFlag] /\ g.hdr \in [Item -> ItemHdr]
      BY <1>2 DEF HeapOK, HeapType
    <3> QED
      BY <2>2, <3>1 DEF Freed
  <2> QED
    BY <1>4, <1>5, <2>2, <2>3, <2>4 DEF Apart, m, k
<1> QED
  BY <1>6, <1>7

\* item_reuse leaves an unreferenced item in the hands of its caller.
LEMMA ReuseSound ==
    ASSUME NEW h, Sound(h, {}), NEW it \in Item, item_is_linked(h, it), h.refcount[it] = 0
    PROVE  LET m == item_reuse(h, it)
           IN  /\ Sound(m, {it}) /\ Spares(h, m) /\ m.failed = h.failed
               /\ item_id(m, it) = item_id(h, it)
<1> DEFINE ok == ~item_is_slabbed(h, it) /\ item_is_linked(h, it) /\ h.refcount[it] = 0
           m == item_reuse(h, it)
<1>1. HeapOK(h) /\ ok
  BY DEF Sound, ItemOK
<1>2. Check(h, ok, "item_reuse") = h
  BY <1>1, CheckSame DEF AssertName
<1>3. m = DropLink(h, it)
  BY <1>2 DEF item_reuse, DropLink
<1> HIDE DEF m
<1>4. HeapOK(m) /\ Unlinked(h, m, it)
  BY <1>1, <1>3, DropFields
<1>5. Sound(m, {it}) /\ m.failed = h.failed
  BY <1>4, DropSound
<1>6. h.flags \in [Item -> SUBSET ItemFlag]
  BY <1>1 DEF HeapOK, HeapType
<1>7. Spares(h, m)
  BY <1>4, <1>6 DEF Unlinked, Spares, item_id
<1>8. item_id(m, it) = item_id(h, it)
  BY <1>4 DEF Unlinked, item_id
<1> QED
  BY <1>5, <1>7, <1>8 DEF m

-----------------------------------------------------------------------------
\* Only the count of it changes.
Recounted(h, m, it) ==
    /\ m.flags = h.flags /\ m.hdr = h.hdr
    /\ m.slab_class = h.slab_class /\ m.nslab = h.nslab /\ m.slab_lruq = h.slab_lruq
    /\ m.free_item = h.free_item /\ m.free_itemq = h.free_itemq
    /\ m.item_lruq = h.item_lruq /\ m.hash = h.hash
    /\ \A x \in Item : x # it => m.refcount[x] = h.refcount[x]

\* A new count for an item in use; without a link or a reference the item is
\* in the hands of the caller.
LEMMA RecountSound ==
    ASSUME NEW h, Sound(h, {}), NEW it \in Item, item_is_linked(h, it) \/ h.refcount[it] > 0,
           NEW m, HeapOK(m), Recounted(h, m, it)
    PROVE  /\ Sound(m, IF m.refcount[it] = 0 /\ ~item_is_linked(h, it) THEN {it} ELSE {})
           /\ Keeps(h, m, {})
<1> DEFINE id == item_id(h, it)
<1>1. Chunk(h, it) /\ ~Unused(h, it) /\ id \in Class
  BY InUse
<1>2. ~item_is_slabbed(h, it) /\ h.hdr[it].key \in Key
  BY CountTypes DEF Sound, ItemOK, HashOK
<1>3. SlabsSame(h, m)
  BY DEF Recounted, SlabsSame, Sound, SlabsOK
<1>4. /\ item_is_linked(m, it) <=> item_is_linked(h, it)
      /\ ~item_is_slabbed(m, it)
      /\ m.hdr[it].key \in Key
  BY <1>2 DEF Recounted, item_is_linked, item_is_slabbed
<1>5. (\A x : Unused(m, x) <=> Unused(h, x)) /\ CurrentOK(m)
  BY DEF Unused, CurrentOK, Sound, Recounted
<1>6. OthersSame(h, m, it)
  BY <1>5 DEF OthersSame, Recounted
<1>7. Requeued(h.item_lruq, m.item_lruq, it, id, item_is_linked(m, it))
  BY <1>4, SoundQueues, QueueSame DEF Recounted
<1>8. Requeued(h.free_itemq, m.free_itemq, it, id, item_is_slabbed(m, it))
  BY <1>2, <1>4, SoundQueues, QueueSame DEF Recounted
<1>9. Rehashed(h, m, it)
  <2>1. CASE item_is_linked(h, it)
    <3>1. h.hash[h.hdr[it].key] = it
      BY <2>1 DEF Sound, HashOK
    <3>2. \A j \in MaybeKey : h.hash[j] = it => j = h.hdr[it].key
      <4>1. it # NoItem
        BY SlabAssumption
      <4> QED
        BY <4>1 DEF Sound, HashOK, MaybeKey
    <3> QED
      BY <1>2, <1>4, <2>1, <3>1, <3>2 DEF Rehashed, Recounted
  <2>2. CASE ~item_is_linked(h, it)
    BY <1>4, <2>2, HashNot DEF Rehashed, Recounted
  <2> QED
    BY <2>1, <2>2
<1>10. Sound(m, IF InHand(m, it) THEN {} \cup {it} ELSE {} \ {it})
  <2>1. ~Unused(m, it)
    BY <1>1, <1>5
  <2> QED
    BY <1>1, <1>3, <1>4, <1>5, <1>6, <1>7, <1>8, <1>9, <2>1, OneItem
<1>11. InHand(m, it) <=> m.refcount[it] = 0 /\ ~item_is_linked(h, it)
  BY <1>4 DEF InHand
<1>12. Keeps(h, m, {})
  BY DEF Keeps, Recounted, item_id
<1>13. Sound(m, IF m.refcount[it] = 0 /\ ~item_is_linked(h, it) THEN {it} ELSE {})
  BY <1>10, <1>11
<1> QED
  BY <1>12, <1>13

\* item_acquire_refcount of a linked item.
LEMMA AcquireSound ==
    ASSUME NEW h, Sound(h, {}), NEW it \in Item, item_is_linked(h, it), Room(h, 1)
    PROVE  LET m == item_acquire_refcount(h, it)
           IN  /\ Sound(m, {}) /\ Keeps(h, m, {}) /\ m.failed = h.failed
               /\ Recounted(h, m, it) /\ m.refcount[it] > 0
<1> DEFINE m == item_acquire_refcount(h, it)
<1>1. HeapOK(h) /\ h \in HeapType /\ it \in Live(h)
  BY InUse DEF Sound, HeapOK
<1>2. Plus(h, m, it)
  BY <1>1, AcquirePlus
<1>3. HeapOK(m) /\ m.refcount = [h.refcount EXCEPT ![it] = @ + 1]
  BY <1>2 DEF Plus
<1>4. h.refcount \in [Item -> Nat]
  BY <1>1, CountTypes
<1>5. Recounted(h, m, it) /\ m.failed = h.failed
  <2>1. \A x \in Item : x # it => m.refcount[x] = h.refcount[x]
    BY <1>3, <1>4
  <2>2. /\ m.flags = h.flags /\ m.hdr = h.hdr /\ m.failed = h.failed
        /\ m.slab_class = h.slab_class /\ m.nslab = h.nslab /\ m.slab_lruq = h.slab_lruq
        /\ m.free_item = h.free_item /\ m.free_itemq = h.free_itemq
        /\ m.item_lruq = h.item_lruq /\ m.hash = h.hash
    BY <1>1 DEF item_acquire_refcount, slab_acquire_refcount, HeapType
  <2> HIDE DEF m
  <2> QED
    BY <2>1, <2>2 DEF Recounted
<1> HIDE DEF m
<1>6. Sound(m, {}) /\ Keeps(h, m, {})
  BY <1>3, <1>5, RecountSound
<1>7. m.refcount[it] > 0
  BY <1>3, <1>4
<1> QED
  BY <1>5, <1>6, <1>7 DEF m
\* item_remove of a referenced item releases the reference, and frees the
\* item if it was the last one and the item is not linked.
LEMMA RemoveSound ==
    ASSUME NEW h, Sound(h, {}), CountsOK(h), NEW it \in Item, h.refcount[it] > 0
    PROVE  LET m == item_remove(h, it)
           IN  Sound(m, {}) /\ Keeps(h, m, {}) /\ m.failed = h.failed
<1> DEFINE g == item_release_refcount(h, it)
           m == item_remove(h, it)
<1>1. HeapOK(h) /\ h \in HeapType /\ it \in Live(h) /\ ~item_is_slabbed(h, it)
  BY InUse, CountTypes DEF Sound, HeapOK, ItemOK
<1>2. h.refcount \in [Item -> Nat] /\ h.slab_refcount \in [Slab -> Nat] /\ it[1] \in Slab
  BY <1>1, CountTypes, LiveNotNoItem
<1>3. h.slab_refcount[it[1]] > 0
  BY <1>2 DEF CountsOK
<1>4. Check(h, ~item_is_slabbed(h, it), "item_remove") = h
  BY <1>1, CheckSame DEF AssertName
<1>5. Minus(h, g, it)
  BY <1>1, <1>3, ReleaseMinus
<1>6. HeapOK(g) /\ g.refcount = [h.refcount EXCEPT ![it] = @ - 1]
  BY <1>5 DEF Minus
<1>7. Recounted(h, g, it) /\ g.failed = h.failed
  <2> DEFINE a == Check(h, h.refcount[it] > 0, "item_release_refcount")
             b == [a EXCEPT !.refcount[it] = @ - 1]
  <2>1. a = h
    BY <1>1, CheckSame DEF AssertName
  <2>2. b = [h EXCEPT !.refcount[it] = h.refcount[it] - 1]
    BY <2>1
  <2>3. /\ b.flags = h.flags /\ b.hdr = h.hdr /\ b.failed = h.failed
        /\ b.slab_class = h.slab_class /\ b.nslab = h.nslab /\ b.slab_lruq = h.slab_lruq
        /\ b.free_item = h.free_item /\ b.free_itemq = h.free_itemq
        /\ b.item_lruq = h.item_lruq /\ b.hash = h.hash
        /\ b.slab_refcount = h.slab_refcount
    BY <1>1, <2>2 DEF HeapType
  <2>4. g = slab_release_refcount(b, it[1])
    BY DEF item_release_refcount, item_2_slab
  <2>5. b.slab_refcount[it[1]] > 0
    BY <1>3, <2>3
  <2> HIDE DEF b
  <2>6. /\ g.flags = b.flags /\ g.hdr = b.hdr /\ g.failed = b.failed
        /\ g.slab_class = b.slab_class /\ g.nslab = b.nslab /\ g.slab_lruq = b.slab_lruq
        /\ g.free_item = b.free_item /\ g.free_itemq = b.free_itemq
        /\ g.item_lruq = b.item_lruq /\ g.hash = b.hash
    <3>1. b = [h EXCEPT !.refcount = [h.refcount EXCEPT ![it] = h.refcount[it] - 1]]
      BY <2>2
    <3> HIDE DEF g
    <3> QED
      BY <1>1, <2>4, <2>5, <3>1 DEF slab_release_refcount, Check, HeapType
  <2>7. \A x \in Item : x # it => g.refcount[x] = h.refcount[x]
    BY <1>2, <1>6
  <2> HIDE DEF g
  <2> QED
    BY <2>3, <2>6, <2>7 DEF Recounted
<1>8. m = IF g.refcount[it] = 0 /\ ~item_is_linked(g, it) THEN slab_put_item(g, it) ELSE g
  BY <1>4 DEF item_remove
<1> HIDE DEF g, m
<1>9. /\ Sound(g, IF g.refcount[it] = 0 /\ ~item_is_linked(h, it) THEN {it} ELSE {})
      /\ Keeps(h, g, {})
      /\ item_is_linked(g, it) <=> item_is_linked(h, it)
  BY <1>6, <1>7, RecountSound DEF Recounted, item_is_linked
<1>10. CASE g.refcount[it] = 0 /\ ~item_is_linked(g, it)
  <2>1. /\ Sound(m, {}) /\ Keeps(g, m, {}) /\ m.failed = g.failed /\ Freed(g, m, it)
    BY <1>8, <1>9, <1>10, PutSound
  <2>2. \A x \in Item : h.refcount[x] > 0 /\ m.refcount[x] > 0 => g.refcount[x] > 0
    BY <2>1 DEF Freed
  <2>3. Keeps(h, m, {})
    BY <1>9, <2>1, <2>2, KeepsTrans
  <2> QED
    BY <1>7, <2>1, <2>3 DEF m
<1>11. CASE ~(g.refcount[it] = 0 /\ ~item_is_linked(g, it))
  BY <1>7, <1>8, <1>9, <1>11 DEF m
<1> QED
  BY <1>10, <1>11

\* item_touch moves an item in use to the tail of its lruq.
LEMMA TouchSound ==
    ASSUME NEW h, Sound(h, {}), NEW it \in Item, h.refcount[it] > 0, now \in Nat
    PROVE  LET m == item_touch(h, it)
           IN  Sound(m, {}) /\ Keeps(h, m, {}) /\ m.failed = h.failed
<1> DEFINE g == item_unlink_q(h, it)
           m == item_touch(h, it)
           id == item_id(h, it)
           k == h.hdr[it].key
<1>1. /\ HeapOK(h) /\ it \in Live(h) /\ ~item_is_slabbed(h, it)
      /\ Chunk(h, it) /\ ~Unused(h, it) /\ id \in Class
  BY InUse, CountTypes DEF Sound, ItemOK
<1>2. Check(h, ~item_is_slabbed(h, it), "item_touch") = h
  BY <1>1, CheckSame DEF AssertName
<1>3. CASE m = h
  BY <1>3 DEF Keeps
<1>4. CASE m # h
  <2>1. item_is_linked(h, it) /\ m = item_link_q(g, it, FALSE)
    BY <1>2, <1>4 DEF item_touch
  <2>2. HeapOK(m)
    BY <1>1, TouchQuiet DEF Quiet
  <2> HIDE DEF m
  <2>3. HeapOK(g)
    BY <1>1, UnlinkQQuiet DEF Quiet
  <2>4. /\ g.slab_class = h.slab_class /\ g.nslab = h.nslab /\ g.slab_lruq = h.slab_lruq
        /\ g.flags = h.flags /\ g.refcount = h.refcount /\ g.hdr = h.hdr
        /\ g.free_item = h.free_item /\ g.free_itemq = h.free_itemq
        /\ g.item_lruq = [h.item_lruq EXCEPT ![id] = Without(h.item_lruq[id], {it})]
        /\ g.hash = h.hash /\ g.failed = h.failed
    BY <1>1 DEF item_unlink_q, HeapOK, HeapType
  <2> HIDE DEF g
  <2>5. /\ NoDup(g.slab_lruq) /\ Elems(g.slab_lruq) = 1..g.nslab
        /\ it \in Live(g) /\ item_id(g, it) = id
    BY <1>1, <2>4 DEF Sound, SlabsOK, Live, item_id
  <2>6. Stamped(g, m, it)
    BY <2>1, <2>3, <2>5, LinkQFields
  <2>7. /\ SlabsSame(h, m) /\ m.flags = h.flags /\ m.refcount = h.refcount
        /\ m.free_item = h.free_item /\ m.free_itemq = h.free_itemq
        /\ m.hash = h.hash /\ m.failed = h.failed
        /\ m.item_lruq = [g.item_lruq EXCEPT ![id] = Append(g.item_lruq[id], it)]
        /\ HdrSame(h, m)
    BY <1>1, <2>4, <2>5, <2>6 DEF Stamped, SlabsSame, HdrSame, Queued, item_is_slabbed
  <2>8. item_is_linked(m, it) /\ ~item_is_slabbed(m, it)
    BY <1>1, <2>1, <2>7 DEF item_is_linked, item_is_slabbed
  <2>9. (\A x : Unused(m, x) <=> Unused(h, x)) /\ CurrentOK(m)
    BY <2>7 DEF Unused, CurrentOK, Sound, SlabsSame
  <2>10. OthersSame(h, m, it)
    BY <2>7, <2>9 DEF OthersSame, HdrSame
  <2> HIDE DEF id
  <2>11. Requeued(h.item_lruq, m.item_lruq, it, id, item_is_linked(m, it))
    <3>1. /\ h.item_lruq \in [Class -> Seq(Item)]
          /\ \A c \in Class : NoDup(h.item_lruq[c])
          /\ \A c \in Class : c # id => it \notin Elems(h.item_lruq[c])
      BY SoundQueues DEF id
    <3>2. Requeued(h.item_lruq, g.item_lruq, it, id, FALSE)
      BY <1>1, <2>4, <3>1, QueueDel
    <3>3. /\ g.item_lruq \in [Class -> Seq(Item)]
          /\ \A c \in Class : NoDup(g.item_lruq[c]) /\ it \notin Elems(g.item_lruq[c])
      BY <2>3, <3>2 DEF Requeued, HeapOK, HeapType
    <3>4. Requeued(g.item_lruq, m.item_lruq, it, id, TRUE)
      BY <1>1, <2>7, <3>3, QueueAdd
    <3> QED
      BY <2>8, <3>2, <3>4 DEF Requeued
  <2>12. Requeued(h.free_itemq, m.free_itemq, it, id, item_is_slabbed(m, it))
    BY <1>1, <2>7, <2>8, SoundQueues, QueueSame
  <2>13. k \in Key /\ h.hash[k] = it /\ m.hdr[it].key = k
    BY <2>1, <2>7 DEF Sound, HashOK, HdrSame
  <2>14. Rehashed(h, m, it)
    <3>1. \A j \in MaybeKey : h.hash[j] = it => j = k
      <4>1. it # NoItem
        BY SlabAssumption
      <4> QED
        BY <4>1 DEF Sound, HashOK, MaybeKey
    <3> QED
      BY <2>7, <2>8, <2>13, <3>1 DEF Rehashed
  <2>15. Sound(m, IF InHand(m, it) THEN {} \cup {it} ELSE {} \ {it})
    <3>1. ~Unused(m, it)
      BY <1>1, <2>9
    <3> QED
      BY <1>1, <2>2, <2>7, <2>8, <2>9, <2>10, <2>11, <2>12, <2>13, <2>14, <3>1, OneItem DEF id
  <2>16. Sound(m, {})
    BY <2>8, <2>15 DEF InHand
  <2>17. Keeps(h, m, {})
    BY <2>7 DEF Keeps, HdrSame, SlabsSame, item_id
  <2> QED
    BY <2>7, <2>16, <2>17 DEF m
<1> QED
  BY <1>3, <1>4

\* An in-place change of a value only writes length and cas id.
LEMMA RewriteSound ==
    ASSUME NEW h, Sound(h, {}), NEW it \in Item, h.refcount[it] > 0, NEW n \in Nat
    PROVE  LET m == item_rewrite(h, it, n)
           IN  /\ Sound(m, {}) /\ Keeps(h, m, {}) /\ m.failed = h.failed
               /\ m.refcount = h.refcount
<1> DEFINE g == [h EXCEPT !.hdr[it].nbyte = n]
           m == item_rewrite(h, it, n)
<1>1. HeapOK(h) /\ h \in HeapType /\ it \in Live(h)
  BY InUse DEF Sound, HeapOK
<1>2. HeapOK(m)
  BY <1>1, RewriteQuiet DEF Quiet
<1>3. m = item_next_cas(g, it)
  BY DEF item_rewrite
<1> HIDE DEF m
<1>4. HeapOK(g)
  <2>1. [h.hdr[it] EXCEPT !.nbyte = n] \in ItemHdr
    BY <1>1, HdrFields
  <2> DEFINE g1 == [h EXCEPT !.hdr[it] = [h.hdr[it] EXCEPT !.nbyte = n]]
  <2>2. HeapOK(g1)
    BY <1>1, <2>1, HdrQuiet DEF Quiet
  <2>3. g = g1
    BY <1>1 DEF HeapType
  <2> QED
    BY <2>2, <2>3
<1>5. /\ g.slab_class = h.slab_class /\ g.nslab = h.nslab /\ g.slab_lruq = h.slab_lruq
      /\ g.flags = h.flags /\ g.refcount = h.refcount
      /\ g.free_item = h.free_item /\ g.free_itemq = h.free_itemq
      /\ g.item_lruq = h.item_lruq /\ g.hash = h.hash /\ g.failed = h.failed
      /\ g.hdr = [h.hdr EXCEPT ![it].nbyte = n]
  BY <1>1 DEF HeapType
<1>6. \A x \in Item : g.hdr[x].key = h.hdr[x].key /\ g.hdr[x].exptime = h.hdr[x].exptime
  <2>1. h.hdr \in [Item -> ItemHdr]
    BY <1>1 DEF HeapType
  <2> HIDE DEF g
  <2> QED
    BY <1>5, <2>1 DEF ItemHdr
<1> HIDE DEF g
<1>7. /\ m.slab_class = g.slab_class /\ m.nslab = g.nslab /\ m.slab_lruq = g.slab_lruq
      /\ m.flags = g.flags /\ m.refcount = g.refcount
      /\ m.free_item = g.free_item /\ m.free_itemq = g.free_itemq
      /\ m.item_lruq = g.item_lruq /\ m.hash = g.hash /\ m.failed = g.failed
      /\ \A x \in Item : /\ m.hdr[x].key = g.hdr[x].key
                         /\ m.hdr[x].exptime = g.hdr[x].exptime
  BY <1>3, <1>4, NextCasFields
<1>8. Sound(m, {})
  BY <1>2, <1>5, <1>6, <1>7, SameHeap
<1>9. Keeps(h, m, {})
  BY <1>5, <1>6, <1>7 DEF Keeps, item_id
<1> QED
  BY <1>5, <1>7, <1>8, <1>9 DEF m

\* item_get finds the linked item of a key and refers to it, or leaves the
\* key free: a dead item is unlinked.
LEMMA GetSound ==
    ASSUME NEW h, Sound(h, {}), Room(h, 1), NEW k \in Key
    PROVE  LET r == item_get(h, k)
           IN  /\ Sound(r.mem, {}) /\ Keeps(h, r.mem, {}) /\ r.mem.failed = h.failed
               /\ r.it = NoItem => r.mem.refcount = h.refcount /\ r.mem.hash[k] = NoItem
               /\ r.it # NoItem => /\ r.it \in Item /\ item_is_linked(h, r.it)
                                   /\ h.hdr[r.it].key = k
                                   /\ Recounted(h, r.mem, r.it) /\ r.mem.refcount[r.it] > 0
<1> DEFINE r == item_get(h, k)
           it == h.hash[k]
<1>1. CASE it = NoItem
  BY <1>1 DEF item_get, Keeps
<1>2. CASE it # NoItem
  <2>1. it \in Item /\ item_is_linked(h, it) /\ h.hdr[it].key = k
    BY <1>2, LiveItems DEF Sound, HashOK, HeapOK, MaybeKey
  <2>2. CASE item_dead(h, it)
    <3>1. r.mem = item_unlink(h, it) /\ r.it = NoItem
      BY <1>2, <2>2 DEF item_get
    <3> HIDE DEF r, it
    <3>2. /\ Sound(r.mem, {}) /\ Keeps(h, r.mem, {}) /\ r.mem.failed = h.failed
          /\ r.mem.refcount = h.refcount /\ r.mem.hash[k] = NoItem
      BY <2>1, <3>1, UnlinkSound
    <3> QED
      BY <3>1, <3>2 DEF r
  <2>3. CASE ~item_dead(h, it)
    <3>1. r.mem = item_acquire_refcount(h, it) /\ r.it = it
      BY <1>2, <2>3 DEF item_get
    <3> HIDE DEF r, it
    <3>2. /\ Sound(r.mem, {}) /\ Keeps(h, r.mem, {}) /\ r.mem.failed = h.failed
          /\ Recounted(h, r.mem, it) /\ r.mem.refcount[it] > 0
      BY <2>1, <3>1, AcquireSound
    <3> QED
      BY <1>2, <2>1, <3>1, <3>2 DEF r
  <2> QED
    BY <2>2, <2>3
<1> QED
  BY <1>1, <1>2
-----------------------------------------------------------------------------
(***************************************************************************)
(* Allocation.  It never touches what is referenced: Spares.               *)
(***************************************************************************)

\* The head of a free queue comes into the hands of the caller.
LEMMA FreeqSound ==
    ASSUME NEW h, Sound(h, {}), NEW id \in Class, h.free_itemq[id] # << >>
    PROVE  LET r == slab_get_item_from_freeq(h, id)
           IN  /\ r.it \in Item /\ Sound(r.mem, {r.it}) /\ Spares(h, r.mem)
               /\ r.mem.failed = h.failed /\ item_id(r.mem, r.it) = id
<1> DEFINE q == h.free_itemq[id]
           it == Head(q)
           ok == item_is_slabbed(h, it) /\ ~item_is_linked(h, it)
           m == slab_get_item_from_freeq(h, id).mem
<1>1. h \in HeapType /\ HeapOK(h) /\ h.free_itemq \in [Class -> Seq(Item)]
  BY DEF Sound, HeapOK, HeapType
<1>2. q \in Seq(Item)
  BY <1>1
<1>3. it \in Item /\ it \in Elems(q)
  <2> HIDE DEF q
  <2> QED
    BY <1>2, TailElems DEF q
<1>4. item_is_slabbed(h, it) /\ item_id(h, it) = id
  BY <1>3 DEF Sound, FreeqOK
<1>5. ok /\ h.refcount[it] = 0
  BY <1>3, <1>4 DEF Sound, ItemOK
<1>6. Chunk(h, it) /\ ~Unused(h, it) /\ it \in Live(h)
  BY <1>3, <1>4, InUse
<1>7. Check(h, ok, "slab_get_item_from_freeq") = h
  BY <1>1, <1>5, CheckSame DEF AssertName
<1>8. m = [h EXCEPT !.flags[it] = @ \ {"SLABBED"}, !.free_itemq[id] = Tail(@)]
  BY <1>7 DEF slab_get_item_from_freeq
<1> HIDE DEF it, m, ok
<1>9. /\ m.slab_class = h.slab_class /\ m.nslab = h.nslab /\ m.slab_lruq = h.slab_lruq
      /\ m.flags = [h.flags EXCEPT ![it] = h.flags[it] \ {"SLABBED"}]
      /\ m.refcount = h.refcount /\ m.hdr = h.hdr /\ m.free_item = h.free_item
      /\ m.free_itemq = [h.free_itemq EXCEPT ![id] = Tail(q)]
      /\ m.item_lruq = h.item_lruq /\ m.hash = h.hash /\ m.failed = h.failed
  BY <1>1, <1>8 DEF HeapType
<1>10. h.flags \in [Item -> SUBSET ItemFlag]
  BY <1>1 DEF HeapType
<1>11. HeapOK(m)
  <2> DEFINE g == [h EXCEPT !.flags[it] = h.flags[it] \ {"SLABBED"}]
  <2>1. h.flags[it] \ {"SLABBED"} \in SUBSET ItemFlag
    BY <1>1, <1>3, HdrFields
  <2>2. HeapOK(g)
    BY <1>1, <1>3, <2>1, FlagsQuiet DEF Quiet
  <2>3. g.free_itemq = h.free_itemq /\ g.nslab = h.nslab /\ g \in HeapType
    BY <1>1, <2>2 DEF HeapType, HeapOK
  <2>4. m = [g EXCEPT !.free_itemq[id] = Tail(q)]
    BY <1>1, <1>8 DEF HeapType
  <2>5. q \in Seq(Live(g)) /\ q # << >>
    BY <2>2, <2>3 DEF HeapOK
  <2> HIDE DEF g, q
  <2>6. Tail(q) \in Seq(Live(g))
    BY <2>5
  <2>7. Tail(q) \in Seq(Item)
    BY <1>2, <2>5
  <2> QED
    BY <2>2, <2>3, <2>4, <2>6, <2>7 DEF HeapOK, HeapType, Live
<1>12. SlabsSame(h, m)
  BY <1>9 DEF SlabsSame, Sound, SlabsOK
<1>13. ~item_is_linked(m, it) /\ ~item_is_slabbed(m, it) /\ m.refcount[it] = 0
  BY <1>3, <1>5, <1>9, <1>10 DEF item_is_linked, item_is_slabbed, ok
<1>14. (\A x : Unused(m, x) <=> Unused(h, x)) /\ CurrentOK(m)
  BY <1>9 DEF Unused, CurrentOK, Sound
<1>15. OthersSame(h, m, it)
  BY <1>9, <1>10, <1>14 DEF OthersSame
<1>16. Requeued(h.item_lruq, m.item_lruq, it, id, item_is_linked(m, it))
  BY <1>3, <1>5, <1>9, <1>13, SoundQueues, QueueSame DEF ok
<1>17. Requeued(h.free_itemq, m.free_itemq, it, id, item_is_slabbed(m, it))
  <2>1. /\ \A c \in Class : NoDup(h.free_itemq[c])
        /\ \A c \in Class : c # id => it \notin Elems(h.free_itemq[c])
    BY <1>3, <1>4, SoundQueues
  <2>2. it = Head(h.free_itemq[id])
    BY DEF it
  <2>3. Requeued(h.free_itemq, m.free_itemq, it, id, FALSE)
    BY <1>1, <1>3, <1>9, <2>1, <2>2, QueueDel
  <2> QED
    BY <1>13, <2>3 DEF Requeued
<1>18. Rehashed(h, m, it)
  BY <1>3, <1>5, <1>9, <1>13, HashNot DEF Rehashed, ok
<1>19. Sound(m, IF InHand(m, it) THEN {} \cup {it} ELSE {} \ {it})
  <2>1. m.refcount[it] > 0 => m.hdr[it].key \in Key
    BY <1>13
  <2>2. ~Unused(m, it)
    BY <1>6, <1>14
  <2> QED
    BY <1>3, <1>4, <1>6, <1>11, <1>12, <1>13, <1>14, <1>15, <1>16, <1>17, <1>18, <2>1, <2>2, OneItem
<1>20. Sound(m, {it})
  BY <1>13, <1>19 DEF InHand
<1>21. Spares(h, m)
  BY <1>3, <1>5, <1>9, <1>10 DEF Spares, item_id
<1>22. item_id(m, it) = id
  BY <1>4, <1>9 DEF item_id
<1>23. slab_get_item_from_freeq(h, id).it = it
  BY DEF slab_get_item_from_freeq, it
<1> QED
  BY <1>3, <1>9, <1>20, <1>21, <1>22, <1>23 DEF m

\* The next chunk of the current slab comes into the hands of the caller.
LEMMA NextItemSound ==
    ASSUME NEW h, Sound(h, {}), NEW id \in Class, h.free_item[id] # NoItem
    PROVE  LET r == slab_next_item(h, id)
           IN  /\ r.it \in Item /\ Sound(r.mem, {r.it}) /\ Spares(h, r.mem)
               /\ r.mem.failed = h.failed /\ item_id(r.mem, r.it) = id
<1> DEFINE it == h.free_item[id]
           nxt == IF it[2] < nitem[id] THEN <<it[1], it[2] + 1>> ELSE NoItem
           m == slab_next_item(h, id).mem
<1>1. h \in HeapType /\ HeapOK(h) /\ it \in Live(h) /\ it # NoItem
  BY DEF Sound, HeapOK
<1>2. it \in Item /\ it[1] \in 1..h.nslab /\ h.nslab \in Nat
  BY <1>1, LiveNotNoItem, CountTypes
<1>3. it[1] \in Nat /\ it[2] \in 1..max_nitem /\ max_nitem \in Nat /\ it = <<it[1], it[2]>>
  BY <1>2, SlabAssumption DEF Item
<1>4. /\ h.slab_class[it[1]] = id /\ it[2] <= nitem[id]
      /\ nitem[id] \in 1..max_nitem
  BY <1>1, SlabAssumption DEF Sound, CurrentOK, Class
<1>5. Chunk(h, it) /\ item_id(h, it) = id
  BY <1>2, <1>3, <1>4 DEF Chunk, item_id, item_2_slab
<1>6. Unused(h, it)
  BY <1>1, <1>3 DEF Unused
<1>7. h.refcount[it] = 0 /\ h.flags[it] = {}
  BY <1>2, <1>6 DEF Sound, ItemOK
<1>8. nxt \in Live(h) \cup {NoItem}
  BY <1>2, <1>3, <1>4 DEF Live
<1>9. m = [h EXCEPT !.free_item[id] = nxt] /\ slab_next_item(h, id).it = it
  BY <1>1 DEF slab_next_item
<1>10. h.free_item \in [Class -> MaybeItem]
  BY <1>1 DEF HeapType
<1> HIDE DEF it, m, nxt
<1>11. /\ m.slab_class = h.slab_class /\ m.nslab = h.nslab /\ m.slab_lruq = h.slab_lruq
       /\ m.flags = h.flags /\ m.refcount = h.refcount /\ m.hdr = h.hdr
       /\ m.free_item = [h.free_item EXCEPT ![id] = nxt]
       /\ m.free_itemq = h.free_itemq
       /\ m.item_lruq = h.item_lruq /\ m.hash = h.hash /\ m.failed = h.failed
  BY <1>1, <1>9 DEF HeapType
<1>12. HeapOK(m)
  <2>1. nxt \in MaybeItem
    BY <1>1, <1>8, LiveItems DEF MaybeItem
  <2>2. m \in HeapType
    BY <1>1, <1>9, <2>1 DEF HeapType
  <2> QED
    BY <1>1, <1>8, <1>10, <1>11, <2>2 DEF HeapOK, Live
<1>13. /\ m.free_item[id] = nxt
       /\ \A c \in Class : c # id => m.free_item[c] = h.free_item[c]
  BY <1>10, <1>11
<1>14. nxt # NoItem => nxt[1] = it[1] /\ nxt[2] = it[2] + 1 /\ it[2] < nitem[id]
  BY DEF nxt
<1>15. CurrentOK(m)
  <2>1. nxt # NoItem => h.slab_class[nxt[1]] = id /\ nxt[2] <= nitem[id]
    BY <1>3, <1>4, <1>14
  <2> QED
    BY <1>11, <1>13, <2>1 DEF CurrentOK, Sound
<1>16. \A c \in Class : c # id /\ h.free_item[c] # NoItem => h.free_item[c][1] # it[1]
  BY <1>4 DEF Sound, CurrentOK
<1>17. ~Unused(m, it)
  <2>1. nxt # NoItem /\ nxt[1] = it[1] => ~(it[2] >= nxt[2])
    BY <1>3, <1>14
  <2> QED
    BY <1>13, <1>16, <2>1 DEF Unused
<1>18. ASSUME NEW x \in Item, x # it, Chunk(h, x)
       PROVE  Unused(m, x) <=> Unused(h, x)
  <2>1. x[1] \in Slab /\ x[2] \in 1..max_nitem /\ x = <<x[1], x[2]>>
    BY DEF Item
  <2>2. CASE x[1] # it[1]
    BY <1>13, <1>14, <2>2 DEF Unused, it
  <2>3. CASE x[1] = it[1]
    <3>1. x[2] # it[2] /\ x[2] <= nitem[id]
      BY <1>3, <1>4, <1>18, <2>1, <2>3 DEF Chunk, item_id, item_2_slab
    <3>2. Unused(h, x) <=> x[2] >= it[2]
      BY <1>1, <1>16, <2>3 DEF Unused, it
    <3>3. Unused(m, x) <=> nxt # NoItem /\ x[2] >= nxt[2]
      BY <1>13, <1>14, <1>16, <2>3 DEF Unused
    <3>4. nxt # NoItem <=> it[2] < nitem[id]
      <4>1. <<it[1], it[2] + 1>> # NoItem \/ ~(it[2] < nitem[id])
        <5>1. it[2] < nitem[id] => <<it[1], it[2] + 1>> \in Item
          BY <1>2, <1>3, <1>4 DEF Item
        <5> QED
          BY <5>1, SlabAssumption
      <4> QED
        BY <4>1 DEF nxt
    <3> QED
      BY <1>3, <1>4, <1>14, <2>1, <3>1, <3>2, <3>3, <3>4
  <2> QED
    BY <2>2, <2>3
<1>19. OthersSame(h, m, it)
  BY <1>11, <1>18 DEF OthersSame
<1>20. SlabsSame(h, m)
  BY <1>11 DEF SlabsSame, Sound, SlabsOK
<1>21. /\ ~item_is_linked(m, it) /\ ~item_is_slabbed(m, it) /\ m.refcount[it] = 0
       /\ ~item_is_linked(h, it) /\ ~item_is_slabbed(h, it)
  BY <1>7, <1>11 DEF item_is_linked, item_is_slabbed
<1>22. Requeued(h.item_lruq, m.item_lruq, it, id, item_is_linked(m, it))
  BY <1>2, <1>11, <1>21, SoundQueues, QueueSame
<1>23. Requeued(h.free_itemq, m.free_itemq, it, id, item_is_slabbed(m, it))
  BY <1>2, <1>11, <1>21, SoundQueues, QueueSame
<1>24. Rehashed(h, m, it)
  BY <1>2, <1>11, <1>21, HashNot DEF Rehashed
<1>25. Sound(m, IF InHand(m, it) THEN {} \cup {it} ELSE {} \ {it})
  <2>1. m.refcount[it] > 0 => m.hdr[it].key \in Key
    BY <1>21
  <2> QED
    BY <1>2, <1>5, <1>12, <1>15, <1>17, <1>19, <1>20, <1>21, <1>22, <1>23, <1>24, <2>1, OneItem
<1>26. Sound(m, {it})
  BY <1>21, <1>25 DEF InHand
<1>27. Spares(h, m) /\ item_id(m, it) = id
  BY <1>5, <1>11 DEF Spares, item_id
<1> QED
  BY <1>2, <1>9, <1>11, <1>26, <1>27 DEF m
\* Queues p are queues q without the items of slab s.
Purged(q, p, s) ==
    \A c \in Class :
        /\ NoDup(p[c])
        /\ \A x \in Item : x \in Elems(p[c]) <=> x \in Elems(q[c]) /\ x[1] # s

\* From h to m slab s, new or evicted, becomes the current slab of class id.
Fresh(h, m, s, id) ==
    /\ s \in 1..m.nslab
    /\ m.slab_class = [h.slab_class EXCEPT ![s] = id]
    /\ NoDup(m.slab_lruq) /\ Elems(m.slab_lruq) = 1..m.nslab
    /\ \A t \in 1..m.nslab : t # s => t \in 1..h.nslab
    /\ 1..h.nslab \subseteq 1..m.nslab
    /\ \A x \in Item :
          IF x[1] = s
          THEN m.refcount[x] = 0 /\ m.flags[x] = {}
          ELSE m.refcount[x] = h.refcount[x] /\ m.flags[x] = h.flags[x] /\ m.hdr[x] = h.hdr[x]
    /\ \A c \in Class :
          m.free_item[c] = IF c = id THEN <<s, 1>>
                           ELSE IF h.free_item[c] # NoItem /\ h.free_item[c][1] = s THEN NoItem
                           ELSE h.free_item[c]
    /\ Purged(h.item_lruq, m.item_lruq, s)
    /\ Purged(h.free_itemq, m.free_itemq, s)
    /\ \A k \in MaybeKey :
          m.hash[k] = IF h.hash[k] # NoItem /\ h.hash[k][1] = s THEN NoItem ELSE h.hash[k]

\* Such a slab has all of its chunks unused, and nothing else is disturbed.
LEMMA FreshSound ==
    ASSUME NEW h, Sound(h, {}), NEW id \in Class, h.free_item[id] = NoItem,
           NEW m, HeapOK(m), NEW s \in Slab, Fresh(h, m, s, id),
           \A x \in Item : x[1] = s => h.refcount[x] = 0
    PROVE  Sound(m, {}) /\ Spares(h, m) /\ m.free_item[id] # NoItem
<1>1. /\ \A x \in Item : x[1] \in Slab /\ x[2] \in 1..max_nitem
      /\ h.slab_class \in [Slab -> Class \cup {0}]
      /\ h.nslab \in Nat /\ m.nslab \in Nat
  BY CountTypes DEF Item, Sound, HeapOK, HeapType
<1>2. ASSUME NEW x \in Item, x[1] # s
      PROVE  /\ item_id(m, x) = item_id(h, x) /\ (Chunk(m, x) <=> Chunk(h, x))
             /\ item_is_linked(m, x) <=> item_is_linked(h, x)
             /\ item_is_slabbed(m, x) <=> item_is_slabbed(h, x)
             /\ m.refcount[x] = h.refcount[x] /\ m.flags[x] = h.flags[x] /\ m.hdr[x] = h.hdr[x]
             /\ Unused(m, x) <=> Unused(h, x)
  <2>1. m.refcount[x] = h.refcount[x] /\ m.flags[x] = h.flags[x] /\ m.hdr[x] = h.hdr[x]
    BY <1>2 DEF Fresh
  <2>2. item_id(m, x) = item_id(h, x)
    BY <1>1, <1>2 DEF item_id, item_2_slab, Fresh
  <2>3. x[1] <= m.nslab <=> x[1] <= h.nslab
    <3>1. x[1] \in 1..m.nslab <=> x[1] \in 1..h.nslab
      BY <1>2 DEF Fresh
    <3>2. x[1] \in Nat /\ x[1] >= 1
      BY <1>1, SlabAssumption DEF Slab
    <3> QED
      BY <1>1, <3>1, <3>2
  <2>4. Unused(m, x) <=> Unused(h, x)
    <3>1. <<s, 1>>[1] = s
      OBVIOUS
    <3>2. \A c \in Class : /\ m.free_item[c] # NoItem /\ m.free_item[c][1] = x[1] =>
                                 m.free_item[c] = h.free_item[c]
                           /\ h.free_item[c] # NoItem /\ h.free_item[c][1] = x[1] =>
                                 m.free_item[c] = h.free_item[c]
      BY <1>2, <3>1 DEF Fresh
    <3> QED
      BY <3>2 DEF Unused
  <2> QED
    BY <2>1, <2>2, <2>3, <2>4 DEF Chunk, item_is_linked, item_is_slabbed
<1>3. ASSUME NEW x \in Item, x[1] = s
      PROVE  /\ m.refcount[x] = 0 /\ m.flags[x] = {} /\ Unused(m, x)
             /\ ~item_is_linked(m, x) /\ ~item_is_slabbed(m, x)
  <2>1. m.refcount[x] = 0 /\ m.flags[x] = {}
    BY <1>3 DEF Fresh
  <2>2. Unused(m, x)
    <3>1. m.free_item[id] = <<s, 1>>
      BY DEF Fresh
    <3>2. <<s, 1>> # NoItem
      <4>1. 1 \in 1..max_nitem
        BY <1>1, SlabAssumption
      <4>2. <<s, 1>> \in Item
        BY <4>1 DEF Item
      <4> QED
        BY <4>2, SlabAssumption
    <3>3. x[2] >= 1
      BY <1>1, SlabAssumption
    <3>4. m.free_item[id] # NoItem /\ m.free_item[id][1] = s /\ m.free_item[id][2] = 1
      BY <3>1, <3>2
    <3> QED
      BY <1>3, <3>3, <3>4 DEF Unused
  <2> QED
    BY <2>1, <2>2 DEF item_is_linked, item_is_slabbed
<1>4. SlabsOK(m)
  <2>1. \A t \in 1..m.nslab : m.slab_class[t] \in Class
    BY <1>1 DEF Fresh, Sound, SlabsOK
  <2> QED
    BY <2>1 DEF SlabsOK, Fresh
<1>5. LruqOK(m)
  BY <1>2, <1>3 DEF Sound, LruqOK, Purged, Fresh
<1>6. FreeqOK(m)
  BY <1>2, <1>3 DEF Sound, FreeqOK, Purged, Fresh
<1>7. CurrentOK(m)
  <2>1. ASSUME NEW c \in Class, m.free_item[c] # NoItem
        PROVE  m.slab_class[m.free_item[c][1]] = c /\ m.free_item[c][2] <= nitem[c]
    <3>1. CASE c = id
      <4>1. m.free_item[c] = <<s, 1>>
        BY <3>1 DEF Fresh
      <4>2. 1 <= nitem[id]
        BY SlabAssumption DEF Class
      <4> QED
        BY <1>1, <3>1, <4>1, <4>2 DEF Fresh
    <3>2. CASE c # id
      <4>1. m.free_item[c] = h.free_item[c] /\ h.free_item[c] # NoItem /\ h.free_item[c][1] # s
        BY <2>1, <3>2 DEF Fresh
      <4>2. h.free_item[c] \in Item
        BY <4>1, LiveItems DEF Sound, HeapOK
      <4> QED
        BY <1>1, <4>1, <4>2 DEF Fresh, Sound, CurrentOK
    <3> QED
      BY <3>1, <3>2
  <2> QED
    BY <2>1 DEF CurrentOK
<1>8. HashOK(m)
  <2>1. NoKey \in MaybeKey /\ Key \subseteq MaybeKey
    BY DEF MaybeKey
  <2>2. m.hash[NoKey] = NoItem
    BY <2>1 DEF Fresh, Sound, HashOK
  <2>3. ASSUME NEW k \in Key, m.hash[k] # NoItem
        PROVE  item_is_linked(m, m.hash[k]) /\ m.hdr[m.hash[k]].key = k
    <3>1. m.hash[k] = h.hash[k] /\ h.hash[k] # NoItem /\ h.hash[k][1] # s
      BY <2>1, <2>3 DEF Fresh
    <3>2. h.hash[k] \in Item
      BY <2>1, <3>1, LiveItems DEF HeapOK, Sound
    <3> QED
      BY <1>2, <3>1, <3>2 DEF Sound, HashOK
  <2>4. ASSUME NEW x \in Item, item_is_linked(m, x)
        PROVE  m.hdr[x].key \in Key /\ m.hash[m.hdr[x].key] = x
    <3>1. x[1] # s
      BY <1>3, <2>4
    <3>2. item_is_linked(h, x) /\ m.hdr[x] = h.hdr[x]
      BY <1>2, <2>4, <3>1
    <3>3. h.hdr[x].key \in Key /\ h.hash[h.hdr[x].key] = x
      BY <3>2 DEF Sound, HashOK
    <3> QED
      BY <2>1, <3>1, <3>2, <3>3 DEF Fresh
  <2> QED
    BY <2>2, <2>3, <2>4 DEF HashOK
<1>9. ASSUME NEW x \in Item
      PROVE  ItemOK(m, x)
  <2>1. CASE x[1] = s
    BY <1>3, <2>1 DEF ItemOK
  <2>2. CASE x[1] # s
    BY <1>2, <2>2 DEF ItemOK, Sound
  <2> QED
    BY <2>1, <2>2
<1>10. Whereabouts(m, {})
  <2>1. ASSUME NEW x \in Item, Chunk(m, x)
        PROVE  \/ item_is_linked(m, x) \/ item_is_slabbed(m, x)
               \/ m.refcount[x] > 0    \/ Unused(m, x)
    <3>1. CASE x[1] = s
      BY <1>3, <3>1
    <3>2. CASE x[1] # s
      BY <1>2, <2>1, <3>2 DEF Sound, Whereabouts
    <3> QED
      BY <3>1, <3>2
  <2> QED
    BY <2>1 DEF Whereabouts
<1>11. Spares(h, m)
  <2>1. \A x \in Item : h.refcount[x] > 0 => x[1] # s
    OBVIOUS
  <2> QED
    BY <1>2, <2>1 DEF Spares
<1>12. m.free_item[id] # NoItem
  <2>1. 1 \in 1..max_nitem
    BY SlabAssumption DEF Class
  <2>2. <<s, 1>> \in Item
    BY <2>1 DEF Item
  <2> QED
    BY <2>2, SlabAssumption DEF Fresh
<1> QED
  BY <1>4, <1>5, <1>6, <1>7, <1>8, <1>9, <1>10, <1>11, <1>12 DEF Sound

\* What slab_add_one does to the fields of the memory.
Added(h, m, s, id) ==
    /\ m.slab_class = [h.slab_class EXCEPT ![s] = id]
    /\ m.nslab = h.nslab /\ m.slab_lruq = Append(h.slab_lruq, s)
    /\ \A x \in Item : x[1] = s => m.refcount[x] = 0 /\ m.flags[x] = {}
    /\ \A x \in Item : x[1] # s => /\ m.refcount[x] = h.refcount[x]
                                   /\ m.flags[x] = h.flags[x] /\ m.hdr[x] = h.hdr[x]
    /\ m.free_item = [h.free_item EXCEPT ![id] = <<s, 1>>]
    /\ m.free_itemq = h.free_itemq /\ m.item_lruq = h.item_lruq
    /\ m.hash = h.hash /\ m.failed = h.failed

\* slab_add_one changes just these fields.
LEMMA AddFields ==
    ASSUME NEW h, h \in HeapType, NEW s \in Slab, NEW id \in Class
    PROVE  Added(h, slab_add_one(h, s, id), s, id)
  BY DEF slab_add_one, HeapType, item_2_slab, Added

\* A new slab of the pool.
LEMMA PoolSound ==
    ASSUME NEW h, Sound(h, {}), CountsOK(h), NEW id \in Class, h.free_item[id] = NoItem,
           h.nslab < max_nslab, NEW junk \in Nat
    PROVE  LET s == h.nslab + 1
               m == slab_add_one([h EXCEPT !.nslab = s, !.utime[s] = junk], s, id)
           IN  /\ Sound(m, {}) /\ Spares(h, m) /\ m.failed = h.failed
               /\ m.free_item[id] # NoItem
<1> DEFINE s == h.nslab + 1
           g == [h EXCEPT !.nslab = s, !.utime[s] = junk]
           m == slab_add_one(g, s, id)
<1>1. HeapOK(h) /\ h \in HeapType /\ h.nslab \in Nat
  BY CountTypes DEF Sound, HeapOK
<1>2. Quiet(h, g) /\ CountsOK(g) /\ s \in 1..g.nslab /\ s \in Slab /\ g.slab_refcount[s] = 0
  BY <1>1, PoolQuiet
<1>3. HeapOK(g) /\ g \in HeapType
  BY <1>2 DEF Quiet, HeapOK
<1>4. /\ g.slab_class = h.slab_class /\ g.nslab = s /\ g.slab_lruq = h.slab_lruq
      /\ g.refcount = h.refcount /\ g.flags = h.flags /\ g.hdr = h.hdr
      /\ g.free_item = h.free_item /\ g.free_itemq = h.free_itemq
      /\ g.item_lruq = h.item_lruq /\ g.hash = h.hash /\ g.failed = h.failed
  BY <1>1 DEF HeapType
<1> HIDE DEF g
<1>5. \A x \in Item : x[1] = s => g.refcount[x] = 0
  BY <1>2 DEF CountsOK
<1>6. HeapOK(m)
  BY <1>2, <1>3, <1>5, AddQuiet DEF Quiet
<1>7. /\ m.slab_class = [h.slab_class EXCEPT ![s] = id]
      /\ m.nslab = s /\ m.slab_lruq = Append(h.slab_lruq, s)
      /\ \A x \in Item : x[1] = s => m.refcount[x] = 0 /\ m.flags[x] = {}
      /\ \A x \in Item : x[1] # s => /\ m.refcount[x] = h.refcount[x]
                                     /\ m.flags[x] = h.flags[x] /\ m.hdr[x] = h.hdr[x]
      /\ m.free_item = [h.free_item EXCEPT ![id] = <<s, 1>>]
      /\ m.free_itemq = h.free_itemq /\ m.item_lruq = h.item_lruq
      /\ m.hash = h.hash /\ m.failed = h.failed
  <2>1. Added(g, m, s, id)
    BY <1>2, <1>3, AddFields
  <2> HIDE DEF s, m
  <2> QED
    BY <1>4, <2>1 DEF Added
<1> HIDE DEF m
<1>8. \A x \in Live(h) : x[1] # s /\ x \in Item /\ x # NoItem
  <2>1. \A x \in Live(h) : x[1] \in 1..h.nslab
    BY DEF Live
  <2> QED
    BY <1>1, <2>1, LiveNotNoItem
<1>9. NoDup(m.slab_lruq) /\ Elems(m.slab_lruq) = 1..m.nslab
  <2>1. /\ h.slab_lruq \in Seq(Slab) /\ NoDup(h.slab_lruq)
        /\ Elems(h.slab_lruq) = 1..h.nslab
    BY <1>1 DEF Sound, SlabsOK, HeapType
  <2>2. s \notin Elems(h.slab_lruq) /\ 1..s = (1..h.nslab) \cup {s}
    BY <1>1, <2>1
  <2> HIDE DEF s
  <2>3. Elems(Append(h.slab_lruq, s)) = Elems(h.slab_lruq) \cup {s} /\ NoDup(Append(h.slab_lruq, s))
    <3> DEFINE q == h.slab_lruq
    <3>1. q \in Seq(Slab) /\ NoDup(q) /\ s \in Slab /\ s \notin Elems(q)
      BY <1>2, <2>1, <2>2
    <3> HIDE DEF q
    <3>2. Elems(Append(q, s)) = Elems(q) \cup {s} /\ NoDup(Append(q, s))
      BY <3>1, AppendElems
    <3> QED
      BY <3>2 DEF q
  <2> QED
    BY <1>7, <2>1, <2>2, <2>3
<1>10. Purged(h.item_lruq, m.item_lruq, s) /\ Purged(h.free_itemq, m.free_itemq, s)
  <2>1. \A c \in Class : /\ Elems(h.item_lruq[c]) \subseteq Live(h)
                         /\ Elems(h.free_itemq[c]) \subseteq Live(h)
    BY <1>1 DEF HeapOK, Elems
  <2> HIDE DEF s
  <2> QED
    BY <1>7, <1>8, <2>1 DEF Purged, Sound, LruqOK, FreeqOK
<1>11. \A k \in MaybeKey : m.hash[k] = IF h.hash[k] # NoItem /\ h.hash[k][1] = s THEN NoItem
                                       ELSE h.hash[k]
  <2> HIDE DEF s
  <2> QED
    BY <1>1, <1>7, <1>8 DEF HeapOK
<1>12. \A c \in Class : m.free_item[c] =
           IF c = id THEN <<s, 1>>
           ELSE IF h.free_item[c] # NoItem /\ h.free_item[c][1] = s THEN NoItem ELSE h.free_item[c]
  <2>1. h.free_item \in [Class -> MaybeItem]
    BY <1>1 DEF HeapType
  <2> HIDE DEF s
  <2> QED
    BY <1>1, <1>7, <1>8, <2>1 DEF HeapOK
<1>13. /\ s \in 1..m.nslab /\ 1..h.nslab \subseteq 1..m.nslab
       /\ \A t \in 1..m.nslab : t # s => t \in 1..h.nslab
  BY <1>1, <1>7
<1>14. Fresh(h, m, s, id)
  <2> HIDE DEF s
  <2> QED
    BY <1>7, <1>9, <1>10, <1>11, <1>12, <1>13 DEF Fresh
<1>15. Sound(m, {}) /\ Spares(h, m) /\ m.free_item[id] # NoItem
  <2> HIDE DEF s
  <2> QED
    BY <1>2, <1>4, <1>5, <1>6, <1>14, FreshSound
<1> QED
  BY <1>7, <1>15 DEF m, g
\* What slab_evict_one does to the fields of the memory.
Evicted(h, m, s, items, linked, slabbed, dead) ==
    /\ m.slab_class = h.slab_class /\ m.nslab = h.nslab
    /\ m.slab_lruq = Without(h.slab_lruq, {s})
    /\ m.refcount = h.refcount /\ m.hdr = h.hdr
    /\ \A x \in Item : x \notin items => m.flags[x] = h.flags[x]
    /\ m.free_item = [h.free_item EXCEPT ![h.slab_class[s]] =
                         IF @ # NoItem /\ @[1] = s THEN NoItem ELSE @]
    /\ m.free_itemq = [h.free_itemq EXCEPT ![h.slab_class[s]] = Without(@, slabbed)]
    /\ m.item_lruq = [h.item_lruq EXCEPT ![h.slab_class[s]] = Without(@, linked)]
    /\ m.hash = [k \in MaybeKey |-> IF k \in dead THEN NoItem ELSE h.hash[k]]
    /\ (\A x \in items : h.refcount[x] = 0) => m.failed = h.failed

\* slab_evict_one changes just these fields.
LEMMA EvictFields ==
    ASSUME NEW h, HeapOK(h), NEW s \in 1..h.nslab, NEW m, m = slab_evict_one(h, s),
           NEW items, items = slab_items(h, s),
           NEW linked, linked = {it \in items : item_is_linked(h, it)},
           NEW slabbed, slabbed = {it \in items : ~item_is_linked(h, it) /\ item_is_slabbed(h, it)},
           NEW dead, dead = {h.hdr[it].key : it \in linked}
    PROVE  Evicted(h, m, s, items, linked, slabbed, dead)
<1> DEFINE ok == \A it \in items : h.refcount[it] = 0
           g == Check(h, ok, "slab_evict_one")
<1>1. h \in HeapType
  BY DEF HeapOK
<1>2. g \in HeapType /\ Same(h, g) /\ (ok => g.failed = h.failed)
  BY CheckSame DEF AssertName, HeapOK
<1>3. m = [g EXCEPT !.free_item[h.slab_class[s]] =
                       IF @ # NoItem /\ item_2_slab(@) = s THEN NoItem ELSE @,
                    !.flags = [it \in Item |->
                       IF it \in items THEN @[it] \ {"LINKED", "SLABBED"} ELSE @[it]],
                    !.hash = [k \in MaybeKey |-> IF k \in dead THEN NoItem ELSE @[k]],
                    !.item_lruq[h.slab_class[s]] = Without(@, linked),
                    !.free_itemq[h.slab_class[s]] = Without(@, slabbed),
                    !.slab_lruq = Without(@, {s})]
  BY DEF slab_evict_one
<1> HIDE DEF g
<1>4. /\ m.slab_class = g.slab_class /\ m.nslab = g.nslab
      /\ m.slab_lruq = Without(g.slab_lruq, {s})
      /\ m.refcount = g.refcount /\ m.hdr = g.hdr /\ m.failed = g.failed
      /\ m.flags = [it \in Item |->
                       IF it \in items THEN g.flags[it] \ {"LINKED", "SLABBED"} ELSE g.flags[it]]
      /\ m.free_item = [g.free_item EXCEPT ![h.slab_class[s]] =
                           IF @ # NoItem /\ @[1] = s THEN NoItem ELSE @]
      /\ m.free_itemq = [g.free_itemq EXCEPT ![h.slab_class[s]] = Without(@, slabbed)]
      /\ m.item_lruq = [g.item_lruq EXCEPT ![h.slab_class[s]] = Without(@, linked)]
      /\ m.hash = [k \in MaybeKey |-> IF k \in dead THEN NoItem ELSE g.hash[k]]
  BY <1>2, <1>3 DEF HeapType, item_2_slab
<1> QED
  BY <1>2, <1>4 DEF Same, Evicted

\* Purging a queue of the items of a slab that are in it.
LEMMA PurgeQueue ==
    ASSUME NEW Q \in [Class -> Seq(Item)], \A c \in Class : NoDup(Q[c]), NEW id \in Class,
           NEW s, NEW S, \A x \in Elems(Q[id]) : x \in S <=> x[1] = s,
           \A c \in Class : c # id => \A x \in Elems(Q[c]) : x[1] # s,
           NEW P, P = [Q EXCEPT ![id] = Without(@, S)]
    PROVE  Purged(Q, P, s)
<1>1. Q[id] \in Seq(Item) /\ P[id] = Without(Q[id], S)
  OBVIOUS
<1>2. NoDup(P[id]) /\ Elems(P[id]) = Elems(Q[id]) \ S
  <2> DEFINE q == Q[id]
  <2>1. q \in Seq(Item) /\ NoDup(q)
    BY <1>1
  <2> HIDE DEF q
  <2>2. NoDup(Without(q, S)) /\ Elems(Without(q, S)) = Elems(q) \ S
    BY <2>1, WithoutProperties
  <2> QED
    BY <1>1, <2>2 DEF q
<1>3. \A c \in Class : c # id => P[c] = Q[c]
  OBVIOUS
<1> QED
  BY <1>2, <1>3 DEF Purged

\* An unreferenced slab that is evicted and made the current one of a class.
LEMMA EvictSound ==
    ASSUME NEW h, Sound(h, {}), CountsOK(h), NEW id \in Class, h.free_item[id] = NoItem,
           NEW s \in 1..h.nslab, h.slab_refcount[s] = 0
    PROVE  LET m == slab_add_one(slab_evict_one(h, s), s, id)
           IN  /\ Sound(m, {}) /\ Spares(h, m) /\ m.failed = h.failed
               /\ m.free_item[id] # NoItem
<1> DEFINE cls == h.slab_class[s]
           items == slab_items(h, s)
           linked == {it \in items : item_is_linked(h, it)}
           slabbed == {it \in items : ~item_is_linked(h, it) /\ item_is_slabbed(h, it)}
           dead == {h.hdr[it].key : it \in linked}
           g == slab_evict_one(h, s)
           m == slab_add_one(g, s, id)
<1>1. HeapOK(h) /\ h \in HeapType /\ h.nslab \in Nat /\ s \in Slab /\ cls \in Class
  BY CountTypes, LiveItems DEF Sound, HeapOK, SlabsOK
<1>2. \A x \in Item : x[1] = s => h.refcount[x] = 0
  BY <1>1 DEF CountsOK
<1>3. cls # 0
  BY <1>1, SlabAssumption DEF Class
<1>4. \A x \in Item : x \in items <=> x[1] = s /\ x[2] <= nitem[cls]
  BY <1>3 DEF slab_items, item_2_slab
<1>5. Quiet(h, g) /\ g.nslab = h.nslab
  BY <1>1, EvictQuiet
<1>6. HeapOK(g) /\ g \in HeapType /\ g.slab_refcount = h.slab_refcount /\ g.refcount = h.refcount
  BY <1>5 DEF Quiet, HeapOK
<1>7. items \subseteq Item
  BY DEF slab_items
<1> HIDE DEF items
<1>8. Evicted(h, g, s, items, linked, slabbed, dead)
  <2>1. items = slab_items(h, s)
    BY DEF items
  <2> HIDE DEF g, linked, slabbed, dead
  <2> QED
    BY <1>1, <2>1, EvictFields DEF g, linked, slabbed, dead
<1>9. Added(g, m, s, id)
  <2> HIDE DEF g
  <2> QED
    BY <1>1, <1>6, AddFields
<1>10. HeapOK(m)
  <2> HIDE DEF g
  <2> QED
    BY <1>2, <1>5, <1>6, AddQuiet DEF Quiet
<1> HIDE DEF g, m
<1>11. \A x \in Item : item_is_linked(h, x) => (x \in linked <=> x[1] = s)
  <2>1. \A x \in Item : item_is_linked(h, x) => Chunk(h, x)
    BY InUse
  <2> QED
    BY <1>4, <2>1 DEF Chunk, item_id, item_2_slab
<1>12. \A x \in Item : item_is_slabbed(h, x) => (x \in slabbed <=> x[1] = s)
  <2>1. \A x \in Item : item_is_slabbed(h, x) => Chunk(h, x) /\ ~item_is_linked(h, x)
    BY InUse DEF Sound, ItemOK
  <2> QED
    BY <1>4, <2>1 DEF Chunk, item_id, item_2_slab
<1>13. /\ h.item_lruq \in [Class -> Seq(Item)] /\ h.free_itemq \in [Class -> Seq(Item)]
       /\ \A c \in Class : NoDup(h.item_lruq[c]) /\ NoDup(h.free_itemq[c])
       /\ \A c \in Class : \A x \in Elems(h.item_lruq[c]) :
             x \in Item /\ item_is_linked(h, x) /\ item_id(h, x) = c
       /\ \A c \in Class : \A x \in Elems(h.free_itemq[c]) :
             x \in Item /\ item_is_slabbed(h, x) /\ item_id(h, x) = c
  <2>1. h.item_lruq \in [Class -> Seq(Item)] /\ h.free_itemq \in [Class -> Seq(Item)]
    BY <1>1 DEF HeapType
  <2>2. \A c \in Class : \A x : /\ x \in Elems(h.item_lruq[c]) => x \in Item
                                /\ x \in Elems(h.free_itemq[c]) => x \in Item
    BY <2>1 DEF Elems
  <2> QED
    BY <2>1, <2>2 DEF Sound, LruqOK, FreeqOK
<1>14. Purged(h.item_lruq, m.item_lruq, s)
  <2>1. m.item_lruq = [h.item_lruq EXCEPT ![cls] = Without(@, linked)]
    BY <1>8, <1>9 DEF Evicted, Added
  <2>2. \A x \in Elems(h.item_lruq[cls]) : x \in linked <=> x[1] = s
    BY <1>1, <1>11, <1>13
  <2>3. \A c \in Class : c # cls => \A x \in Elems(h.item_lruq[c]) : x[1] # s
    BY <1>13 DEF item_id, item_2_slab
  <2> HIDE DEF linked, cls
  <2> QED
    BY <1>1, <1>13, <2>1, <2>2, <2>3, PurgeQueue
<1>15. Purged(h.free_itemq, m.free_itemq, s)
  <2>1. m.free_itemq = [h.free_itemq EXCEPT ![cls] = Without(@, slabbed)]
    BY <1>8, <1>9 DEF Evicted, Added
  <2>2. \A x \in Elems(h.free_itemq[cls]) : x \in slabbed <=> x[1] = s
    BY <1>1, <1>12, <1>13
  <2>3. \A c \in Class : c # cls => \A x \in Elems(h.free_itemq[c]) : x[1] # s
    BY <1>13 DEF item_id, item_2_slab
  <2> HIDE DEF slabbed, cls
  <2> QED
    BY <1>1, <1>13, <2>1, <2>2, <2>3, PurgeQueue
<1>16. \A k \in MaybeKey : m.hash[k] = IF h.hash[k] # NoItem /\ h.hash[k][1] = s THEN NoItem
                                       ELSE h.hash[k]
  <2>1. ASSUME NEW k \in MaybeKey, h.hash[k] # NoItem
        PROVE  k \in dead <=> h.hash[k][1] = s
    <3>1. h.hash[k] \in Item /\ k \in Key
      BY <2>1, LiveItems DEF Sound, HashOK, HeapOK, MaybeKey
    <3>2. item_is_linked(h, h.hash[k]) /\ h.hdr[h.hash[k]].key = k
      BY <2>1, <3>1 DEF Sound, HashOK
    <3>3. ASSUME h.hash[k][1] = s PROVE k \in dead
      BY <1>11, <3>1, <3>2, <3>3
    <3>4. ASSUME k \in dead PROVE h.hash[k][1] = s
      <4>1. PICK x \in linked : k = h.hdr[x].key
        BY <3>4
      <4>2. x \in Item /\ item_is_linked(h, x)
        BY <1>7, <4>1
      <4>3. h.hash[k] = x
        BY <4>1, <4>2 DEF Sound, HashOK
      <4> QED
        BY <1>11, <4>2, <4>3
    <3> QED
      BY <3>3, <3>4
  <2>2. \A k \in MaybeKey : m.hash[k] = IF k \in dead THEN NoItem ELSE h.hash[k]
    BY <1>8, <1>9 DEF Evicted, Added
  <2> HIDE DEF dead
  <2> QED
    BY <2>1, <2>2
<1>17. \A c \in Class : m.free_item[c] =
           IF c = id THEN <<s, 1>>
           ELSE IF h.free_item[c] # NoItem /\ h.free_item[c][1] = s THEN NoItem ELSE h.free_item[c]
  <2>1. h.free_item \in [Class -> MaybeItem]
    BY <1>1 DEF HeapType
  <2>2. \A c \in Class : h.free_item[c] # NoItem /\ h.free_item[c][1] = s => c = cls
    BY DEF Sound, CurrentOK
  <2>3. g.free_item = [h.free_item EXCEPT ![cls] =
                          IF @ # NoItem /\ @[1] = s THEN NoItem ELSE @]
    BY <1>8 DEF Evicted
  <2>4. m.free_item = [g.free_item EXCEPT ![id] = <<s, 1>>]
    BY <1>9 DEF Added
  <2> HIDE DEF cls
  <2> QED
    BY <1>1, <2>1, <2>2, <2>3, <2>4
<1>18. /\ NoDup(m.slab_lruq) /\ Elems(m.slab_lruq) = 1..m.nslab
  <2> DEFINE q == h.slab_lruq
             w == Without(q, {s})
  <2>1. q \in Seq(Slab) /\ NoDup(q) /\ Elems(q) = 1..h.nslab
    BY <1>1 DEF HeapType, Sound, SlabsOK
  <2>2. m.slab_lruq = Append(w, s) /\ m.nslab = h.nslab
    BY <1>8, <1>9 DEF Evicted, Added
  <2> HIDE DEF q
  <2>3. w \in Seq(Slab) /\ NoDup(w) /\ Elems(w) = Elems(q) \ {s}
    BY <2>1, WithoutProperties
  <2> HIDE DEF w
  <2>4. NoDup(Append(w, s)) /\ Elems(Append(w, s)) = Elems(w) \cup {s}
    BY <1>1, <2>3, AppendElems
  <2> QED
    BY <2>1, <2>2, <2>3, <2>4
<1>19. \A x \in Item :
          IF x[1] = s
          THEN m.refcount[x] = 0 /\ m.flags[x] = {}
          ELSE m.refcount[x] = h.refcount[x] /\ m.flags[x] = h.flags[x] /\ m.hdr[x] = h.hdr[x]
  <2> HIDE DEF linked, slabbed, dead
  <2> QED
    BY <1>4, <1>8, <1>9 DEF Evicted, Added
<1>20. m.slab_class = [h.slab_class EXCEPT ![s] = id] /\ m.nslab = h.nslab
  BY <1>8, <1>9 DEF Evicted, Added
<1>21. Fresh(h, m, s, id)
  BY <1>14, <1>15, <1>16, <1>17, <1>18, <1>19, <1>20 DEF Fresh
<1>22. Sound(m, {}) /\ Spares(h, m) /\ m.free_item[id] # NoItem
  BY <1>1, <1>2, <1>10, <1>21, FreshSound
<1>23. m.failed = h.failed
  BY <1>2, <1>4, <1>7, <1>8, <1>9 DEF Evicted, Added
<1> QED
  BY <1>22, <1>23 DEF m, g
\* Without a fault of malloc, and with the free queues in use, no ASSERT of an
\* allocation fails.
Safe(e) == use_freeq /\ max_nslab > 0 /\ e.malloc

\* Nothing changed, or only the record of failed assertions.
LEMMA SameSound ==
    ASSUME NEW h, NEW X, Sound(h, X), NEW m, HeapOK(m), Same(h, m)
    PROVE  Sound(m, X) /\ Spares(h, m)
<1>1. Sound(m, X)
  BY SameHeap DEF Same
<1>2. Spares(h, m)
  BY DEF Same, Spares, item_id
<1> QED
  BY <1>1, <1>2

\* What is spared twice is spared.
LEMMA SparesTrans ==
    ASSUME NEW h, NEW g, NEW m, Spares(h, g), Spares(g, m), g.refcount = h.refcount
    PROVE  Spares(h, m)
  BY DEF Spares

\* slab_get gives a class a fresh slab, of the pool or evicted, or leaves
\* everything as it was.
LEMMA SlabGetSound ==
    ASSUME NEW h, Sound(h, {}), CountsOK(h), NEW id \in Class, h.free_item[id] = NoItem,
           NEW f \in BOOLEAN, NEW e \in Env(h, f)
    PROVE  LET m == slab_get(h, id, e)
           IN  /\ Sound(m, {}) /\ Spares(h, m)
               /\ m.free_item[id] = NoItem => Same(h, m)
               /\ h.free_itemq[id] = << >> /\ Safe(e) => m.failed = h.failed
<1> DEFINE ok == h.free_item[id] = NoItem /\ h.free_itemq[id] = << >>
           h0 == Check(h, ok, "slab_get")
           lru == evict_opt \cap {"CS", "AS"} # {} /\ LruSlabs(h) # {}
           rand == "RS" \in evict_opt
           m == slab_get(h, id, e)
<1>1. HeapOK(h) /\ h \in HeapType /\ h.nslab \in 0..max_nslab /\ h.nslab \in Nat
  BY CountTypes DEF Sound, HeapOK, HeapType
<1>2. HeapOK(h0) /\ Same(h, h0) /\ (ok => h0.failed = h.failed)
  BY <1>1, CheckSame DEF AssertName
<1>3. Sound(h0, {}) /\ Spares(h, h0)
  BY <1>2, SameSound
<1>4. h0.slab_refcount = h.slab_refcount
  BY <1>1 DEF Check, HeapType
<1>5. CountsOK(h0) /\ h0.free_item[id] = NoItem /\ h0.nslab = h.nslab /\ h0.refcount = h.refcount
  BY <1>2, <1>4 DEF Same, CountsOK
<1>6. e.malloc \in BOOLEAN /\ e.junk \in Nat /\ e.rand \in IF h.nslab = 0 THEN {0} ELSE 1..h.nslab
  BY SlabAssumption DEF Env
<1> HIDE DEF h0, ok
<1>7. CASE h.nslab < max_nslab /\ e.malloc
  <2> DEFINE s == h0.nslab + 1
  <2>1. m = slab_add_one([h0 EXCEPT !.nslab = s, !.utime[s] = e.junk], s, id)
    BY <1>5, <1>7 DEF slab_get, h0, ok
  <2> HIDE DEF m
  <2>2. /\ Sound(m, {}) /\ Spares(h0, m) /\ m.failed = h0.failed /\ m.free_item[id] # NoItem
    BY <1>3, <1>5, <1>6, <1>7, <2>1, PoolSound
  <2>3. Spares(h, m)
    BY <1>3, <1>5, <2>2, SparesTrans
  <2> QED
    BY <1>2, <2>2, <2>3 DEF m, ok
<1>8. ASSUME NEW s \in 1..h.nslab, h.slab_refcount[s] = 0,
             m = slab_add_one(slab_evict_one(h0, s), s, id)
      PROVE  /\ Sound(m, {}) /\ Spares(h, m) /\ m.failed = h0.failed /\ m.free_item[id] # NoItem
  <2> HIDE DEF m
  <2>1. s \in 1..h0.nslab /\ h0.slab_refcount[s] = 0
    BY <1>4, <1>5, <1>8
  <2>2. /\ Sound(m, {}) /\ Spares(h0, m) /\ m.failed = h0.failed /\ m.free_item[id] # NoItem
    BY <1>3, <1>5, <1>8, <2>1, EvictSound
  <2> QED
    BY <1>3, <1>5, <2>2, SparesTrans
<1>9. CASE ~(h.nslab < max_nslab /\ e.malloc) /\ lru
  <2> DEFINE s == FirstAt(h.slab_lruq, LruSlabs(h))
  <2>1. h.slab_lruq \in Seq(1..h.nslab)
    BY <1>1 DEF HeapOK
  <2>2. LruSlabs(h) \in SUBSET (DOMAIN h.slab_lruq) /\ LruSlabs(h) # {}
    BY <1>9 DEF LruSlabs
  <2>3. PICK i \in LruSlabs(h) : s = h.slab_lruq[i] /\ h.slab_lruq[i] \in 1..h.nslab
    <3> DEFINE q == h.slab_lruq
               T == 1..h.nslab
               I == LruSlabs(h)
    <3>1. q \in Seq(T) /\ I \in SUBSET (DOMAIN q) /\ I # {}
      BY <2>1, <2>2
    <3> HIDE DEF q, T, I
    <3>2. \E i \in I : FirstAt(q, I) = q[i] /\ q[i] \in T
      BY <3>1, FirstAtProperties
    <3> QED
      BY <3>2 DEF q, T, I
  <2>4. s \in 1..h.nslab /\ h.slab_refcount[s] = 0
    BY <2>3 DEF LruSlabs
  <2>5. m = slab_add_one(slab_evict_one(h0, s), s, id)
    BY <1>9 DEF slab_get, h0, ok
  <2> HIDE DEF s, m
  <2>6. /\ Sound(m, {}) /\ Spares(h, m) /\ m.failed = h0.failed /\ m.free_item[id] # NoItem
    BY <1>8, <2>4, <2>5
  <2> QED
    BY <1>2, <2>6 DEF m, ok
<1>10. CASE ~(h.nslab < max_nslab /\ e.malloc) /\ ~lru /\ rand /\ RandSlabs(h, e) # {}
  <2>1. e.rand \in 1..h.nslab /\ h.slab_refcount[e.rand] = 0
    BY <1>6, <1>10 DEF RandSlabs
  <2>2. m = slab_add_one(slab_evict_one(h0, e.rand), e.rand, id)
    BY <1>10 DEF slab_get, h0, ok
  <2> HIDE DEF m
  <2>3. /\ Sound(m, {}) /\ Spares(h, m) /\ m.failed = h0.failed /\ m.free_item[id] # NoItem
    BY <1>8, <2>1, <2>2
  <2> QED
    BY <1>2, <2>3 DEF m, ok
<1>11. CASE ~(h.nslab < max_nslab /\ e.malloc) /\ ~lru /\ ~(rand /\ RandSlabs(h, e) # {})
  <2> DEFINE ok2 == ~rand \/ e.rand # 0
  <2>1. m = Check(h0, ok2, "slab_table_rand")
    BY <1>11 DEF slab_get, h0, ok
  <2>2. Safe(e) => ok2
    BY <1>1, <1>6, <1>11, SlabAssumption DEF Safe
  <2> HIDE DEF m, ok2
  <2>3. HeapOK(m) /\ Same(h0, m) /\ (ok2 => m.failed = h0.failed)
    BY <1>2, <2>1, CheckSame DEF AssertName
  <2>4. Same(h, m)
    BY <1>2, <2>3 DEF Same
  <2>5. Sound(m, {}) /\ Spares(h, m)
    BY <2>3, <2>4, SameSound
  <2> QED
    BY <1>2, <2>2, <2>3, <2>4, <2>5 DEF m, ok
<1> HIDE DEF m
<1> QED
  BY <1>7, <1>9, <1>10, <1>11 DEF m

\* What an allocation step r from h has for its caller: nothing, or an item
\* of class id that is nowhere else.
Handed(h, r, id) ==
    /\ Spares(h, r.mem)
    /\ r.it = NoItem => Sound(r.mem, {})
    /\ r.it # NoItem => r.it \in Item /\ Sound(r.mem, {r.it}) /\ item_id(r.mem, r.it) = id

\* slab_get_item hands out an item or leaves everything as it was.
LEMMA SlabItemSound ==
    ASSUME NEW h, Sound(h, {}), CountsOK(h), NEW id \in Class,
           NEW f \in BOOLEAN, NEW e \in Env(h, f)
    PROVE  LET r == slab_get_item(h, id, e)
           IN  /\ Handed(h, r, id)
               /\ r.it = NoItem => Same(h, r.mem)
               /\ Safe(e) => r.mem.failed = h.failed
<1> DEFINE r == slab_get_item(h, id, e)
<1>0. HeapOK(h) /\ h.refcount = h.refcount
  BY DEF Sound
<1>1. CASE use_freeq /\ h.free_itemq[id] # << >>
  <2>1. r = slab_get_item_from_freeq(h, id)
    BY <1>1 DEF slab_get_item
  <2> HIDE DEF r
  <2>2. /\ r.it \in Item /\ Sound(r.mem, {r.it}) /\ Spares(h, r.mem)
        /\ r.mem.failed = h.failed /\ item_id(r.mem, r.it) = id
    BY <1>1, <2>1, FreeqSound
  <2>3. r.it # NoItem
    BY <2>2, SlabAssumption
  <2> QED
    BY <2>2, <2>3 DEF r, Handed
<1>2. CASE ~(use_freeq /\ h.free_itemq[id] # << >>)
  <2> DEFINE g == IF h.free_item[id] = NoItem THEN slab_get(h, id, e) ELSE h
  <2>1. r = slab_next_item(g, id)
    BY <1>2 DEF slab_get_item
  <2>2. /\ Sound(g, {}) /\ Spares(h, g)
        /\ g.free_item[id] = NoItem => Same(h, g)
        /\ Safe(e) => g.failed = h.failed
        /\ g.refcount = h.refcount
    <3>1. CASE h.free_item[id] = NoItem
      <4>1. g = slab_get(h, id, e)
        BY <3>1
      <4>2. Quiet(h, g)
        BY <1>0, <4>1, GetSlabQuiet
      <4>3. Safe(e) => h.free_itemq[id] = << >>
        BY <1>2 DEF Safe
      <4> HIDE DEF g
      <4>4. /\ Sound(g, {}) /\ Spares(h, g)
            /\ g.free_item[id] = NoItem => Same(h, g)
            /\ h.free_itemq[id] = << >> /\ Safe(e) => g.failed = h.failed
        BY <3>1, <4>1, SlabGetSound
      <4> QED
        BY <4>2, <4>3, <4>4 DEF Quiet
    <3>2. CASE h.free_item[id] # NoItem
      BY <3>2 DEF Spares
    <3> QED
      BY <3>1, <3>2
  <2> HIDE DEF g
  <2>3. CASE g.free_item[id] = NoItem
    <3>1. r.it = NoItem /\ r.mem = g
      BY <2>1, <2>3 DEF slab_next_item
    <3> HIDE DEF r
    <3> QED
      BY <2>2, <2>3, <3>1 DEF Handed, r
  <2>4. CASE g.free_item[id] # NoItem
    <3> HIDE DEF r
    <3>1. /\ r.it \in Item /\ Sound(r.mem, {r.it}) /\ Spares(g, r.mem)
          /\ r.mem.failed = g.failed /\ item_id(r.mem, r.it) = id
      BY <2>1, <2>2, <2>4, NextItemSound
    <3>2. r.it # NoItem
      BY <3>1, SlabAssumption
    <3>3. Spares(h, r.mem)
      BY <2>2, <3>1, SparesTrans
    <3> QED
      BY <2>2, <3>1, <3>2, <3>3 DEF Handed, r
  <2> QED
    BY <2>3, <2>4
<1> QED
  BY <1>1, <1>2

\* item_get_from_lruq finds an unreferenced linked item of the class, or none.
LEMMA LruqFinds ==
    ASSUME NEW h, Sound(h, {}), NEW id \in Class, item_get_from_lruq(h, id) # NoItem
    PROVE  LET it == item_get_from_lruq(h, id)
           IN  /\ it \in Item /\ item_is_linked(h, it) /\ item_id(h, it) = id
               /\ h.refcount[it] = 0
<1> DEFINE q == h.item_lruq[id]
           unused == {i \in DOMAIN q : i <= ITEM_LRUQ_MAX_TRIES /\ h.refcount[q[i]] = 0}
           expired == {i \in unused : item_expired(h, q[i])}
           it == item_get_from_lruq(h, id)
<1>1. q \in Seq(Item)
  BY DEF Sound, HeapOK, HeapType
<1>2. \/ expired # {} /\ it = FirstAt(q, expired)
      \/ unused # {} /\ it = FirstAt(q, unused)
  BY DEF item_get_from_lruq
<1> HIDE DEF it
<1>3. PICK I \in SUBSET unused : I # {} /\ it = FirstAt(q, I)
  <2>1. expired \in SUBSET unused /\ unused \in SUBSET unused
    OBVIOUS
  <2> HIDE DEF expired, unused
  <2> QED
    BY <1>2, <2>1
<1>4. PICK i \in I : it = q[i] /\ q[i] \in Item
  <2>1. I \in SUBSET (DOMAIN q)
    OBVIOUS
  <2> HIDE DEF q
  <2> QED
    BY <1>1, <1>3, <2>1, FirstAtProperties
<1>5. it \in Item /\ it \in Elems(q) /\ h.refcount[it] = 0
  BY <1>4 DEF Elems
<1> QED
  BY <1>5 DEF Sound, LruqOK, it

\* item_obtain hands out an item, or none.
LEMMA ObtainSound ==
    ASSUME NEW h, Sound(h, {}), CountsOK(h), NEW id \in Class,
           NEW f \in BOOLEAN, NEW e \in Env(h, f)
    PROVE  LET r == item_obtain(h, id, e)
           IN  /\ Handed(h, r, id)
               /\ Safe(e) => r.mem.failed = h.failed
<1> DEFINE lit == item_get_from_lruq(h, id)
           sg == slab_get_item(h, id, e)
           r == item_obtain(h, id, e)
<1>1. lit # NoItem => /\ lit \in Item /\ item_is_linked(h, lit) /\ item_id(h, lit) = id
                      /\ h.refcount[lit] = 0
  BY LruqFinds
<1>2. /\ Handed(h, sg, id)
      /\ sg.it = NoItem => Same(h, sg.mem)
      /\ Safe(e) => sg.mem.failed = h.failed
  BY SlabItemSound
<1>3. r = item_choose(h, lit, sg)
  BY DEF item_obtain
<1> HIDE DEF lit, sg, r
<1>4. CASE lit # NoItem /\ item_expired(h, lit)
  <2>1. r.mem = item_reuse(h, lit) /\ r.it = lit
    BY <1>3, <1>4 DEF item_choose
  <2>2. /\ Sound(r.mem, {lit}) /\ Spares(h, r.mem) /\ r.mem.failed = h.failed
        /\ item_id(r.mem, lit) = item_id(h, lit)
    BY <1>1, <1>4, <2>1, ReuseSound
  <2> QED
    BY <1>1, <1>4, <2>1, <2>2 DEF Handed, r
<1>5. CASE ~(lit # NoItem /\ item_expired(h, lit)) /\ (sg.it # NoItem \/ lit = NoItem \/ "LRU" \notin evict_opt)
  <2>1. r = sg
    BY <1>3, <1>5 DEF item_choose
  <2> QED
    BY <1>2, <2>1 DEF r
<1>6. CASE ~(lit # NoItem /\ item_expired(h, lit)) /\ ~(sg.it # NoItem \/ lit = NoItem \/ "LRU" \notin evict_opt)
  <2>1. r.mem = item_reuse(sg.mem, lit) /\ r.it = lit
    BY <1>3, <1>6 DEF item_choose
  <2>2. Same(h, sg.mem) /\ Sound(sg.mem, {}) /\ Spares(h, sg.mem)
    BY <1>2, <1>6 DEF Handed
  <2>3. /\ lit \in Item /\ item_is_linked(sg.mem, lit) /\ item_id(sg.mem, lit) = id
        /\ sg.mem.refcount[lit] = 0
    BY <1>1, <1>6, <2>2 DEF Same, item_is_linked, item_id
  <2>4. /\ Sound(r.mem, {lit}) /\ Spares(sg.mem, r.mem) /\ r.mem.failed = sg.mem.failed
        /\ item_id(r.mem, lit) = id
    BY <2>1, <2>2, <2>3, ReuseSound
  <2>5. Spares(h, r.mem)
    BY <2>2, <2>4, SparesTrans DEF Same
  <2> QED
    BY <1>2, <1>6, <2>1, <2>3, <2>4, <2>5 DEF Handed, r
<1> QED
  BY <1>4, <1>5, <1>6
\* item_alloc gives the item it hands out its key, and one reference.
LEMMA AllocSound ==
    ASSUME NEW h, Sound(h, {}), CountsOK(h), Room(h, 1), NEW id \in Class,
           NEW key \in Key, NEW exptime \in Nat, NEW nbyte \in Nat,
           NEW f \in BOOLEAN, NEW e \in Env(h, f)
    PROVE  LET r == item_alloc(h, id, key, exptime, nbyte, e)
           IN  /\ Sound(r.mem, {}) /\ Spares(h, r.mem)
               /\ Safe(e) => r.mem.failed = h.failed
               /\ r.it # NoItem => /\ r.it \in Item /\ h.refcount[r.it] = 0
                                   /\ r.mem.flags[r.it] = {} /\ r.mem.hdr[r.it].key = key
<1> DEFINE got == item_obtain(h, id, e)
           g == got.mem
           it == got.it
           r == item_alloc(h, id, key, exptime, nbyte, e)
           m == r.mem
<1>1. Handed(h, got, id) /\ (Safe(e) => g.failed = h.failed)
  BY ObtainSound
<1>2. Quiet(h, g) /\ HeapOK(h)
  BY ObtainQuiet DEF Sound
<1>3. Got(h, r)
  <2>1. key \in MaybeKey
    BY DEF MaybeKey
  <2> QED
    BY <1>2, <2>1, AllocGot
<1>4. r = item_init(got, id, key, exptime, nbyte)
  BY DEF item_alloc
<1> HIDE DEF got
<1>5. CASE it = NoItem
  <2>1. r = got
    BY <1>4, <1>5 DEF item_init
  <2> QED
    BY <1>1, <1>5, <2>1 DEF Handed
<1>6. CASE it # NoItem
  <2> DEFINE ok == /\ item_id(g, it) = id
                   /\ ~item_is_linked(g, it)
                   /\ ~item_is_slabbed(g, it)
                   /\ g.refcount[it] = 0
             hd == [key |-> key, nbyte |-> nbyte, exptime |-> exptime, atime |-> 0, cas |-> 0]
             a == item_acquire_refcount(g, it)
  <2>1. it \in Item /\ Sound(g, {it}) /\ item_id(g, it) = id /\ Spares(h, g)
    BY <1>1, <1>6 DEF Handed
  <2>2. ok /\ HeapOK(g) /\ g \in HeapType /\ h.refcount[it] = 0
    BY <1>2, <2>1 DEF Sound, Whereabouts, HeapOK, Quiet
  <2>3. Chunk(g, it) /\ ~Unused(g, it) /\ item_id(g, it) \in Class
    BY <2>1, InUse
  <2>4. Check(g, ok, "item_alloc") = g
    BY <2>2, CheckSame DEF AssertName
  <2>5. m = [a EXCEPT !.flags[it] = {}, !.hdr[it] = hd] /\ r.it = it
    <3> DEFINE c == Check(g, ok, "item_alloc")
    <3>1. item_init(got, id, key, exptime, nbyte) =
              [mem |-> [item_acquire_refcount(c, it) EXCEPT !.flags[it] = {}, !.hdr[it] = hd],
               it |-> it]
      BY <1>6 DEF item_init
    <3> HIDE DEF c, hd, r
    <3>2. c = g
      BY <2>4 DEF c
    <3> QED
      BY <1>4, <3>1, <3>2
  <2> HIDE DEF ok
  <2>6. Plus(h, m, it)
    BY <1>3, <1>6, <2>5 DEF Got
  <2>7. HeapOK(m) /\ m.refcount = [h.refcount EXCEPT ![it] = @ + 1] /\ h.refcount \in [Item -> Nat]
    BY <1>2, <2>6, CountTypes DEF Plus
  <2> HIDE DEF r, hd
  <2>8. /\ m.slab_class = g.slab_class /\ m.nslab = g.nslab /\ m.slab_lruq = g.slab_lruq
        /\ m.flags = [g.flags EXCEPT ![it] = {}]
        /\ m.hdr = [g.hdr EXCEPT ![it] = hd]
        /\ m.free_item = g.free_item /\ m.free_itemq = g.free_itemq
        /\ m.item_lruq = g.item_lruq /\ m.hash = g.hash /\ m.failed = g.failed
    <3>1. /\ a.slab_class = g.slab_class /\ a.nslab = g.nslab /\ a.slab_lruq = g.slab_lruq
          /\ a.flags = g.flags /\ a.hdr = g.hdr
          /\ a.free_item = g.free_item /\ a.free_itemq = g.free_itemq
          /\ a.item_lruq = g.item_lruq /\ a.hash = g.hash /\ a.failed = g.failed
          /\ DOMAIN a = DOMAIN g
      BY <2>2 DEF item_acquire_refcount, slab_acquire_refcount, HeapType
    <3> HIDE DEF a, m, g
    <3>2. DOMAIN a = {"flags", "refcount", "hdr", "slab_class", "slab_refcount", "utime",
                      "nslab", "slab_lruq", "free_item", "free_itemq", "item_lruq", "hash",
                      "cas_id", "failed"}
      BY <2>2, <3>1 DEF HeapType
    <3> QED
      BY <2>5, <3>1, <3>2
  <2>9. g.refcount = h.refcount
    BY <1>2 DEF Quiet
  <2> HIDE DEF m, g, it
  <2>10. g.flags \in [Item -> SUBSET ItemFlag] /\ g.hdr \in [Item -> ItemHdr]
    BY <2>2 DEF HeapType
  <2>11. m.flags[it] = {} /\ m.hdr[it].key = key /\ m.refcount[it] = 1
    BY <2>1, <2>2, <2>7, <2>8, <2>10 DEF hd
  <2>12. /\ ~item_is_linked(m, it) /\ ~item_is_slabbed(m, it)
         /\ ~item_is_linked(g, it) /\ ~item_is_slabbed(g, it)
    BY <2>2, <2>11 DEF item_is_linked, item_is_slabbed, ok
  <2>13. SlabsSame(g, m)
    BY <2>1, <2>8 DEF SlabsSame, Sound, SlabsOK
  <2>14. (\A x : Unused(m, x) <=> Unused(g, x)) /\ CurrentOK(m)
    BY <2>1, <2>8 DEF Unused, CurrentOK, Sound
  <2>15. OthersSame(g, m, it)
    BY <2>7, <2>8, <2>9, <2>10, <2>14 DEF OthersSame
  <2>16. Requeued(g.item_lruq, m.item_lruq, it, item_id(g, it), item_is_linked(m, it))
    BY <2>1, <2>8, <2>12, SoundQueues, QueueSame
  <2>17. Requeued(g.free_itemq, m.free_itemq, it, item_id(g, it), item_is_slabbed(m, it))
    BY <2>1, <2>8, <2>12, SoundQueues, QueueSame
  <2>18. Rehashed(g, m, it)
    BY <2>1, <2>8, <2>12, HashNot DEF Rehashed
  <2>19. Sound(m, IF InHand(m, it) THEN {it} \cup {it} ELSE {it} \ {it})
    <3>1. (m.refcount[it] > 0 => m.hdr[it].key \in Key) /\ ~Unused(m, it)
      BY <2>3, <2>11, <2>14
    <3> QED
      BY <2>1, <2>3, <2>7, <2>12, <2>13, <2>14, <2>15, <2>16, <2>17, <2>18, <3>1, OneItem
  <2>20. Sound(m, {})
    BY <2>11, <2>19 DEF InHand
  <2>21. Spares(h, m)
    <3>1. \A x \in Item : h.refcount[x] > 0 => x # it
      BY <2>2
    <3>2. \A x \in Item : x # it => /\ m.flags[x] = g.flags[x] /\ m.hdr[x] = g.hdr[x]
                                    /\ item_id(m, x) = item_id(g, x)
      BY <2>8, <2>10 DEF item_id
    <3> QED
      BY <2>1, <3>1, <3>2 DEF Spares
  <2>22. Safe(e) => m.failed = h.failed
    BY <1>1, <2>8 DEF g
  <2> QED
    BY <2>1, <2>2, <2>5, <2>11, <2>20, <2>21, <2>22 DEF m, r
<1> QED
  BY <1>5, <1>6

-----------------------------------------------------------------------------
(***************************************************************************)
(* The operations of the protocol.                                         *)
(***************************************************************************)

\* item_relink of two referenced items with the same key.
LEMMA RelinkSound ==
    ASSUME NEW h, Sound(h, {}), now \in Nat,
           NEW it \in Item, item_is_linked(h, it), h.refcount[it] > 0,
           NEW nit \in Item, ~item_is_linked(h, nit), h.refcount[nit] > 0,
           h.hdr[nit].key = h.hdr[it].key
    PROVE  LET m == item_relink(h, it, nit)
           IN  /\ Sound(m, {}) /\ Keeps(h, m, {nit}) /\ m.failed = h.failed
               /\ Quiet(h, m)
<1> DEFINE ok == ~item_is_slabbed(h, it) /\ ~item_is_slabbed(h, nit)
           g == item_unlink(h, it)
           m == item_relink(h, it, nit)
<1>1. HeapOK(h) /\ ok /\ it \in Live(h) /\ nit \in Live(h) /\ nit # it
  BY InUse, CountTypes DEF Sound, ItemOK
<1>2. Check(h, ok, "item_relink") = h
  BY <1>1, CheckSame DEF AssertName
<1>3. m = item_link(g, nit)
  BY <1>2 DEF item_relink
<1>4. Quiet(h, m)
  BY <1>1, RelinkQuiet
<1> HIDE DEF m
<1>5. /\ Sound(g, {}) /\ Keeps(h, g, {}) /\ g.failed = h.failed
      /\ g.refcount = h.refcount
      /\ g.hash[h.hdr[it].key] = NoItem
      /\ Apart(h, g, it)
  BY UnlinkSound
<1> HIDE DEF g
<1>6. /\ g.refcount[nit] > 0 /\ ~item_is_linked(g, nit) /\ g.hash[g.hdr[nit].key] = NoItem
  BY <1>1, <1>5 DEF Apart, item_is_linked
<1>7. /\ Sound(m, {}) /\ Keeps(g, m, {nit}) /\ m.failed = g.failed
  BY <1>3, <1>5, <1>6, LinkSound
<1>8. Keeps(h, m, {nit})
  <2>1. Keeps(h, g, {nit})
    BY <1>5, KeepsMore
  <2> QED
    BY <1>5, <1>7, <2>1, KeepsTrans
<1> QED
  BY <1>4, <1>5, <1>7, <1>8 DEF m

\* What an operation of the protocol does, but for the items in T.
Good(h, m, T) == Sound(m, {}) /\ Keeps(h, m, T) /\ m.failed = h.failed

\* A found item, referenced by the lookup, is replaced by another and
\* released.
LEMMA SupplantSound ==
    ASSUME NEW g, Sound(g.mem, {}), CountsOK(g.mem), now \in Nat,
           g.it \in Item, item_is_linked(g.mem, g.it), g.mem.refcount[g.it] > 0,
           NEW it \in Item, ~item_is_linked(g.mem, it), g.mem.refcount[it] > 0,
           g.mem.hdr[it].key = g.mem.hdr[g.it].key
    PROVE  Good(g.mem, item_supplant(g, it), {it})
<1> DEFINE h == g.mem
           a == item_relink(h, g.it, it)
           m == item_supplant(g, it)
<1>1. /\ Sound(a, {}) /\ Keeps(h, a, {it}) /\ a.failed = h.failed /\ Quiet(h, a)
  BY RelinkSound
<1>2. m = item_remove(a, g.it)
  BY DEF item_supplant
<1> HIDE DEF a, m
<1>3. a.refcount = h.refcount /\ CountsOK(a)
  BY <1>1, QuietLive DEF Quiet, Sound
<1>4. Sound(m, {}) /\ Keeps(a, m, {}) /\ m.failed = a.failed
  BY <1>1, <1>2, <1>3, RemoveSound
<1>5. Keeps(h, m, {it})
  <2>1. Keeps(a, m, {it})
    BY <1>4, KeepsMore
  <2> HIDE DEF h
  <2> QED
    BY <1>1, <1>3, <2>1, KeepsTrans
<1> QED
  BY <1>1, <1>4, <1>5 DEF Good, m

\* The lookup an operation starts with.
LEMMA LookupSound ==
    ASSUME NEW h, Sound(h, {}), Ready(h), NEW k \in Key
    PROVE  LET r == item_get(h, k)
           IN  /\ Good(h, r.mem, {}) /\ CountsOK(r.mem) /\ HeapOK(r.mem)
               /\ \A x \in Item : h.refcount[x] > 0 => r.mem.refcount[x] > 0
               /\ r.it = NoItem => r.mem.hash[k] = NoItem /\ Quiet(h, r.mem)
               /\ r.it # NoItem => /\ r.it \in Item /\ item_is_linked(r.mem, r.it)
                                   /\ r.mem.hdr[r.it].key = k
                                   /\ r.mem.refcount[r.it] > 0 /\ item_is_linked(h, r.it)
                                   /\ Plus(h, r.mem, r.it) /\ Room(r.mem, 1)
               /\ \A x \in Item : h.refcount[x] > 0 /\ ~item_is_linked(h, x) =>
                     /\ r.mem.flags[x] = h.flags[x] /\ ~item_is_linked(r.mem, x)
                     /\ r.mem.hdr[x].key = h.hdr[x].key
<1> DEFINE r == item_get(h, k)
<1>1. HeapOK(h) /\ CountsOK(h) /\ Room(h, 2) /\ Room(h, 1) /\ k \in MaybeKey
  BY RoomAfter DEF Ready, MaybeKey
<1>2. \/ r.it = NoItem /\ Quiet(h, r.mem)
      \/ /\ r.it # NoItem /\ Plus(h, r.mem, r.it)
         /\ HeapOK(r.mem) /\ CountsOK(r.mem) /\ Room(r.mem, 1)
  BY <1>1, Lookup
<1>3. /\ Sound(r.mem, {}) /\ Keeps(h, r.mem, {}) /\ r.mem.failed = h.failed
      /\ r.it = NoItem => r.mem.refcount = h.refcount /\ r.mem.hash[k] = NoItem
      /\ r.it # NoItem => /\ r.it \in Item /\ item_is_linked(h, r.it)
                          /\ h.hdr[r.it].key = k
                          /\ Recounted(h, r.mem, r.it) /\ r.mem.refcount[r.it] > 0
  BY <1>1, GetSound
<1> HIDE DEF r
<1>4. CountsOK(r.mem) /\ HeapOK(r.mem)
  BY <1>1, <1>2, QuietLive
<1>5. \A x \in Item : h.refcount[x] > 0 => r.mem.refcount[x] > 0
  BY <1>3 DEF Recounted
<1>6. r.it # NoItem => /\ item_is_linked(r.mem, r.it) /\ r.mem.hdr[r.it].key = k
  BY <1>3 DEF Recounted, item_is_linked
<1>7. \A x \in Item : h.refcount[x] > 0 /\ ~item_is_linked(h, x) =>
         /\ r.mem.flags[x] = h.flags[x] /\ ~item_is_linked(r.mem, x)
         /\ r.mem.hdr[x].key = h.hdr[x].key
  BY <1>3, <1>5 DEF Keeps, item_is_linked
<1> QED
  BY <1>2, <1>3, <1>4, <1>5, <1>6, <1>7 DEF Good, r

\* Two steps of an operation.
LEMMA GoodTrans ==
    ASSUME NEW h, NEW g, NEW m, NEW T, Good(h, g, {}), Good(g, m, T),
           \A x \in Item : h.refcount[x] > 0 /\ m.refcount[x] > 0 => g.refcount[x] > 0
    PROVE  Good(h, m, T)
<1>1. Keeps(h, g, T)
  BY KeepsMore DEF Good
<1>2. Keeps(h, m, T)
  BY <1>1, KeepsTrans DEF Good
<1> QED
  BY <1>2 DEF Good

\* set, add, replace and cas of an item that is referenced and not linked.
LEMMA StoreSound ==
    ASSUME NEW h, Sound(h, {}), Ready(h), NEW it \in Item,
           h.refcount[it] > 0, ~item_is_linked(h, it)
    PROVE  /\ Good(h, item_set(h, it), {it})
           /\ Good(h, item_cas(h, it), {it})
           /\ Good(h, item_add(h, it), {it})
           /\ Good(h, item_replace(h, it), {it})
<1> DEFINE k == h.hdr[it].key
           g == item_get(h, k)
           r == g.mem
<1>1. k \in Key /\ now \in Nat
  BY DEF Sound, ItemOK, Ready
<1>2. /\ Good(h, r, {}) /\ CountsOK(r) /\ HeapOK(r)
      /\ \A x \in Item : h.refcount[x] > 0 => r.refcount[x] > 0
      /\ g.it = NoItem => r.hash[k] = NoItem /\ Quiet(h, r)
      /\ g.it # NoItem => /\ g.it \in Item /\ item_is_linked(r, g.it)
                          /\ r.hdr[g.it].key = k
                          /\ r.refcount[g.it] > 0 /\ item_is_linked(h, g.it)
      /\ r.flags[it] = h.flags[it] /\ ~item_is_linked(r, it)
      /\ r.hdr[it].key = h.hdr[it].key
  <2> HIDE DEF k
  <2> QED
    BY <1>1, LookupSound
<1>3. r.refcount[it] > 0 /\ r.hdr[it].key = k /\ Sound(r, {})
  BY <1>2 DEF Good
<1>4. Good(h, r, {it})
  BY <1>2, KeepsMore DEF Good
<1>5. ASSUME NEW m, Good(r, m, {it})
      PROVE  Good(h, m, {it})
  <2> HIDE DEF r
  <2> QED
    BY <1>2, <1>5, GoodTrans
<1>6. ASSUME g.it = NoItem
      PROVE  Good(h, item_link(r, it), {it})
  <2> HIDE DEF k, g
  <2>1. r.hash[r.hdr[it].key] = NoItem
    BY <1>2, <1>3, <1>6
  <2>2. Good(r, item_link(r, it), {it})
    <3> HIDE DEF r
    <3> QED
      BY <1>1, <1>2, <1>3, <2>1, LinkSound DEF Good
  <2> QED
    BY <1>5, <2>2
<1>7. ASSUME g.it # NoItem
      PROVE  Good(h, item_supplant(g, it), {it}) /\ Good(h, item_remove(r, g.it), {it})
  <2> HIDE DEF k, g
  <2>1. Good(r, item_supplant(g, it), {it})
    BY <1>1, <1>2, <1>3, <1>7, SupplantSound
  <2>2. Good(r, item_remove(r, g.it), {})
    <3> HIDE DEF r
    <3> QED
      BY <1>2, <1>3, <1>7, RemoveSound DEF Good
  <2>3. Good(r, item_remove(r, g.it), {it})
    BY <2>2, KeepsMore DEF Good
  <2> QED
    BY <1>5, <2>1, <2>3
<1>8. Good(h, item_set(h, it), {it})
  <2>1. item_set(h, it) = IF g.it = NoItem THEN item_link(r, it) ELSE item_supplant(g, it)
    BY DEF item_set
  <2> HIDE DEF g
  <2> QED
    BY <1>6, <1>7, <2>1
<1>9. Good(h, item_cas(h, it), {it})
  <2>1. item_cas(h, it) = IF g.it = NoItem THEN r
                          ELSE IF r.hdr[it].cas # r.hdr[g.it].cas THEN item_remove(r, g.it)
                          ELSE item_supplant(g, it)
    BY DEF item_cas
  <2> HIDE DEF g
  <2> QED
    BY <1>4, <1>7, <2>1
<1>10. Good(h, item_add(h, it), {it})
  <2>1. item_add(h, it) = IF g.it = NoItem THEN item_link(r, it) ELSE item_remove(r, g.it)
    BY DEF item_add
  <2> HIDE DEF g
  <2> QED
    BY <1>6, <1>7, <2>1
<1>11. Good(h, item_replace(h, it), {it})
  <2>1. item_replace(h, it) = IF g.it = NoItem THEN r ELSE item_supplant(g, it)
    BY DEF item_replace
  <2> HIDE DEF g
  <2> QED
    BY <1>4, <1>7, <2>1
<1> QED
  BY <1>8, <1>9, <1>10, <1>11
\* An item is marked as right-aligned, or left as it is.
Marked(h, m, it) ==
    \E F \in SUBSET {"RALIGN"} : m = [h EXCEPT !.flags[it] = @ \cup F]

\* Marking a new item as right-aligned.
LEMMA RalignSound ==
    ASSUME NEW h, Sound(h, {}), NEW it \in Item, h.refcount[it] > 0, ~item_is_linked(h, it),
           NEW m, Marked(h, m, it)
    PROVE  /\ Good(h, m, {it}) /\ Quiet(h, m) /\ m.hdr = h.hdr /\ m.slab_class = h.slab_class
           /\ ~item_is_linked(m, it)
           /\ \A x \in Item : x # it => m.flags[x] = h.flags[x]
<1> DEFINE id == item_id(h, it)
<1> PICK F \in SUBSET {"RALIGN"} : m = [h EXCEPT !.flags[it] = @ \cup F]
  BY DEF Marked
<1>1. /\ HeapOK(h) /\ h \in HeapType /\ h.flags \in [Item -> SUBSET ItemFlag]
      /\ Chunk(h, it) /\ ~Unused(h, it) /\ id \in Class
      /\ ~item_is_slabbed(h, it) /\ h.hdr[it].key \in Key
  <2>1. HeapOK(h) /\ h \in HeapType /\ h.flags \in [Item -> SUBSET ItemFlag]
    BY DEF Sound, HeapOK, HeapType
  <2>2. Chunk(h, it) /\ ~Unused(h, it) /\ id \in Class
    BY InUse
  <2>3. h.refcount[it] \in Nat
    BY <2>1, CountTypes
  <2>4. ~item_is_slabbed(h, it) /\ h.hdr[it].key \in Key
    BY <2>3 DEF Sound, ItemOK
  <2> QED
    BY <2>1, <2>2, <2>4
<1>2. /\ m.slab_class = h.slab_class /\ m.nslab = h.nslab /\ m.slab_lruq = h.slab_lruq
      /\ m.flags = [h.flags EXCEPT ![it] = h.flags[it] \cup F]
      /\ m.refcount = h.refcount /\ m.hdr = h.hdr
      /\ m.free_item = h.free_item /\ m.free_itemq = h.free_itemq
      /\ m.item_lruq = h.item_lruq /\ m.hash = h.hash /\ m.failed = h.failed
  BY <1>1 DEF HeapType
<1>3. Quiet(h, m) /\ HeapOK(m)
  <2>1. h.flags[it] \cup F \in SUBSET ItemFlag
    BY <1>1 DEF ItemFlag
  <2>2. Quiet(h, [h EXCEPT !.flags[it] = h.flags[it] \cup F])
    BY <1>1, <2>1, FlagsQuiet
  <2>3. m = [h EXCEPT !.flags[it] = h.flags[it] \cup F]
    BY <1>1 DEF HeapType
  <2> QED
    BY <2>2, <2>3 DEF Quiet
<1>4. ~item_is_linked(m, it) /\ ~item_is_slabbed(m, it)
  BY <1>1, <1>2 DEF item_is_linked, item_is_slabbed
<1>5. SlabsSame(h, m)
  BY <1>2 DEF SlabsSame, Sound, SlabsOK
<1>6. (\A x : Unused(m, x) <=> Unused(h, x)) /\ CurrentOK(m)
  BY <1>2 DEF Unused, CurrentOK, Sound
<1>7. \A x \in Item : x # it => m.flags[x] = h.flags[x]
  BY <1>1, <1>2
<1>8. OthersSame(h, m, it)
  BY <1>2, <1>6, <1>7 DEF OthersSame
<1>9. Requeued(h.item_lruq, m.item_lruq, it, id, item_is_linked(m, it))
  BY <1>2, <1>4, SoundQueues, QueueSame
<1>10. Requeued(h.free_itemq, m.free_itemq, it, id, item_is_slabbed(m, it))
  BY <1>1, <1>2, <1>4, SoundQueues, QueueSame
<1>11. Rehashed(h, m, it)
  BY <1>2, <1>4, HashNot DEF Rehashed
<1>12. Sound(m, IF InHand(m, it) THEN {} \cup {it} ELSE {} \ {it})
  <2>1. (m.refcount[it] > 0 => m.hdr[it].key \in Key) /\ ~Unused(m, it)
    BY <1>1, <1>2, <1>6
  <2> QED
    BY <1>1, <1>3, <1>4, <1>5, <1>6, <1>8, <1>9, <1>10, <1>11, <2>1, OneItem
<1>13. Sound(m, {})
  BY <1>2, <1>12 DEF InHand
<1>14. Keeps(h, m, {it})
  BY <1>2, <1>7 DEF Keeps, item_id
<1> QED
  BY <1>2, <1>3, <1>4, <1>7, <1>13, <1>14 DEF Good

\* Good, for the operations that allocate.
Grown(h, m, e) ==
    Sound(m, {}) /\ Keeps(h, m, {}) /\ (Safe(e) => m.failed = h.failed)

\* A value moved to a new item: the old one, referenced by the caller, is
\* replaced and both are released.
LEMMA RegrowSound ==
    ASSUME NEW h, Ready(h), NEW g, NEW oit, Plus(h, g, oit), Room(g, 1),
           Sound(g, {}), item_is_linked(g, oit),
           NEW id \in Class, NEW nbyte \in Nat, NEW flags \in SUBSET {"RALIGN"},
           NEW f \in BOOLEAN, NEW e \in Env(g, f)
    PROVE  Grown(g, item_regrow(g, oit, id, nbyte, flags, e), e)
<1> DEFINE k  == g.hdr[oit].key
           x  == g.hdr[oit].exptime
           a  == item_alloc(g, id, k, x, nbyte, e)
           nit == a.it
           b  == a.mem
           c  == [b EXCEPT !.flags[nit] = @ \cup flags]
           d  == item_relink(c, oit, nit)
           d1 == item_remove(d, oit)
           r  == item_regrow(g, oit, id, nbyte, flags, e)
<1>1. /\ HeapOK(h) /\ now \in Nat /\ HeapOK(g) /\ CountsOK(g)
      /\ oit \in Live(g) /\ oit \in Item /\ g.refcount[oit] > 0
  BY PlusFacts DEF Ready
<1>2. k \in Key /\ k \in MaybeKey /\ x \in Nat
  BY <1>1, HdrFields, 0 \in Nat DEF Sound, HashOK, MaybeKey
<1>3. r = IF nit = NoItem THEN item_remove(b, oit) ELSE item_remove(d1, nit)
  BY DEF item_regrow, item_swap
<1>4. Got(g, a)
  BY <1>1, <1>2, AllocGot
<1>5. /\ Sound(b, {}) /\ Spares(g, b)
      /\ Safe(e) => b.failed = g.failed
      /\ nit # NoItem => /\ nit \in Item /\ g.refcount[nit] = 0
                         /\ b.flags[nit] = {} /\ b.hdr[nit].key = k
  <2> HIDE DEF k, x
  <2> QED
    BY <1>1, <1>2, AllocSound
<1> HIDE DEF a, r
<1>6. /\ item_is_linked(b, oit) /\ b.hdr[oit].key = k
  BY <1>1, <1>5 DEF Spares, item_is_linked
<1>7. CASE nit = NoItem
  <2>1. Quiet(g, b)
    BY <1>4, <1>7 DEF Got
  <2>2. CountsOK(b) /\ b.refcount = g.refcount
    BY <1>1, <2>1, QuietLive DEF Quiet
  <2> HIDE DEF b, nit
  <2>3. Sound(r, {}) /\ Keeps(b, r, {}) /\ r.failed = b.failed
    BY <1>1, <1>3, <1>5, <1>7, <2>2, RemoveSound
  <2>4. Keeps(g, r, {})
    BY <1>5, <2>2, <2>3, KeepsTrans, SparesKeeps
  <2> QED
    BY <1>5, <2>3, <2>4 DEF Grown, r
<1>8. CASE nit # NoItem
  <2>1. Plus(g, b, nit)
    BY <1>4, <1>8 DEF Got
  <2>2. HeapOK(b) /\ CountsOK(b) /\ nit \in Live(b) /\ nit \in Item /\ b.refcount[nit] > 0
    BY <1>1, <2>1, PlusFacts
  <2>3. /\ g.refcount \in [Item -> Nat] /\ b.refcount = [g.refcount EXCEPT ![nit] = @ + 1]
        /\ \A y \in Item : y # nit => b.refcount[y] = g.refcount[y]
        /\ oit # nit
    BY <1>1, <1>5, <1>8, <2>1, CountTypes DEF Plus
  <2> HIDE DEF b, nit, d1
  <2>4. ~item_is_linked(b, nit)
    BY <1>5, <1>8 DEF item_is_linked
  <2>5. /\ Good(b, c, {nit}) /\ Quiet(b, c) /\ c.hdr = b.hdr
        /\ ~item_is_linked(c, nit)
        /\ \A y \in Item : y # nit => c.flags[y] = b.flags[y]
    <3>1. Marked(b, c, nit)
      BY DEF Marked
    <3>2. Sound(b, {}) /\ nit \in Item /\ b.refcount[nit] > 0
      BY <1>5, <2>2
    <3> HIDE DEF c, a, k, x, r
    <3> QED
      BY <2>4, <3>1, <3>2, RalignSound
  <2> HIDE DEF c
  <2>6. /\ c.refcount = b.refcount /\ item_is_linked(c, oit) /\ HeapOK(c)
        /\ c.hdr[nit].key = c.hdr[oit].key
    BY <1>1, <1>5, <1>6, <1>8, <2>3, <2>5 DEF Quiet, item_is_linked
  <2>7. Sound(c, {}) /\ c.refcount[oit] > 0 /\ c.refcount[nit] > 0
    BY <1>1, <2>2, <2>3, <2>5, <2>6 DEF Good
  <2>8. Good(c, d, {nit}) /\ Quiet(c, d)
    BY <1>1, <2>2, <2>5, <2>6, <2>7, RelinkSound DEF Good
  <2> HIDE DEF d
  <2>9. d.refcount = b.refcount /\ HeapOK(d) /\ Sound(d, {})
    BY <2>6, <2>8 DEF Quiet, Good
  <2>10. Plus(g, d, nit)
    BY <1>1, <2>1, <2>2, <2>5, <2>6, <2>8, PlusQuiet
  <2>11. CountsOK(d) /\ d.refcount[oit] > 0 /\ oit \in Live(d)
    BY <1>1, <2>6, <2>7, <2>9, <2>10, PlusFacts, InUse
  <2>12. Good(d, d1, {})
    BY <1>1, <2>9, <2>11, RemoveSound DEF Good, d1
  <2>13. Minus(d, d1, oit)
    BY <2>9, <2>11, RemoveMinus DEF d1
  <2>14. Plus(h, d1, nit)
    BY <1>1, <2>10, <2>13, PlusSwap
  <2>15. /\ CountsOK(d1) /\ d1.refcount[nit] > 0 /\ nit \in Live(d1) /\ HeapOK(d1)
    BY <2>14, PlusFacts DEF Ready
  <2>16. r = item_remove(d1, nit)
    BY <1>3, <1>8
  <2>17. Good(d1, r, {})
    BY <2>2, <2>12, <2>15, <2>16, RemoveSound DEF Good
  <2>18. Minus(d1, r, nit)
    BY <2>15, <2>16, RemoveMinus
  <2>19. \A y \in Item : y # nit /\ r.refcount[y] > 0 => d1.refcount[y] > 0 /\ d.refcount[y] > 0
    <3>1. d.refcount \in [Item -> Nat] /\ d1.refcount \in [Item -> Nat]
      BY <2>9, <2>15, CountTypes
    <3>2. d1.refcount = [d.refcount EXCEPT ![oit] = @ - 1]
      BY <2>13 DEF Minus
    <3>3. r.refcount = [d1.refcount EXCEPT ![nit] = @ - 1]
      BY <2>18 DEF Minus
    <3>4. ASSUME NEW y \in Item, y # nit, r.refcount[y] > 0
          PROVE  d1.refcount[y] > 0 /\ d.refcount[y] > 0
      <4>1. d1.refcount[y] > 0
        BY <3>1, <3>3, <3>4
      <4>2. d.refcount[y] \in Nat /\ d1.refcount[y] = IF y = oit THEN d.refcount[y] - 1 ELSE d.refcount[y]
        BY <3>1, <3>2
      <4> QED
        BY <4>1, <4>2
    <3> QED
      BY <3>4
  <2>20. Keeps(g, r, {})
    <3> SUFFICES ASSUME NEW y \in Item, g.refcount[y] > 0, r.refcount[y] > 0
                 PROVE  /\ r.hdr[y].key = g.hdr[y].key
                        /\ r.hdr[y].exptime = g.hdr[y].exptime
                        /\ item_id(r, y) = item_id(g, y)
                        /\ ~item_is_linked(g, y) => r.flags[y] = g.flags[y]
      BY DEF Keeps
    <3>1. y # nit
      BY <1>5, <1>8
    <3>2. d1.refcount[y] > 0 /\ d.refcount[y] > 0 /\ c.refcount[y] > 0 /\ b.refcount[y] > 0
      BY <2>6, <2>9, <2>19, <3>1
    <3>3. b.hdr[y] = g.hdr[y] /\ b.flags[y] = g.flags[y] /\ item_id(b, y) = item_id(g, y)
      BY <1>5 DEF Spares
    <3>4. /\ c.hdr[y].key = b.hdr[y].key /\ c.hdr[y].exptime = b.hdr[y].exptime
          /\ item_id(c, y) = item_id(b, y)
          /\ ~item_is_linked(b, y) => c.flags[y] = b.flags[y]
      BY <2>5, <3>1, <3>2 DEF Good, Keeps
    <3>5. /\ d.hdr[y].key = c.hdr[y].key /\ d.hdr[y].exptime = c.hdr[y].exptime
          /\ item_id(d, y) = item_id(c, y)
          /\ ~item_is_linked(c, y) => d.flags[y] = c.flags[y]
      BY <2>8, <3>1, <3>2 DEF Good, Keeps
    <3>6. /\ d1.hdr[y].key = d.hdr[y].key /\ d1.hdr[y].exptime = d.hdr[y].exptime
          /\ item_id(d1, y) = item_id(d, y)
          /\ ~item_is_linked(d, y) => d1.flags[y] = d.flags[y]
      BY <2>12, <3>2 DEF Good, Keeps
    <3>7. /\ r.hdr[y].key = d1.hdr[y].key /\ r.hdr[y].exptime = d1.hdr[y].exptime
          /\ item_id(r, y) = item_id(d1, y)
          /\ ~item_is_linked(d1, y) => r.flags[y] = d1.flags[y]
      BY <2>17, <3>2 DEF Good, Keeps
    <3> QED
      BY <3>3, <3>4, <3>5, <3>6, <3>7 DEF item_is_linked
  <2>21. Sound(r, {}) /\ (Safe(e) => r.failed = g.failed)
    BY <1>5, <2>5, <2>8, <2>12, <2>17 DEF Good
  <2> QED
    BY <2>20, <2>21 DEF Grown, r
<1> QED
  BY <1>7, <1>8

\* A lookup followed by an operation that allocates.
LEMMA GrownTrans ==
    ASSUME NEW h, NEW g, NEW m, NEW e, Good(h, g, {}), Grown(g, m, e),
           \A x \in Item : h.refcount[x] > 0 => g.refcount[x] > 0
    PROVE  Grown(h, m, e)
<1>1. Keeps(h, m, {})
  BY KeepsTrans DEF Good, Grown
<1> QED
  BY <1>1 DEF Good, Grown

\* An item found by a lookup, rewritten in place or not, is released.
LEMMA ReleaseGood ==
    ASSUME NEW g, Sound(g, {}), CountsOK(g), HeapOK(g), NEW it \in Item, g.refcount[it] > 0,
           NEW n \in Nat, NEW e
    PROVE  Grown(g, item_remove(g, it), e) /\ Grown(g, item_remove(item_rewrite(g, it, n), it), e)
<1> DEFINE a == item_rewrite(g, it, n)
<1>1. Grown(g, item_remove(g, it), e)
  BY RemoveSound DEF Grown
<1>2. /\ Sound(a, {}) /\ Keeps(g, a, {}) /\ a.failed = g.failed /\ a.refcount = g.refcount
  BY RewriteSound
<1>3. it \in Live(g)
  BY InUse
<1>4. CountsOK(a)
  BY <1>3, RewriteQuiet, QuietLive
<1> HIDE DEF a
<1>5. Sound(item_remove(a, it), {}) /\ Keeps(a, item_remove(a, it), {}) /\ item_remove(a, it).failed = a.failed
  BY <1>2, <1>4, RemoveSound
<1>6. Keeps(g, item_remove(a, it), {})
  BY <1>2, <1>5, KeepsTrans
<1> QED
  BY <1>1, <1>2, <1>5, <1>6 DEF Grown, a

\* append and prepend.
LEMMA AnnexSound ==
    ASSUME NEW h, Sound(h, {}), Ready(h), NEW it \in Item, h.refcount[it] > 0,
           NEW append \in BOOLEAN, NEW f \in BOOLEAN, NEW e \in Env(h, f)
    PROVE  Grown(h, item_annex(h, it, append, e), e)
<1> DEFINE k     == h.hdr[it].key
           g     == item_get(h, k)
           m     == g.mem
           oit   == g.it
           total == m.hdr[oit].nbyte + m.hdr[it].nbyte
           id    == item_slabid(total)
           flags == IF append THEN {} ELSE {"RALIGN"}
           r     == item_annex(h, it, append, e)
<1>1. HeapOK(h) /\ k \in Key
  BY CountTypes DEF Ready, Sound, ItemOK
<1>2. IF oit = NoItem THEN r = m
      ELSE \/ r = item_remove(m, oit)
           \/ id # 0 /\ r = item_remove(item_rewrite(m, oit, total), oit)
           \/ id # 0 /\ r = item_regrow(m, oit, id, total, flags, e)
  BY DEF item_annex
<1>3. /\ Good(h, m, {}) /\ CountsOK(m) /\ HeapOK(m)
      /\ \A x \in Item : h.refcount[x] > 0 => m.refcount[x] > 0
      /\ oit # NoItem => /\ oit \in Item /\ item_is_linked(m, oit)
                         /\ m.refcount[oit] > 0 /\ item_is_linked(h, oit)
                         /\ Plus(h, m, oit) /\ Room(m, 1)
  <2> HIDE DEF k
  <2> QED
    BY <1>1, LookupSound
<1> HIDE DEF k, r, g
<1>4. CASE oit = NoItem
  BY <1>2, <1>3, <1>4 DEF Good, Grown, r
<1>5. CASE oit # NoItem
  <2> HIDE DEF m, oit
  <2>1. total \in Nat
    <3>1. m.hdr[oit].nbyte \in Nat /\ m.hdr[it].nbyte \in Nat
      BY <1>3, <1>5, HdrFields, 0 \in Nat
    <3> QED
      BY <3>1
  <2>2. id # 0 => id \in Class
    BY <2>1, SlabidClass
  <2>3. flags \in SUBSET {"RALIGN"}
    OBVIOUS
  <2>4. e \in Env(m, f)
    <3>1. oit \in Live(h)
      BY <1>3, <1>5, InUse
    <3> QED
      BY <1>1, <1>3, <1>5, <3>1, EnvGrows DEF Plus
  <2> HIDE DEF total, id, flags
  <2>5. Sound(m, {})
    BY <1>3 DEF Good
  <2>6. Grown(m, item_remove(m, oit), e) /\ Grown(m, item_remove(item_rewrite(m, oit, total), oit), e)
    BY <1>3, <1>5, <2>1, <2>5, ReleaseGood
  <2>7. id # 0 => Grown(m, item_regrow(m, oit, id, total, flags, e), e)
    BY <1>3, <1>5, <2>1, <2>2, <2>3, <2>4, <2>5, RegrowSound
  <2>8. Grown(m, r, e)
    BY <1>2, <1>5, <2>6, <2>7
  <2> QED
    BY <1>3, <2>8, GrownTrans DEF r
<1> QED
  BY <1>4, <1>5

\* incr and decr.
LEMMA DeltaSound ==
    ASSUME NEW h, Sound(h, {}), Ready(h), NEW k \in Key, NEW numeric \in BOOLEAN, NEW res \in Nat,
           item_slabid(res) # 0, NEW f \in BOOLEAN, NEW e \in Env(h, f)
    PROVE  Grown(h, item_delta(h, k, numeric, res, e), e)
<1> DEFINE g  == item_get(h, k)
           m  == g.mem
           it == g.it
           id == item_slabid(res)
           r  == item_delta(h, k, numeric, res, e)
<1>1. HeapOK(h)
  BY DEF Ready
<1>2. /\ Good(h, m, {}) /\ CountsOK(m) /\ HeapOK(m)
      /\ \A x \in Item : h.refcount[x] > 0 => m.refcount[x] > 0
      /\ it # NoItem => /\ it \in Item /\ item_is_linked(m, it)
                        /\ m.refcount[it] > 0 /\ item_is_linked(h, it)
                        /\ Plus(h, m, it) /\ Room(m, 1)
  BY LookupSound
<1>3. Check(m, id # 0, "item_delta") = m
  BY <1>2, CheckSame DEF AssertName
<1>4. IF it = NoItem THEN r = m
      ELSE \/ r = item_remove(m, it)
           \/ r = item_regrow(m, it, id, res, {}, e)
           \/ r = item_remove(item_rewrite(m, it, res), it)
  <2>1. IF it = NoItem THEN r = m
        ELSE \/ r = item_remove(m, it)
             \/ r = item_regrow(Check(m, id # 0, "item_delta"), it, id, res, {}, e)
             \/ r = item_remove(item_rewrite(m, it, res), it)
    BY DEF item_delta
  <2> HIDE DEF r, g, id
  <2> QED
    BY <1>3, <2>1
<1> HIDE DEF g, r
<1>5. CASE it = NoItem
  BY <1>2, <1>4, <1>5 DEF Good, Grown, r
<1>6. CASE it # NoItem
  <2> HIDE DEF m, it
  <2>1. id \in Class
    BY SlabidClass
  <2>2. {} \in SUBSET {"RALIGN"}
    OBVIOUS
  <2>3. e \in Env(m, f)
    <3>1. it \in Live(h)
      BY <1>2, <1>6, InUse
    <3> QED
      BY <1>1, <1>2, <1>6, <3>1, EnvGrows DEF Plus
  <2> HIDE DEF id
  <2>4. Sound(m, {})
    BY <1>2 DEF Good
  <2>5. Grown(m, item_remove(m, it), e) /\ Grown(m, item_remove(item_rewrite(m, it, res), it), e)
    BY <1>2, <1>6, <2>4, ReleaseGood
  <2>6. Grown(m, item_regrow(m, it, id, res, {}, e), e)
    BY <1>2, <1>6, <2>1, <2>2, <2>3, <2>4, RegrowSound
  <2>7. Grown(m, r, e)
    BY <1>4, <1>6, <2>5, <2>6
  <2> QED
    BY <1>2, <2>7, GrownTrans DEF r
<1> QED
  BY <1>5, <1>6

\* delete.
LEMMA DeleteSound ==
    ASSUME NEW h, Sound(h, {}), Ready(h), NEW k \in Key
    PROVE  Good(h, item_delete(h, k), {})
<1> DEFINE g == item_get(h, k)
           m == g.mem
           it == g.it
           a == item_unlink(m, it)
           r == item_delete(h, k)
<1>1. r = IF it = NoItem THEN m ELSE item_remove(a, it)
  BY DEF item_delete
<1>2. /\ Good(h, m, {}) /\ CountsOK(m) /\ HeapOK(m)
      /\ \A x \in Item : h.refcount[x] > 0 => m.refcount[x] > 0
      /\ it # NoItem => /\ it \in Item /\ item_is_linked(m, it)
                        /\ m.refcount[it] > 0 /\ item_is_linked(h, it)
  BY LookupSound
<1> HIDE DEF g, r
<1>3. CASE it = NoItem
  BY <1>1, <1>2, <1>3 DEF r
<1>4. CASE it # NoItem
  <2> HIDE DEF m, it
  <2>1. Sound(m, {}) /\ it \in Live(m)
    BY <1>2, <1>4, InUse DEF Good
  <2>2. Sound(a, {}) /\ Keeps(m, a, {}) /\ a.failed = m.failed /\ a.refcount = m.refcount
    BY <1>2, <1>4, <2>1, UnlinkSound
  <2>3. CountsOK(a)
    BY <1>2, <2>1, UnlinkQuiet, QuietLive
  <2> HIDE DEF a
  <2>4. Sound(r, {}) /\ Keeps(a, r, {}) /\ r.failed = a.failed
    BY <1>1, <1>2, <1>4, <2>2, <2>3, RemoveSound
  <2>5. Keeps(m, r, {})
    BY <2>2, <2>4, KeepsTrans
  <2>6. Good(m, r, {})
    BY <2>2, <2>4, <2>5 DEF Good
  <2> QED
    BY <1>2, <2>6, GoodTrans DEF r
<1> QED
  BY <1>3, <1>4
-----------------------------------------------------------------------------
\* What item_flush_expired does to the fields of the memory when it unlinks
\* the items all, and frees those of them that are freed.
Flushed(h, m, all, freed) ==
    /\ m.slab_class = h.slab_class /\ m.nslab = h.nslab /\ m.slab_lruq = h.slab_lruq
    /\ m.free_item = h.free_item /\ m.refcount = h.refcount
    /\ \A x \in Item : m.flags[x] = IF x \in freed THEN {"SLABBED"}
                                    ELSE IF x \in all THEN h.flags[x] \ {"LINKED"}
                                    ELSE h.flags[x]
    /\ \A x \in Item : x \notin freed => m.hdr[x] = h.hdr[x]
    /\ \A k \in MaybeKey : m.hash[k] = IF \E x \in all : h.hdr[x].key = k THEN NoItem
                                       ELSE h.hash[k]
    /\ \A id \in Class :
          /\ m.item_lruq[id] = Without(h.item_lruq[id], all)
          /\ m.free_itemq[id] = Without(h.item_lruq[id], Item \ freed) \o h.free_itemq[id]
    /\ (\A x \in all : ~item_is_slabbed(h, x)) => m.failed = h.failed

\* item_flush_expired does nothing, or this to some of the queued items.
LEMMA FlushFields ==
    ASSUME NEW h, HeapOK(h), NEW m, m = item_flush_expired(h), m # h
    PROVE  \E all, freed : /\ \A x \in all : \E id \in Class : x \in Elems(h.item_lruq[id])
                           /\ freed = {x \in all : h.refcount[x] = 0}
                           /\ Flushed(h, m, all, freed)
<1> DEFINE recent(q)  == {i \in DOMAIN q : \A j \in i..Len(q) :
                                              h.hdr[q[j]].atime >= oldest_live}
           flushed(id) == {h.item_lruq[id][i] : i \in recent(h.item_lruq[id])}
           all   == UNION {flushed(id) : id \in Class}
           freed == {it \in all : h.refcount[it] = 0}
           dead  == {h.hdr[it].key : it \in all}
           ok    == \A it \in all : ~item_is_slabbed(h, it)
           g     == Check(h, ok, "item_flush_expired")
<1>1. \A x \in all : \E id \in Class : x \in Elems(h.item_lruq[id])
  BY DEF Elems
<1>2. m = [g EXCEPT !.flags = [it \in Item |->
                           IF it \in freed THEN {"SLABBED"}
                           ELSE IF it \in all THEN @[it] \ {"LINKED"} ELSE @[it]],
                    !.hdr = [it \in Item |-> IF it \in freed THEN Blank ELSE @[it]],
                    !.hash = [k \in MaybeKey |-> IF k \in dead THEN NoItem ELSE @[k]],
                    !.free_itemq = [id \in Class |->
                           Without(h.item_lruq[id], Item \ freed) \o @[id]],
                    !.item_lruq = [id \in Class |-> Without(@[id], all)]]
  BY DEF item_flush_expired
<1>3. freed = {x \in all : h.refcount[x] = 0}
  OBVIOUS
<1>4. \A k : k \in dead <=> \E x \in all : h.hdr[x].key = k
  OBVIOUS
<1> HIDE DEF all, freed, dead
<1>5. g \in HeapType /\ Same(h, g) /\ (ok => g.failed = h.failed)
  BY CheckSame DEF AssertName, HeapOK
<1> HIDE DEF g
<1>6. /\ m.slab_class = g.slab_class /\ m.nslab = g.nslab /\ m.slab_lruq = g.slab_lruq
      /\ m.free_item = g.free_item /\ m.refcount = g.refcount /\ m.failed = g.failed
      /\ m.flags = [it \in Item |->
                           IF it \in freed THEN {"SLABBED"}
                           ELSE IF it \in all THEN g.flags[it] \ {"LINKED"} ELSE g.flags[it]]
      /\ m.hdr = [it \in Item |-> IF it \in freed THEN Blank ELSE g.hdr[it]]
      /\ m.hash = [k \in MaybeKey |-> IF k \in dead THEN NoItem ELSE g.hash[k]]
      /\ m.free_itemq = [id \in Class |->
                           Without(h.item_lruq[id], Item \ freed) \o g.free_itemq[id]]
      /\ m.item_lruq = [id \in Class |-> Without(g.item_lruq[id], all)]
  BY <1>2, <1>5 DEF HeapType
<1>7. Flushed(h, m, all, freed)
  <2>1. /\ g.slab_class = h.slab_class /\ g.nslab = h.nslab /\ g.slab_lruq = h.slab_lruq
        /\ g.free_item = h.free_item /\ g.refcount = h.refcount /\ g.flags = h.flags
        /\ g.hdr = h.hdr /\ g.hash = h.hash
        /\ g.free_itemq = h.free_itemq /\ g.item_lruq = h.item_lruq
    BY <1>5 DEF Same
  <2>2. /\ \A x \in Item : m.flags[x] = IF x \in freed THEN {"SLABBED"}
                                      ELSE IF x \in all THEN h.flags[x] \ {"LINKED"}
                                      ELSE h.flags[x]
        /\ \A x \in Item : x \notin freed => m.hdr[x] = h.hdr[x]
    BY <1>6, <2>1
  <2>3. \A k \in MaybeKey : m.hash[k] = IF \E x \in all : h.hdr[x].key = k THEN NoItem
                                       ELSE h.hash[k]
    BY <1>4, <1>6, <2>1
  <2>4. \A id \in Class :
          /\ m.item_lruq[id] = Without(h.item_lruq[id], all)
          /\ m.free_itemq[id] = Without(h.item_lruq[id], Item \ freed) \o h.free_itemq[id]
    <3>1. /\ m.free_itemq = [id \in Class |->
                Without(h.item_lruq[id], Item \ freed) \o h.free_itemq[id]]
          /\ m.item_lruq = [id \in Class |-> Without(h.item_lruq[id], all)]
      BY <1>6, <2>1, Zenon
    <3> QED
      BY <3>1, Zenon
  <2>5. (\A x \in all : ~item_is_slabbed(h, x)) => m.failed = h.failed
    BY <1>5, <1>6
  <2> QED
    BY <1>6, <2>1, <2>2, <2>3, <2>4, <2>5 DEF Flushed
<1> QED
  BY <1>1, <1>3, <1>7

\* The queues after a flush.
LEMMA FlushQueues ==
    ASSUME NEW h, Sound(h, {}), NEW m, NEW all, NEW freed, Flushed(h, m, all, freed),
           \A x \in all : x \in Item /\ item_is_linked(h, x),
           freed = {x \in all : h.refcount[x] = 0}, NEW id \in Class
    PROVE  /\ NoDup(m.item_lruq[id]) /\ NoDup(m.free_itemq[id])
           /\ Elems(m.item_lruq[id]) = Elems(h.item_lruq[id]) \ all
           /\ Elems(m.free_itemq[id]) =
                 (Elems(h.item_lruq[id]) \cap freed) \cup Elems(h.free_itemq[id])
<1> DEFINE q == h.item_lruq[id]
           p == h.free_itemq[id]
           w == Without(q, Item \ freed)
<1>1. /\ q \in Seq(Item) /\ p \in Seq(Item) /\ NoDup(q) /\ NoDup(p)
  BY DEF Sound, HeapOK, HeapType, LruqOK, FreeqOK
<1>2. \A x \in Elems(q) : x \in Item
  BY <1>1 DEF Elems
<1>3. \A x \in Elems(q) : x \notin Elems(p)
  BY <1>2 DEF Sound, LruqOK, FreeqOK, ItemOK
<1>4. m.item_lruq[id] = Without(q, all) /\ m.free_itemq[id] = w \o p
  BY DEF Flushed
<1> HIDE DEF q, p
<1>5. NoDup(m.item_lruq[id]) /\ Elems(m.item_lruq[id]) = Elems(q) \ all
  BY <1>1, <1>4, WithoutProperties
<1>6. w \in Seq(Item) /\ NoDup(w) /\ Elems(w) = Elems(q) \ (Item \ freed)
  BY <1>1, WithoutProperties
<1>7. Elems(w) = Elems(q) \cap freed
  BY <1>2, <1>6
<1> HIDE DEF w
<1>8. NoDup(m.free_itemq[id]) /\ Elems(m.free_itemq[id]) = Elems(w) \cup Elems(p)
  BY <1>1, <1>3, <1>4, <1>6, <1>7, ConcatElems
<1> QED
  BY <1>5, <1>7, <1>8 DEF q, p

\* A flush keeps the memory sound: all copies of what it unlinks go at once.
LEMMA FlushedSound ==
    ASSUME NEW h, Sound(h, {}), NEW m, HeapOK(m), NEW all, NEW freed,
           Flushed(h, m, all, freed), \A x \in all : x \in Item /\ item_is_linked(h, x),
           freed = {x \in all : h.refcount[x] = 0}
    PROVE  Good(h, m, {})
<1>1. \A x \in all : x \in Item /\ item_is_linked(h, x) /\ ~item_is_slabbed(h, x)
                      /\ ~Unused(h, x) /\ Chunk(h, x)
  BY InUse DEF Sound, ItemOK
<1>2. \A x : /\ item_id(m, x) = item_id(h, x) /\ (Chunk(m, x) <=> Chunk(h, x))
             /\ Unused(m, x) <=> Unused(h, x)
             /\ m.refcount[x] = h.refcount[x]
  BY DEF item_id, Chunk, Unused, Flushed
<1>a. /\ \A x \in Item : m.flags[x] = IF x \in freed THEN {"SLABBED"}
                                    ELSE IF x \in all THEN h.flags[x] \ {"LINKED"}
                                    ELSE h.flags[x]
      /\ \A x \in Item : x \notin freed => m.hdr[x] = h.hdr[x]
      /\ \A x \in freed : x \in all /\ h.refcount[x] = 0
  BY DEF Flushed
<1>3. \A x \in Item : item_is_linked(m, x) <=> item_is_linked(h, x) /\ x \notin all
  <2> SUFFICES ASSUME NEW x \in Item
               PROVE  item_is_linked(m, x) <=> item_is_linked(h, x) /\ x \notin all
    OBVIOUS
  <2>1. m.flags[x] = IF x \in freed THEN {"SLABBED"}
                     ELSE IF x \in all THEN h.flags[x] \ {"LINKED"} ELSE h.flags[x]
    BY <1>a
  <2>2. x \in freed => x \in all
    BY <1>a
  <2>3. CASE x \in all
    BY <2>1, <2>3 DEF item_is_linked
  <2>4. CASE x \notin all
    BY <2>1, <2>2, <2>4 DEF item_is_linked
  <2> QED
    BY <2>3, <2>4
<1>4. \A x \in Item : item_is_slabbed(m, x) <=> item_is_slabbed(h, x) \/ x \in freed
  BY DEF Flushed, item_is_slabbed
<1>5. SlabsOK(m) /\ CurrentOK(m)
  BY DEF Sound, SlabsOK, CurrentOK, Flushed
<1>6. LruqOK(m)
  BY <1>2, <1>3, FlushQueues DEF Sound, LruqOK
<1>7. FreeqOK(m)
  <2>1. ASSUME NEW id \in Class, NEW x \in Item
        PROVE  x \in Elems(m.free_itemq[id]) <=> item_is_slabbed(m, x) /\ item_id(m, x) = id
    <3>1. x \in Elems(m.free_itemq[id]) <=>
             (x \in Elems(h.item_lruq[id]) /\ x \in freed) \/ x \in Elems(h.free_itemq[id])
      BY FlushQueues
    <3>2. x \in freed => item_is_linked(h, x)
      OBVIOUS
    <3> QED
      BY <1>2, <1>4, <3>1, <3>2 DEF Sound, LruqOK, FreeqOK
  <2> QED
    BY <2>1, FlushQueues DEF FreeqOK
<1>8. HashOK(m)
  <2>1. m.hash[NoKey] = NoItem
    BY DEF Sound, HashOK, Flushed, MaybeKey
  <2>2. ASSUME NEW k \in Key, m.hash[k] # NoItem
        PROVE  item_is_linked(m, m.hash[k]) /\ m.hdr[m.hash[k]].key = k
    <3>1. m.hash[k] = h.hash[k] /\ (\A x \in all : h.hdr[x].key # k)
      BY <2>2 DEF Flushed, MaybeKey
    <3>2. h.hash[k] \in Item
      BY <2>2, <3>1, LiveItems DEF HeapOK, Sound, MaybeKey
    <3>3. item_is_linked(h, h.hash[k]) /\ h.hdr[h.hash[k]].key = k
      BY <2>2, <3>1 DEF Sound, HashOK
    <3>4. h.hash[k] \notin all
      BY <3>1, <3>3
    <3> QED
      BY <1>3, <3>1, <3>2, <3>3, <3>4 DEF Flushed
  <2>3. ASSUME NEW x \in Item, item_is_linked(m, x)
        PROVE  m.hdr[x].key \in Key /\ m.hash[m.hdr[x].key] = x
    <3>1. item_is_linked(h, x) /\ x \notin all
      BY <1>3, <2>3
    <3>2. m.hdr[x] = h.hdr[x] /\ h.hdr[x].key \in Key /\ h.hash[h.hdr[x].key] = x
      BY <3>1 DEF Flushed, Sound, HashOK
    <3>3. \A y \in all : h.hdr[y].key # h.hdr[x].key
      BY <3>1, <3>2 DEF Sound, HashOK
    <3> QED
      BY <3>2, <3>3 DEF Flushed, MaybeKey
  <2> QED
    BY <2>1, <2>2, <2>3 DEF HashOK
<1>9. ASSUME NEW x \in Item
      PROVE  ItemOK(m, x)
  <2>1. ItemOK(h, x) /\ h.refcount[x] \in Nat
    BY CountTypes DEF Sound
  <2>2. x \notin all => m.flags[x] = h.flags[x] /\ m.hdr[x] = h.hdr[x]
    BY DEF Flushed
  <2>3. h.refcount[x] > 0 => m.hdr[x] = h.hdr[x]
    BY <2>1 DEF Flushed
  <2> QED
    BY <1>1, <1>2, <1>3, <1>4, <2>1, <2>2, <2>3 DEF ItemOK
<1>10. Whereabouts(m, {})
  <2>1. \A x \in Item : h.refcount[x] \in Nat
    BY CountTypes DEF Sound
  <2> QED
    BY <1>2, <1>3, <1>4, <2>1 DEF Sound, Whereabouts
<1>11. Sound(m, {})
  BY <1>5, <1>6, <1>7, <1>8, <1>9, <1>10 DEF Sound
<1>12. Keeps(h, m, {})
  <2>1. ASSUME NEW x \in Item, h.refcount[x] > 0
        PROVE  m.hdr[x] = h.hdr[x] /\ (~item_is_linked(h, x) => m.flags[x] = h.flags[x])
    <3>1. x \notin freed /\ (~item_is_linked(h, x) => x \notin all)
      BY <1>1, <1>a, <2>1
    <3> QED
      BY <1>a, <3>1
  <2> QED
    BY <1>2, <2>1 DEF Keeps
<1> QED
  BY <1>1, <1>11, <1>12 DEF Good, Flushed

\* flush_all.
LEMMA FlushSound ==
    ASSUME NEW h, Sound(h, {})
    PROVE  Good(h, item_flush_expired(h), {})
<1> DEFINE m == item_flush_expired(h)
<1>1. HeapOK(h) /\ HeapOK(m)
  BY FlushQuiet DEF Sound, Quiet
<1>2. CASE m = h
  BY <1>2 DEF Good, Keeps
<1>3. CASE m # h
  <2>1. \E all, freed : /\ \A x \in all : \E id \in Class : x \in Elems(h.item_lruq[id])
                        /\ freed = {x \in all : h.refcount[x] = 0}
                        /\ Flushed(h, m, all, freed)
    BY <1>1, <1>3, FlushFields
  <2> HIDE DEF m
  <2>2. PICK all, freed : /\ \A x \in all : \E id \in Class : x \in Elems(h.item_lruq[id])
                          /\ freed = {x \in all : h.refcount[x] = 0}
                          /\ Flushed(h, m, all, freed)
    BY <2>1
  <2>3. \A id \in Class : \A x \in Elems(h.item_lruq[id]) : x \in Item /\ item_is_linked(h, x)
    BY DEF Sound, HeapOK, HeapType, LruqOK, Elems
  <2>4. \A x \in all : x \in Item /\ item_is_linked(h, x)
    BY <2>2, <2>3
  <2> QED
    BY <1>1, <2>2, <2>4, FlushedSound DEF m
<1> QED
  BY <1>2, <1>3

\* The cas id a client sent is put into the item it stores.
LEMMA SetCasSound ==
    ASSUME NEW h, Sound(h, {}), NEW it \in Item, NEW v \in Nat,
           NEW m, m = [h EXCEPT !.hdr[it].cas = v]
    PROVE  /\ Sound(m, {}) /\ Keeps(h, m, {}) /\ m.failed = h.failed /\ Quiet(h, m)
           /\ m.flags = h.flags /\ HdrSame(h, m) /\ m.slab_class = h.slab_class
<1>1. HeapOK(h) /\ h \in HeapType
  BY DEF Sound, HeapOK
<1>2. [h.hdr[it] EXCEPT !.cas = v] \in ItemHdr
  BY <1>1, HdrFields
<1>3. m = [h EXCEPT !.hdr[it] = [h.hdr[it] EXCEPT !.cas = v]]
  BY <1>1 DEF HeapType
<1>4. Quiet(h, m)
  BY <1>1, <1>2, <1>3, HdrQuiet
<1>5. /\ m.slab_class = h.slab_class /\ m.nslab = h.nslab /\ m.slab_lruq = h.slab_lruq
      /\ m.flags = h.flags /\ m.refcount = h.refcount
      /\ m.free_item = h.free_item /\ m.free_itemq = h.free_itemq
      /\ m.item_lruq = h.item_lruq /\ m.hash = h.hash /\ m.failed = h.failed
      /\ m.hdr = [h.hdr EXCEPT ![it] = [h.hdr[it] EXCEPT !.cas = v]]
  BY <1>1, <1>3 DEF HeapType
<1>6. HdrSame(h, m)
  BY <1>1, <1>5 DEF HdrSame, HeapType, ItemHdr
<1>7. Sound(m, {})
  BY <1>4, <1>5, <1>6, SameHeap DEF Quiet, HdrSame
<1>8. Keeps(h, m, {})
  BY <1>5, <1>6 DEF Keeps, HdrSame, item_id
<1> QED
  BY <1>4, <1>5, <1>6, <1>7, <1>8
=============================================================================
