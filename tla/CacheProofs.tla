---------------------------- MODULE CacheProofs -----------------------------
(***************************************************************************)
(* The cache, for any number of connections, keys, slabs and classes.  The *)
(* reference counts of items and slabs are exact: every item that an       *)
(* operation, a connection or a response refers to is counted, and nothing *)
(* else is.  Hash, queues, flags and counts agree at every step of every   *)
(* connection, an item whose value is being read is private to its         *)
(* connection, and an item a connection refers to is never freed or        *)
(* reused.  ItemsProofs shows that each operation on the memory keeps it   *)
(* sound; here the operations are composed with the steps of connections.  *)
(***************************************************************************)
EXTENDS CacheStore, ItemsProofs, FunctionTheorems

Holds == [Conn -> [Slot -> MaybeItem]]

\* The references in hd to items of T, and the items of slab s.
In(hd, T) == {r \in Ref : hd[r[1]][r[2]] \in T}
Of(s) == {it \in Item : it[1] = s}

\* From hd to h2, slot i of c is set to x.
Puts(hd, h2, c, i, x) == h2 = [hd EXCEPT ![c][i] = x]

\* What Forget does, as a relation.
Forgets(hd, h2, c, Out) ==
    h2 = [hd EXCEPT ![c] = [i \in Slot |-> IF i \in Out THEN NoItem ELSE @[i]]]

\* RefcountExact as a relation of references, memory and leaks.
Exact(hd, m, lk) ==
    /\ \A it \in Item : m.refcount[it] = Cardinality(In(hd, {it})) + lk.item[it]
    /\ \A s \in Slab : m.slab_refcount[s] = Cardinality(In(hd, Of(s))) + lk.slab[s]

\* It is inductive together with what makes it useful: slabs that are not
\* allocated have no references, and leaks are counted for slab and item.
Counted(hd, m, lk) ==
    /\ HeapOK(m)
    /\ hd \in Holds
    /\ lk \in LeakType
    /\ Exact(hd, m, lk)
    /\ \A s \in Slab : s > m.nslab => m.slab_refcount[s] = 0
    /\ \A it \in Item : lk.item[it] <= lk.slab[it[1]]
    /\ \A s \in Slab : lk.slab[s] <= MaxLeak

-----------------------------------------------------------------------------
\* All reference sets are finite.
LEMMA RefsFinite ==
    /\ IsFiniteSet(Ref)
    /\ \A hd, T : /\ IsFiniteSet(In(hd, T))
                  /\ Cardinality(In(hd, T)) \in Nat
                  /\ Cardinality(In(hd, T)) <= Cardinality(Ref)
    /\ Cardinality(Ref) \in Nat
    /\ \A Out \in SUBSET Slot : IsFiniteSet(Out) /\ Cardinality(Out) \in Nat
<1>1. IsFiniteSet(Slot)
  BY CacheAssumption, FS_Interval DEF Slot
<1>2. IsFiniteSet(Ref)
  BY <1>1, CacheAssumption, FS_Product DEF Ref
<1>3. Cardinality(Ref) \in Nat
  BY <1>2, FS_CardinalityType
<1>4. ASSUME NEW hd, NEW T
      PROVE  /\ IsFiniteSet(In(hd, T))
             /\ Cardinality(In(hd, T)) \in Nat
             /\ Cardinality(In(hd, T)) <= Cardinality(Ref)
  <2>1. In(hd, T) \in SUBSET Ref
    BY DEF In
  <2> QED
    BY <1>2, <2>1, FS_Subset, FS_CardinalityType
<1>5. \A Out \in SUBSET Slot : IsFiniteSet(Out) /\ Cardinality(Out) \in Nat
  BY <1>1, FS_Subset, FS_CardinalityType
<1> QED
  BY <1>2, <1>3, <1>4, <1>5

\* The specification's way to count is the one used here.
LEMMA ExactIsExact ==
    ASSUME NEW hd \in Holds, NEW m, NEW lk
    PROVE  Exact(hd, m, lk) <=>
             /\ \A it \in Item :
                  m.refcount[it] =
                      Cardinality({r \in Ref : hd[r[1]][r[2]] = it}) + lk.item[it]
             /\ \A s \in Slab :
                  m.slab_refcount[s] =
                      Cardinality({r \in Ref : /\ hd[r[1]][r[2]] # NoItem
                                               /\ item_2_slab(hd[r[1]][r[2]]) = s})
                      + lk.slab[s]
<1>1. \A r \in Ref : hd[r[1]][r[2]] \in MaybeItem
  BY DEF Ref, Holds
<1>2. \A it : In(hd, {it}) = {r \in Ref : hd[r[1]][r[2]] = it}
  BY DEF In
<1>3. \A s : In(hd, Of(s)) = {r \in Ref : /\ hd[r[1]][r[2]] # NoItem
                                          /\ item_2_slab(hd[r[1]][r[2]]) = s}
  BY <1>1, SlabAssumption DEF In, Of, item_2_slab, MaybeItem
<1> QED
  BY <1>2, <1>3 DEF Exact

\* A slot takes a reference.
LEMMA InAdd ==
    ASSUME NEW hd \in Holds, NEW c \in Conn, NEW i \in Slot, hd[c][i] = NoItem,
           NEW x \in Item, NEW T \in SUBSET Item,
           NEW h2, Puts(hd, h2, c, i, x)
    PROVE  /\ h2 \in Holds
           /\ Cardinality(In(h2, T)) =
                  Cardinality(In(hd, T)) + (IF x \in T THEN 1 ELSE 0)
<1>1. h2 \in Holds /\ h2[c][i] = x
  BY DEF Puts, Holds, MaybeItem
<1>2. \A r \in Ref : r # <<c, i>> => h2[r[1]][r[2]] = hd[r[1]][r[2]]
  BY DEF Puts, Ref, Holds
<1>3. <<c, i>> \in Ref /\ NoItem \notin T
  BY SlabAssumption DEF Ref
<1>4. <<c, i>> \notin In(hd, T)
  BY <1>3 DEF In
<1>5. CASE x \in T
  <2>1. In(h2, T) = In(hd, T) \cup {<<c, i>>}
    BY <1>1, <1>2, <1>3, <1>5 DEF In
  <2>2. Cardinality(In(h2, T)) = Cardinality(In(hd, T)) + 1
    BY <1>4, <2>1, RefsFinite, FS_AddElement
  <2> QED
    BY <1>1, <1>5, <2>2
<1>6. CASE x \notin T
  <2>1. In(h2, T) = In(hd, T)
    BY <1>1, <1>2, <1>3, <1>6 DEF In
  <2>2. Cardinality(In(h2, T)) = Cardinality(In(hd, T)) + 0
    BY <2>1, RefsFinite
  <2> QED
    BY <1>1, <1>6, <2>2
<1> QED
  BY <1>5, <1>6

\* A slot gives its reference up.
LEMMA InDrop ==
    ASSUME NEW hd \in Holds, NEW c \in Conn, NEW i \in Slot, NEW x \in Item,
           hd[c][i] = x, NEW T \in SUBSET Item,
           NEW h2, Puts(hd, h2, c, i, NoItem)
    PROVE  /\ h2 \in Holds
           /\ Cardinality(In(hd, T)) =
                  Cardinality(In(h2, T)) + (IF x \in T THEN 1 ELSE 0)
<1>1. h2 \in Holds /\ h2[c][i] = NoItem
  BY DEF Puts, Holds, MaybeItem
<1>2. Puts(h2, hd, c, i, x)
  BY DEF Puts, Holds
<1> QED
  BY <1>1, <1>2, InAdd

\* Slots Out of c forget their references.
LEMMA InForget ==
    ASSUME NEW hd \in Holds, NEW c \in Conn, NEW Out \in SUBSET Slot, NEW h2,
           Forgets(hd, h2, c, Out), NEW T \in SUBSET Item
    PROVE  /\ h2 \in Holds
           /\ Cardinality({i \in Out : hd[c][i] \in T}) \in Nat
           /\ Cardinality(In(hd, T)) =
                  Cardinality(In(h2, T)) + Cardinality({i \in Out : hd[c][i] \in T})
<1> DEFINE L == {i \in Out : hd[c][i] \in T}
           R == {<<c, i>> : i \in L}
           f == [i \in L |-> <<c, i>>]
<1>1. h2 \in Holds
  BY DEF Forgets, Holds, MaybeItem
<1>2. IsFiniteSet(L) /\ Cardinality(L) \in Nat
  BY RefsFinite
<1>3. f \in Bijection(L, R)
  <2>1. f \in [L -> R] /\ \A a, b \in L : f[a] = f[b] => a = b
    OBVIOUS
  <2>2. \A r \in R : \E a \in L : f[a] = r
    OBVIOUS
  <2> HIDE DEF f, L, R
  <2> QED
    BY <2>1, <2>2, Fun_IsBij
<1>4. IsFiniteSet(R) /\ Cardinality(R) = Cardinality(L)
  BY <1>2, <1>3, FS_Bijection DEF ExistsBijection
<1>5. \A r \in Ref : h2[r[1]][r[2]] =
          IF r[1] = c /\ r[2] \in Out THEN NoItem ELSE hd[r[1]][r[2]]
  BY DEF Forgets, Ref, Holds
<1>6. NoItem \notin T
  BY SlabAssumption
<1>7. R \subseteq In(hd, T)
  BY DEF In, Ref
<1>8. \A r \in Ref : r \in R <=> r[1] = c /\ r[2] \in Out /\ hd[r[1]][r[2]] \in T
  BY DEF Ref
<1>9. In(h2, T) = In(hd, T) \ R
  BY <1>5, <1>6, <1>8 DEF In
<1> HIDE DEF R, L
<1>10. In(hd, T) \cap R = R
  BY <1>7
<1>11. Cardinality(In(h2, T)) = Cardinality(In(hd, T)) - Cardinality(R)
  BY <1>9, <1>10, RefsFinite, FS_Difference
<1>12. Cardinality(In(hd, T)) = Cardinality(In(h2, T)) + Cardinality(L)
  BY <1>2, <1>4, <1>11, RefsFinite
<1> QED
  BY <1>1, <1>2, <1>12 DEF L

-----------------------------------------------------------------------------
\* The types of the counts.
LEMMA CountedTypes ==
    ASSUME NEW hd, NEW m, NEW lk, Counted(hd, m, lk)
    PROVE  /\ HeapOK(m) /\ hd \in Holds /\ lk \in LeakType
           /\ m.refcount \in [Item -> Nat] /\ m.slab_refcount \in [Slab -> Nat]
           /\ m.nslab \in Nat
           /\ lk.item \in [Item -> Nat] /\ lk.slab \in [Slab -> Nat]
           /\ \A it \in Item : it[1] \in Slab
           /\ \A s \in Slab : Of(s) \in SUBSET Item
           /\ \A it \in Item : {it} \in SUBSET Item
<1>1. HeapOK(m)
  BY DEF Counted
<1> QED
  BY <1>1, CountTypes DEF Counted, LeakType, Of, Item

\* A counted reference keeps its item and slab counts above zero, so the
\* item is in an allocated slab.
LEMMA HeldCounted ==
    ASSUME NEW hd, NEW m, NEW lk, Counted(hd, m, lk), NEW c \in Conn, NEW i \in Slot,
           hd[c][i] # NoItem
    PROVE  /\ hd[c][i] \in Item /\ hd[c][i] \in Live(m)
           /\ m.refcount[hd[c][i]] > 0
<1> DEFINE x == hd[c][i]
           s == x[1]
<1>1. x \in Item /\ <<c, i>> \in Ref
  BY DEF Counted, Holds, MaybeItem, Ref
<1>2. s \in Slab /\ x[2] \in 1..max_nitem /\ x = <<s, x[2]>>
  BY <1>1 DEF Item
<1>3. <<c, i>> \in In(hd, {x}) /\ <<c, i>> \in In(hd, Of(s))
  BY <1>1 DEF In, Of
<1> HIDE DEF x
<1>4. /\ Cardinality(In(hd, {x})) \in Nat \ {0}
      /\ Cardinality(In(hd, Of(s))) \in Nat \ {0}
  BY <1>3, RefsFinite, FS_EmptySet
<1>5. lk.item[x] \in Nat /\ lk.slab[s] \in Nat
  BY <1>1, <1>2, CountedTypes
<1>6. m.refcount[x] > 0
  BY <1>1, <1>4, <1>5 DEF Counted, Exact
<1>7. m.slab_refcount[s] # 0
  BY <1>2, <1>4, <1>5 DEF Counted, Exact
<1>8. ~(s > m.nslab)
  BY <1>2, <1>7 DEF Counted
<1>9. s \in 1..m.nslab
  BY <1>2, <1>8, CountedTypes, SlabAssumption DEF Slab
<1>10. x \in Live(m)
  BY <1>2, <1>9 DEF Live
<1> QED
  BY <1>1, <1>6, <1>10 DEF x

\* A memory whose counts are exact is one the operations can start from.
LEMMA CountedReady ==
    ASSUME NEW hd, NEW m, NEW lk, Counted(hd, m, lk), now \in Nat
    PROVE  Ready(m)
<1>1. ASSUME NEW s \in Slab, m.slab_refcount[s] = 0, NEW it \in Item, it[1] = s
      PROVE  m.refcount[it] = 0
  <2>1. Cardinality(In(hd, Of(s))) \in Nat /\ lk.slab[s] \in Nat
    BY RefsFinite, CountedTypes
  <2>2. Cardinality(In(hd, Of(s))) + lk.slab[s] = 0
    BY <1>1 DEF Counted, Exact
  <2>3. Cardinality(In(hd, Of(s))) = 0 /\ lk.slab[s] = 0
    BY <2>1, <2>2
  <2>4. In(hd, Of(s)) = {}
    BY <2>3, RefsFinite, FS_EmptySet
  <2>5. In(hd, {it}) = {}
    BY <1>1, <2>4 DEF In, Of
  <2>6. Cardinality(In(hd, {it})) = 0
    BY <2>5, FS_EmptySet
  <2>7. lk.item[it] <= 0 /\ lk.item[it] \in Nat
    BY <1>1, <2>3, CountedTypes DEF Counted
  <2>8. lk.item[it] = 0
    BY <2>7
  <2> QED
    BY <2>6, <2>8 DEF Counted, Exact
<1>2. CountsOK(m)
  BY <1>1 DEF CountsOK, Counted
<1>3. Cardinality(Ref) + MaxLeak + 2 < RefMod /\ MaxLeak \in Nat /\ RefMod \in Nat
  BY RefAssumption, CacheAssumption, SlabAssumption DEF Ref
<1>4. ASSUME NEW it \in Item
      PROVE  m.refcount[it] + 2 < RefMod
  <2>1. /\ Cardinality(In(hd, {it})) \in Nat
        /\ Cardinality(In(hd, {it})) <= Cardinality(Ref)
        /\ Cardinality(Ref) \in Nat
    BY RefsFinite
  <2>2. lk.item[it] \in Nat /\ it[1] \in Slab /\ lk.slab[it[1]] \in Nat
    BY CountedTypes
  <2>3. lk.item[it] <= lk.slab[it[1]] /\ lk.slab[it[1]] <= MaxLeak
    BY <2>2 DEF Counted
  <2>4. m.refcount[it] = Cardinality(In(hd, {it})) + lk.item[it]
    BY DEF Counted, Exact
  <2> QED
    BY <1>3, <2>1, <2>2, <2>3, <2>4
<1>5. ASSUME NEW s \in Slab
      PROVE  m.slab_refcount[s] + 2 < RefMod
  <2>1. /\ Cardinality(In(hd, Of(s))) \in Nat
        /\ Cardinality(In(hd, Of(s))) <= Cardinality(Ref)
        /\ Cardinality(Ref) \in Nat
    BY RefsFinite
  <2>2. lk.slab[s] \in Nat
    BY CountedTypes
  <2>3. lk.slab[s] <= MaxLeak
    BY DEF Counted
  <2>4. m.slab_refcount[s] = Cardinality(In(hd, Of(s))) + lk.slab[s]
    BY DEF Counted, Exact
  <2> QED
    BY <1>3, <2>1, <2>2, <2>3, <2>4
<1>6. Room(m, 2)
  BY <1>4, <1>5 DEF Room
<1> QED
  BY <1>2, <1>6 DEF Ready, Counted

\* An operation that leaves the counts alone.
LEMMA CountedQuiet ==
    ASSUME NEW hd, NEW m, NEW lk, Counted(hd, m, lk), NEW m2, Quiet(m, m2)
    PROVE  Counted(hd, m2, lk)
<1>1. m.nslab \in Nat /\ m2.nslab \in Nat /\ m.nslab <= m2.nslab /\ HeapOK(m2)
  BY CountedTypes, CountTypes DEF Quiet
<1>2. \A s \in Slab : s > m2.nslab => s > m.nslab
  BY <1>1, SlabAssumption DEF Slab
<1>3. m2.refcount = m.refcount /\ m2.slab_refcount = m.slab_refcount
  BY DEF Quiet
<1>4. Exact(hd, m2, lk)
  BY <1>3 DEF Counted, Exact
<1> QED
  BY <1>1, <1>2, <1>3, <1>4 DEF Counted

\* A reference is taken for a free slot of a connection.
LEMMA CountedPlus ==
    ASSUME NEW hd, NEW m, NEW lk, Counted(hd, m, lk), NEW m2, NEW x, Plus(m, m2, x),
           NEW c \in Conn, NEW i \in Slot, hd[c][i] = NoItem,
           NEW h2, Puts(hd, h2, c, i, x)
    PROVE  Counted(h2, m2, lk)
<1>1. HeapOK(m2) /\ x \in Live(m2)
  BY DEF Plus
<1>2. x \in Item /\ x[1] \in Slab /\ x[1] \in 1..m2.nslab
  BY <1>1, LiveNotNoItem
<1>3. /\ m.refcount \in [Item -> Nat] /\ m.slab_refcount \in [Slab -> Nat]
      /\ m.nslab \in Nat /\ m2.nslab \in Nat /\ m.nslab <= m2.nslab
      /\ lk.item \in [Item -> Nat] /\ lk.slab \in [Slab -> Nat] /\ hd \in Holds
  BY <1>1, CountedTypes, CountTypes DEF Plus
<1>4. h2 \in Holds
  BY <1>2, <1>3 DEF Puts, Holds, MaybeItem
<1>5. ASSUME NEW T \in SUBSET Item
      PROVE  Cardinality(In(h2, T)) = Cardinality(In(hd, T)) + (IF x \in T THEN 1 ELSE 0)
  BY <1>2, <1>3, InAdd
<1>6. ASSUME NEW it \in Item
      PROVE  m2.refcount[it] = Cardinality(In(h2, {it})) + lk.item[it]
  <2>1. m.refcount[it] = Cardinality(In(hd, {it})) + lk.item[it]
    BY DEF Counted, Exact
  <2>2. Cardinality(In(hd, {it})) \in Nat /\ lk.item[it] \in Nat
    BY <1>3, RefsFinite
  <2>3. Cardinality(In(h2, {it})) = Cardinality(In(hd, {it})) + (IF x = it THEN 1 ELSE 0)
    BY <1>5
  <2>4. m2.refcount[it] = m.refcount[it] + (IF x = it THEN 1 ELSE 0)
    BY <1>2, <1>3 DEF Plus
  <2> QED
    BY <2>1, <2>2, <2>3, <2>4
<1>7. ASSUME NEW s \in Slab
      PROVE  m2.slab_refcount[s] = Cardinality(In(h2, Of(s))) + lk.slab[s]
  <2>1. m.slab_refcount[s] = Cardinality(In(hd, Of(s))) + lk.slab[s]
    BY DEF Counted, Exact
  <2>2. Cardinality(In(hd, Of(s))) \in Nat /\ lk.slab[s] \in Nat
    BY <1>3, RefsFinite
  <2>3. Of(s) \in SUBSET Item /\ (x \in Of(s) <=> x[1] = s)
    BY <1>2 DEF Of
  <2>4. Cardinality(In(h2, Of(s))) =
            Cardinality(In(hd, Of(s))) + (IF x[1] = s THEN 1 ELSE 0)
    BY <1>5, <2>3
  <2>5. m2.slab_refcount[s] = m.slab_refcount[s] + (IF x[1] = s THEN 1 ELSE 0)
    BY <1>2, <1>3 DEF Plus
  <2> QED
    BY <2>1, <2>2, <2>4, <2>5
<1>8. Exact(h2, m2, lk)
  BY <1>6, <1>7 DEF Exact
<1>9. ASSUME NEW s \in Slab, s > m2.nslab
      PROVE  m2.slab_refcount[s] = 0
  <2>1. s \in Nat /\ s > m.nslab
    BY <1>3, <1>9, SlabAssumption DEF Slab
  <2>2. s \notin 1..m2.nslab
    BY <1>3, <1>9, <2>1
  <2> QED
    BY <1>2, <1>3, <2>1, <2>2 DEF Plus, Counted
<1> QED
  BY <1>1, <1>4, <1>8, <1>9 DEF Counted

\* A connection drops the reference in one of its slots.
LEMMA CountedMinus ==
    ASSUME NEW hd, NEW m, NEW lk, Counted(hd, m, lk), NEW c \in Conn, NEW i \in Slot,
           hd[c][i] # NoItem, NEW m2, Minus(m, m2, hd[c][i]),
           NEW h2, Puts(hd, h2, c, i, NoItem)
    PROVE  Counted(h2, m2, lk)
<1> DEFINE x == hd[c][i]
<1>1. HeapOK(m2)
  BY DEF Minus
<1>2. x \in Item /\ x[1] \in Slab
  BY HeldCounted, CountedTypes
<1>3. /\ m.refcount \in [Item -> Nat] /\ m.slab_refcount \in [Slab -> Nat]
      /\ m.nslab \in Nat /\ m2.nslab \in Nat /\ m.nslab <= m2.nslab
      /\ lk.item \in [Item -> Nat] /\ lk.slab \in [Slab -> Nat] /\ hd \in Holds
  BY <1>1, CountedTypes, CountTypes DEF Minus
<1>4. h2 \in Holds
  BY <1>3 DEF Puts, Holds, MaybeItem
<1>5. ASSUME NEW T \in SUBSET Item
      PROVE  Cardinality(In(hd, T)) = Cardinality(In(h2, T)) + (IF x \in T THEN 1 ELSE 0)
  <2>1. hd[c][i] = x
    OBVIOUS
  <2> HIDE DEF x
  <2> QED
    BY <1>2, <1>3, <2>1, InDrop
<1>6. /\ m2.refcount = [m.refcount EXCEPT ![x] = @ - 1]
      /\ m2.slab_refcount = [m.slab_refcount EXCEPT ![x[1]] = @ - 1]
  BY DEF Minus
<1> HIDE DEF x
<1>7. ASSUME NEW it \in Item
      PROVE  m2.refcount[it] = Cardinality(In(h2, {it})) + lk.item[it]
  <2>1. m.refcount[it] = Cardinality(In(hd, {it})) + lk.item[it]
    BY DEF Counted, Exact
  <2>2. Cardinality(In(h2, {it})) \in Nat /\ lk.item[it] \in Nat
    BY <1>3, RefsFinite
  <2>3. Cardinality(In(hd, {it})) = Cardinality(In(h2, {it})) + (IF x = it THEN 1 ELSE 0)
    BY <1>5
  <2>4. m2.refcount[it] = m.refcount[it] - (IF x = it THEN 1 ELSE 0)
    BY <1>2, <1>3, <1>6
  <2> QED
    BY <2>1, <2>2, <2>3, <2>4
<1>8. ASSUME NEW s \in Slab
      PROVE  m2.slab_refcount[s] = Cardinality(In(h2, Of(s))) + lk.slab[s]
  <2>1. m.slab_refcount[s] = Cardinality(In(hd, Of(s))) + lk.slab[s]
    BY DEF Counted, Exact
  <2>2. Cardinality(In(h2, Of(s))) \in Nat /\ lk.slab[s] \in Nat
    BY <1>3, RefsFinite
  <2>3. Of(s) \in SUBSET Item /\ (x \in Of(s) <=> x[1] = s)
    BY <1>2 DEF Of
  <2>4. Cardinality(In(hd, Of(s))) =
            Cardinality(In(h2, Of(s))) + (IF x[1] = s THEN 1 ELSE 0)
    BY <1>5, <2>3
  <2>5. m2.slab_refcount[s] = m.slab_refcount[s] - (IF x[1] = s THEN 1 ELSE 0)
    BY <1>2, <1>3, <1>6
  <2> QED
    BY <2>1, <2>2, <2>4, <2>5
<1>9. Exact(h2, m2, lk)
  BY <1>7, <1>8 DEF Exact
<1>10. ASSUME NEW s \in Slab, s > m2.nslab
       PROVE  m2.slab_refcount[s] = 0
  <2>1. x \in Live(m)
    BY HeldCounted DEF x
  <2>2. x[1] \in 1..m.nslab
    BY <2>1, CountedTypes, LiveNotNoItem
  <2>3. s \in Nat /\ s > m.nslab
    BY <1>3, <1>10, SlabAssumption DEF Slab
  <2>4. s \notin 1..m.nslab
    BY <1>3, <2>3
  <2> QED
    BY <1>2, <1>3, <1>6, <2>2, <2>3, <2>4 DEF Counted
<1> QED
  BY <1>1, <1>4, <1>9, <1>10 DEF Counted

\* A reference moves from slot i of a connection to its free slot j.
LEMMA CountedMove ==
    ASSUME NEW hd, NEW m, NEW lk, Counted(hd, m, lk), NEW c \in Conn, NEW i \in Slot,
           NEW j \in Slot, i # j, hd[c][i] # NoItem, hd[c][j] = NoItem,
           NEW h1, Puts(hd, h1, c, i, NoItem), NEW h2, Puts(h1, h2, c, j, hd[c][i])
    PROVE  Counted(h2, m, lk)
<1> DEFINE x == hd[c][i]
<1>1. x \in Item /\ hd \in Holds
  BY HeldCounted, CountedTypes
<1>2. h1 \in Holds /\ h1[c][j] = NoItem
  BY <1>1 DEF Puts, Holds, MaybeItem
<1>3. h2 \in Holds
  BY <1>1, <1>2 DEF Puts, Holds, MaybeItem
<1>4. hd[c][i] = x /\ Puts(h1, h2, c, j, x)
  OBVIOUS
<1> HIDE DEF x
<1>5. ASSUME NEW T \in SUBSET Item
      PROVE  Cardinality(In(h2, T)) = Cardinality(In(hd, T))
  <2>1. Cardinality(In(hd, T)) = Cardinality(In(h1, T)) + (IF x \in T THEN 1 ELSE 0)
    BY <1>1, <1>4, InDrop
  <2>2. Cardinality(In(h2, T)) = Cardinality(In(h1, T)) + (IF x \in T THEN 1 ELSE 0)
    BY <1>1, <1>2, <1>4, InAdd
  <2> QED
    BY <2>1, <2>2
<1>6. Exact(h2, m, lk)
  <2>1. \A it \in Item : Cardinality(In(h2, {it})) = Cardinality(In(hd, {it}))
    BY <1>5, CountedTypes
  <2>2. \A s \in Slab : Cardinality(In(h2, Of(s))) = Cardinality(In(hd, Of(s)))
    BY <1>5, CountedTypes
  <2> QED
    BY <2>1, <2>2 DEF Exact, Counted
<1> QED
  BY <1>3, <1>6 DEF Counted

\* What Lose does, as a relation.
Loses(hd, lk, lk2, c, Out) ==
    lk2 = [item |-> [it \in Item |->
                       lk.item[it] + Cardinality({i \in Out : hd[c][i] = it})],
           slab |-> [s \in Slab |->
                       lk.slab[s] + Cardinality({i \in {j \in Out : hd[c][j] # NoItem} :
                                                   item_2_slab(hd[c][i]) = s})]]

\* References that are forgotten are leaked.
LEMMA CountedLose ==
    ASSUME NEW hd, NEW m, NEW lk, Counted(hd, m, lk), NEW c \in Conn,
           NEW Out \in SUBSET Slot, NEW h2, Forgets(hd, h2, c, Out),
           NEW lk2, Loses(hd, lk, lk2, c, Out), \A s \in Slab : lk2.slab[s] <= MaxLeak
    PROVE  Counted(h2, m, lk2)
<1> DEFINE L(T) == {i \in Out : hd[c][i] \in T}
<1>1. /\ hd \in Holds /\ lk.item \in [Item -> Nat] /\ lk.slab \in [Slab -> Nat]
      /\ \A it \in Item : it[1] \in Slab
  BY CountedTypes
<1>2. \A i \in Out : hd[c][i] \in MaybeItem
  BY <1>1 DEF Holds
<1>3. ASSUME NEW T \in SUBSET Item
      PROVE  /\ h2 \in Holds /\ IsFiniteSet(L(T)) /\ Cardinality(L(T)) \in Nat
             /\ Cardinality(In(hd, T)) = Cardinality(In(h2, T)) + Cardinality(L(T))
  <2>1. IsFiniteSet(L(T))
    BY RefsFinite
  <2> QED
    BY <1>1, <2>1, InForget
<1>4. /\ \A it \in Item : lk2.item[it] = lk.item[it] + Cardinality(L({it}))
      /\ \A s \in Slab : lk2.slab[s] = lk.slab[s] + Cardinality(L(Of(s)))
      /\ lk2 = [item |-> lk2.item, slab |-> lk2.slab]
      /\ DOMAIN lk2.item = Item /\ DOMAIN lk2.slab = Slab
      /\ lk2.item = [it \in Item |-> lk2.item[it]]
      /\ lk2.slab = [s \in Slab |-> lk2.slab[s]]
  <2>1. \A it : L({it}) = {i \in Out : hd[c][i] = it}
    OBVIOUS
  <2>2. \A s : L(Of(s)) = {i \in {j \in Out : hd[c][j] # NoItem} :
                             item_2_slab(hd[c][i]) = s}
    BY <1>2, SlabAssumption DEF Of, item_2_slab, MaybeItem
  <2> HIDE DEF L
  <2> QED
    BY <2>1, <2>2 DEF Loses
<1> HIDE DEF L
<1>5. \A it \in Item : {it} \in SUBSET Item
  OBVIOUS
<1>6. \A s \in Slab : Of(s) \in SUBSET Item
  BY DEF Of
<1>7. h2 \in Holds
  <2>1. {} \in SUBSET Item
    OBVIOUS
  <2> QED
    BY <1>3, <2>1
<1>8. ASSUME NEW it \in Item
      PROVE  /\ lk2.item[it] \in Nat /\ lk2.item[it] <= lk2.slab[it[1]]
             /\ m.refcount[it] = Cardinality(In(h2, {it})) + lk2.item[it]
  <2>1. /\ Cardinality(L({it})) \in Nat
        /\ Cardinality(In(hd, {it})) = Cardinality(In(h2, {it})) + Cardinality(L({it}))
    BY <1>3, <1>5
  <2>2. it[1] \in Slab /\ lk.item[it] \in Nat /\ lk.slab[it[1]] \in Nat
    BY <1>1
  <2>3. IsFiniteSet(L(Of(it[1]))) /\ Cardinality(L(Of(it[1]))) \in Nat
    BY <1>3, <1>6, <2>2
  <2>4. L({it}) \in SUBSET L(Of(it[1]))
    BY DEF L, Of
  <2>5. Cardinality(L({it})) <= Cardinality(L(Of(it[1])))
    BY <2>3, <2>4, FS_Subset
  <2>6. lk.item[it] <= lk.slab[it[1]]
    BY DEF Counted
  <2>7. /\ lk2.item[it] = lk.item[it] + Cardinality(L({it}))
        /\ lk2.slab[it[1]] = lk.slab[it[1]] + Cardinality(L(Of(it[1])))
    BY <1>4, <2>2
  <2>8. m.refcount[it] = Cardinality(In(hd, {it})) + lk.item[it]
    BY DEF Counted, Exact
  <2>9. Cardinality(In(h2, {it})) \in Nat
    BY RefsFinite
  <2> QED
    BY <2>1, <2>2, <2>3, <2>5, <2>6, <2>7, <2>8, <2>9
<1>9. ASSUME NEW s \in Slab
      PROVE  /\ lk2.slab[s] \in Nat
             /\ m.slab_refcount[s] = Cardinality(In(h2, Of(s))) + lk2.slab[s]
  <2>1. /\ Cardinality(L(Of(s))) \in Nat
        /\ Cardinality(In(hd, Of(s))) = Cardinality(In(h2, Of(s))) + Cardinality(L(Of(s)))
    BY <1>3, <1>6
  <2>2. lk.slab[s] \in Nat /\ Cardinality(In(h2, Of(s))) \in Nat
    BY <1>1, RefsFinite
  <2>3. lk2.slab[s] = lk.slab[s] + Cardinality(L(Of(s)))
    BY <1>4
  <2>4. m.slab_refcount[s] = Cardinality(In(hd, Of(s))) + lk.slab[s]
    BY DEF Counted, Exact
  <2> QED
    BY <2>1, <2>2, <2>3, <2>4
<1>10. lk2 \in LeakType
  <2>1. lk2.item \in [Item -> Nat] /\ lk2.slab \in [Slab -> Nat]
    BY <1>4, <1>8, <1>9
  <2> QED
    BY <1>4, <2>1 DEF LeakType
<1>11. Exact(h2, m, lk2)
  BY <1>8, <1>9 DEF Exact
<1> QED
  BY <1>7, <1>8, <1>10, <1>11 DEF Counted

-----------------------------------------------------------------------------
(***************************************************************************)
(* The inductive invariant.                                                *)
(***************************************************************************)

\* What the place of a handler says of the references of its connection.
PhaseOK(r, hd) ==
    /\ r.state \in {"NREAD", "stored", "touch"} => hd[0] # NoItem
    /\ r.state \in {"NEW_CMD", "read", "oom", "flush", "MWRITE"} => hd[0] = NoItem
    /\ r.state = "release" => \E i \in Slot : hd[i] # NoItem
    /\ r.state = "touch" => r.nhit < IlistMax

Inv ==
    /\ TypeOK
    /\ now >= 2
    /\ Counted(hold, mem, leak)
    /\ \A c \in Conn : PhaseOK(conn[c], hold[c])

\* The server starts with no connection holding anything, and no count.
LEMMA InvInit == Init => Inv
<1> SUFFICES ASSUME Init PROVE Inv
  OBVIOUS
<1>1. InitHeap \in HeapType
  <2>1. Blank \in ItemHdr
    BY DEF Blank, ItemHdr, MaybeKey
  <2>2. 0 \in 0..max_nslab
    BY SlabAssumption
  <2> QED
    BY <2>1, <2>2 DEF InitHeap, HeapType, MaybeItem
<1>2. HeapOK(mem)
  BY <1>1 DEF Init, HeapOK, InitHeap
<1>3. hold \in Holds /\ \A c \in Conn, i \in Slot : hold[c][i] = NoItem
  BY DEF Init, Holds, MaybeItem
<1>4. leak \in LeakType
  BY DEF Init, LeakType
<1>5. ASSUME NEW T \in SUBSET Item
      PROVE  Cardinality(In(hold, T)) = 0
  <2>1. In(hold, T) = {}
    BY <1>3, SlabAssumption DEF In, Ref
  <2> QED
    BY <2>1, FS_EmptySet
<1>6. Exact(hold, mem, leak)
  <2>1. \A it \in Item : Cardinality(In(hold, {it})) = 0
    BY <1>5
  <2>2. \A s \in Slab : Cardinality(In(hold, Of(s))) = 0
    BY <1>5 DEF Of
  <2> QED
    BY <2>1, <2>2 DEF Exact, Init, InitHeap
<1>7. Counted(hold, mem, leak)
  <2>1. /\ \A it \in Item : leak.item[it] = 0 /\ it[1] \in Slab
        /\ \A s \in Slab : leak.slab[s] = 0 /\ mem.slab_refcount[s] = 0
    BY DEF Init, InitHeap, Item
  <2> QED
    BY <1>2, <1>3, <1>4, <1>6, <2>1, CacheAssumption DEF Counted
<1>8. 0 \in Slot /\ 0 \in 0..IlistMax
  BY CacheAssumption DEF Slot
<1>9. Idle \in ConnType
  BY <1>8 DEF Idle, ConnType, ConnState, MaybeKey
<1>10. \A c \in Conn : PhaseOK(conn[c], hold[c])
  BY <1>3, <1>8 DEF Init, Idle, PhaseOK
<1>11. TypeOK /\ now >= 2
  BY <1>1, <1>3, <1>4, <1>9, SlabAssumption DEF TypeOK, Init, Holds
<1> QED
  BY <1>7, <1>10, <1>11 DEF Inv

\* A step of one connection that leaves time, policy and horizon alone.
LEMMA ConnStep ==
    ASSUME Inv, NEW c \in Conn, UNCHANGED <<now, evict_opt, oldest_live>>,
           Counted(hold', mem', leak'),
           NEW r \in ConnType, conn' = [conn EXCEPT ![c] = r],
           \A d \in Conn \ {c} : hold'[d] = hold[d],
           PhaseOK(r, hold'[c])
    PROVE  Inv'
<1>1. conn \in [Conn -> ConnType]
  BY DEF Inv, TypeOK
<1>2. conn' \in [Conn -> ConnType]
  BY <1>1
<1>3. conn'[c] = r /\ \A d \in Conn \ {c} : conn'[d] = conn[d]
  BY <1>1
<1>4. \A d \in Conn : PhaseOK(conn'[d], hold'[d])
  BY <1>3 DEF Inv
<1>5. mem' \in HeapType /\ hold' \in [Conn -> [Slot -> MaybeItem]] /\ leak' \in LeakType
  BY DEF Counted, HeapOK, Holds
<1>6. TypeOK' /\ now' >= 2
  BY <1>2, <1>5 DEF Inv, TypeOK
<1> QED
  BY <1>4, <1>6 DEF Inv

\* What every step starts from.
LEMMA InvFacts ==
    ASSUME Inv
    PROVE  /\ now \in Nat /\ Ready(mem) /\ HeapOK(mem)
           /\ conn \in [Conn -> ConnType] /\ hold \in Holds
           /\ 0 \in Slot
           /\ \A c \in Conn : PhaseOK(conn[c], hold[c]) /\ conn[c] \in ConnType
           /\ \A c \in Conn, i \in Slot : hold[c][i] # NoItem =>
                 /\ hold[c][i] \in Item /\ hold[c][i] \in Live(mem)
                 /\ mem.refcount[hold[c][i]] > 0
<1>1. now \in Nat /\ conn \in [Conn -> ConnType] /\ Counted(hold, mem, leak)
  BY DEF Inv, TypeOK
<1>2. Ready(mem)
  BY <1>1, CountedReady
<1>3. HeapOK(mem) /\ hold \in Holds
  BY <1>1 DEF Counted
<1>4. 0 \in Slot
  BY CacheAssumption DEF Slot
<1>5. \A c \in Conn : PhaseOK(conn[c], hold[c]) /\ conn[c] \in ConnType
  BY <1>1 DEF Inv
<1>6. \A c \in Conn, i \in Slot : hold[c][i] # NoItem =>
         /\ hold[c][i] \in Item /\ hold[c][i] \in Live(mem)
         /\ mem.refcount[hold[c][i]] > 0
  BY <1>1, HeldCounted
<1> QED
  BY <1>1, <1>2, <1>3, <1>4, <1>5, <1>6

\* time_reltime yields a time.
LEMMA ReltimeNat ==
    ASSUME NEW t \in Nat, NEW x \in Int
    PROVE  /\ x + TimeMod >= 0 => time_reltime(t, x) \in Nat
           /\ x > 0 => time_reltime(t, x) \in Nat \ {0}
<1>1. TIME_MAXDELTA \in Nat /\ process_started \in Nat /\ TimeMod \in Nat
  BY CacheAssumption, SlabAssumption
<1>2. CASE x = 0
  BY <1>1, <1>2 DEF time_reltime
<1>3. CASE x # 0 /\ x > TIME_MAXDELTA
  BY <1>1, <1>3 DEF time_reltime
<1>4. CASE x # 0 /\ ~(x > TIME_MAXDELTA)
  BY <1>1, <1>4 DEF time_reltime
<1> QED
  BY <1>2, <1>3, <1>4

-----------------------------------------------------------------------------
\* The memory after an operation that took and released its own references.
LEMMA QuietStep ==
    ASSUME Inv, Quiet(mem, mem'), UNCHANGED <<hold, leak>>
    PROVE  Counted(hold', mem', leak')
<1>1. Counted(hold, mem', leak)
  BY CountedQuiet DEF Inv
<1> QED
  BY <1>1

\* An allocation or lookup whose item the connection keeps in slot 0.
LEMMA GotStep ==
    ASSUME Inv, NEW c \in Conn, hold[c][0] = NoItem, NEW it, NEW m,
           (it = NoItem /\ Quiet(mem, m)) \/ (it # NoItem /\ Plus(mem, m, it)),
           mem' = m, hold' = [hold EXCEPT ![c][0] = it], leak' = leak
    PROVE  /\ Counted(hold', mem', leak')
           /\ hold'[c][0] = it
           /\ \A d \in Conn \ {c} : hold'[d] = hold[d]
<1>1. hold \in Holds /\ 0 \in Slot /\ Counted(hold, mem, leak)
  BY InvFacts DEF Inv
<1>2. hold'[c][0] = it /\ \A d \in Conn \ {c} : hold'[d] = hold[d]
  BY <1>1 DEF Holds
<1>3. CASE it = NoItem /\ Quiet(mem, m)
  <2>1. hold' = hold
    BY <1>1, <1>3 DEF Holds
  <2> QED
    BY <1>2, <1>3, <2>1, QuietStep
<1>4. CASE it # NoItem /\ Plus(mem, m, it)
  <2>1. Puts(hold, hold', c, 0, it)
    BY DEF Puts
  <2>2. Counted(hold', m, leak)
    BY <1>1, <1>4, <2>1, CountedPlus
  <2> QED
    BY <1>2, <2>2
<1> QED
  BY <1>3, <1>4

\* A connection removes the item in one of its slots.
LEMMA RemoveStep ==
    ASSUME Inv, NEW c \in Conn, NEW i \in Slot, hold[c][i] # NoItem,
           mem' = item_remove(mem, hold[c][i]),
           hold' = [hold EXCEPT ![c][i] = NoItem], leak' = leak
    PROVE  /\ Counted(hold', mem', leak')
           /\ hold'[c] = [hold[c] EXCEPT ![i] = NoItem]
           /\ \A d \in Conn \ {c} : hold'[d] = hold[d]
<1> DEFINE x == hold[c][i]
<1>1. /\ hold \in Holds /\ Counted(hold, mem, leak) /\ Ready(mem)
      /\ x \in Live(mem) /\ mem.refcount[x] > 0
  BY InvFacts DEF Inv
<1> HIDE DEF x
<1>2. Minus(mem, item_remove(mem, x), x)
  BY <1>1, RemoveMinus DEF Ready
<1>3. Puts(hold, hold', c, i, NoItem)
  BY DEF Puts
<1>4. Counted(hold', mem', leak)
  BY <1>1, <1>2, <1>3, CountedMinus DEF x
<1>5. hold'[c] = [hold[c] EXCEPT ![i] = NoItem] /\ \A d \in Conn \ {c} : hold'[d] = hold[d]
  BY <1>1 DEF Holds
<1> QED
  BY <1>4, <1>5

-----------------------------------------------------------------------------
(***************************************************************************)
(* Every step keeps the invariant.                                         *)
(***************************************************************************)

\* What start_nread makes of the result of item_alloc.
LEMMA StartNread ==
    ASSUME Inv, NEW c \in Conn, NEW k \in Key, NEW q \in Request, NEW a,
           conn[c].state = "NEW_CMD",
           (a.it = NoItem /\ Quiet(mem, mem')) \/ (a.it # NoItem /\ Plus(mem, mem', a.it)),
           start_nread(c, k, q, a), UNCHANGED <<now, evict_opt, oldest_live, leak>>
    PROVE  Inv'
<1>1. /\ hold \in Holds /\ 0 \in Slot /\ conn \in [Conn -> ConnType]
      /\ conn[c] \in ConnType /\ hold[c][0] = NoItem
  BY InvFacts DEF PhaseOK
<1>2. CASE a.it # NoItem
  <2> DEFINE r == [conn[c] EXCEPT !.state = "NREAD", !.req = q]
  <2>1. conn' = [conn EXCEPT ![c] = r] /\ hold' = [hold EXCEPT ![c][0] = a.it]
    BY <1>1, <1>2 DEF start_nread
  <2>2. r \in ConnType /\ r.state = "NREAD"
    BY <1>1 DEF ConnType, ConnState
  <2>3. /\ Counted(hold', mem', leak') /\ hold'[c][0] = a.it
        /\ \A d \in Conn \ {c} : hold'[d] = hold[d]
    BY <1>1, <1>2, <2>1, GotStep
  <2> HIDE DEF r
  <2>4. PhaseOK(r, hold'[c])
    BY <1>2, <2>2, <2>3 DEF PhaseOK
  <2> QED
    BY <2>1, <2>2, <2>3, <2>4, ConnStep
<1>3. CASE a.it = NoItem
  <2> DEFINE r == [conn[c] EXCEPT !.state = "oom", !.key = k]
  <2>1. conn' = [conn EXCEPT ![c] = r] /\ hold' = hold
    BY <1>1, <1>3 DEF start_nread
  <2>2. r \in ConnType /\ r.state = "oom"
    BY <1>1 DEF ConnType, ConnState, MaybeKey
  <2>3. Counted(hold', mem', leak')
    BY <1>3, <2>1, QuietStep
  <2> HIDE DEF r
  <2>4. PhaseOK(r, hold'[c])
    BY <1>1, <2>1, <2>2 DEF PhaseOK
  <2> QED
    BY <2>1, <2>2, <2>3, <2>4, ConnStep
<1> QED
  BY <1>2, <1>3

\* A storage command whose item was allocated holds one reference while its
\* value is read.
LEMMA UpdateInv ==
    ASSUME Inv, NEW c \in Conn, asc_process_update(c)
    PROVE  Inv'
<1>1. PICK k \in Key, n \in NByte, x \in Ttl, e \in MemEnv,
           q \in Request \ {"append", "prepend"}, v \in 0..mem.cas_id :
        /\ conn[c].state = "NEW_CMD"
        /\ item_slabid(n) # 0
        /\ LET a == item_alloc(mem, item_slabid(n), k, time_reltime(now, x), n, e)
           IN  /\ mem' = IF a.it # NoItem /\ q = "cas" /\ UseCas
                         THEN [a.mem EXCEPT !.hdr[a.it].cas = v] ELSE a.mem
               /\ start_nread(c, k, q, a)
        /\ UNCHANGED <<now, evict_opt, oldest_live, leak>>
  BY DEF asc_process_update
<1> DEFINE a == item_alloc(mem, item_slabid(n), k, time_reltime(now, x), n, e)
           f == "malloc" \in Faults
           y == [a.mem.hdr[a.it] EXCEPT !.cas = v]
<1>2. n \in Nat /\ x \in Int /\ x + TimeMod >= 0
  BY CacheAssumption
<1>3. item_slabid(n) \in Class
  BY <1>1, <1>2, SlabidClass
<1>4. time_reltime(now, x) \in Nat
  BY <1>2, ReltimeNat, InvFacts
<1>5. e \in Env(mem, f) /\ f \in BOOLEAN /\ k \in MaybeKey
  BY DEF MemEnv, MaybeKey
<1>6. Ready(mem) /\ Room(mem, 1)
  BY InvFacts, RoomAfter DEF Ready
<1>7. Got(mem, a)
  <2> HIDE DEF f
  <2> QED
    BY <1>2, <1>3, <1>4, <1>5, <1>6, AllocGot DEF Ready
<1>8. mem' \in {a.mem, [a.mem EXCEPT !.hdr[a.it] = y]} /\ (a.it = NoItem => mem' = a.mem)
  BY <1>1
<1>9. start_nread(c, k, q, a)
  BY <1>1
<1> HIDE DEF a
<1>10. (a.it = NoItem /\ Quiet(mem, mem')) \/ (a.it # NoItem /\ Plus(mem, mem', a.it))
  <2>1. CASE a.it = NoItem /\ Quiet(mem, a.mem)
    BY <1>8, <2>1
  <2>2. CASE a.it # NoItem /\ Plus(mem, a.mem, a.it)
    <3>1. HeapOK(a.mem) /\ a.it \in Item
      BY <2>2, LiveNotNoItem DEF Plus
    <3>2. v \in Nat
      BY <1>6 DEF Ready, HeapOK, HeapType
    <3>3. y \in ItemHdr
      BY <3>1, <3>2, HdrFields
    <3> HIDE DEF y
    <3>4. Quiet(a.mem, [a.mem EXCEPT !.hdr[a.it] = y])
      BY <3>1, <3>3, HdrQuiet
    <3>5. Quiet(a.mem, mem')
      BY <1>8, <3>1, <3>4, QuietRefl
    <3>6. Plus(mem, mem', a.it)
      BY <1>6, <2>2, <3>5, PlusQuiet DEF Ready
    <3> QED
      BY <2>2, <3>6
  <2> QED
    BY <1>7, <2>1, <2>2 DEF Got
<1> QED
  BY <1>1, <1>9, <1>10, StartNread

\* The same for append and prepend.
LEMMA AnnexInv ==
    ASSUME Inv, NEW c \in Conn, asc_process_annex(c)
    PROVE  Inv'
<1>1. PICK k \in Key, n \in NByte, e \in MemEnv, q \in Request \cap {"append", "prepend"} :
        /\ conn[c].state = "NEW_CMD"
        /\ item_slabid(n) # 0
        /\ LET a == item_alloc(mem, item_slabid(n), k, 0, n, e)
           IN  mem' = a.mem /\ start_nread(c, k, q, a)
        /\ UNCHANGED <<now, evict_opt, oldest_live, leak>>
  BY DEF asc_process_annex
<1> DEFINE a == item_alloc(mem, item_slabid(n), k, 0, n, e)
           f == "malloc" \in Faults
<1>2. n \in Nat /\ item_slabid(n) \in Class
  BY <1>1, CacheAssumption, SlabidClass
<1>3. e \in Env(mem, f) /\ f \in BOOLEAN /\ k \in MaybeKey
  BY DEF MemEnv, MaybeKey
<1>4. Ready(mem) /\ Room(mem, 1)
  BY InvFacts, RoomAfter DEF Ready
<1>5. Got(mem, a)
  <2> HIDE DEF f
  <2> QED
    BY <1>2, <1>3, <1>4, AllocGot, 0 \in Nat DEF Ready
<1>6. mem' = a.mem /\ start_nread(c, k, q, a)
  BY <1>1
<1> HIDE DEF a
<1>7. (a.it = NoItem /\ Quiet(mem, mem')) \/ (a.it # NoItem /\ Plus(mem, mem', a.it))
  BY <1>5, <1>6 DEF Got
<1> QED
  BY <1>1, <1>6, <1>7, StartNread

\* A storage command that found no memory deletes its key and keeps no
\* reference.
LEMMA OomInv ==
    ASSUME Inv, NEW c \in Conn, oom_delete(c)
    PROVE  Inv'
<1> DEFINE k == conn[c].key
           r == [conn[c] EXCEPT !.state = "NEW_CMD", !.key = NoKey]
<1>1. /\ conn[c].state = "oom" /\ mem' = item_delete(mem, k)
      /\ UNCHANGED <<now, evict_opt, oldest_live, hold, leak>>
  BY DEF oom_delete
<1>2. /\ conn \in [Conn -> ConnType] /\ conn[c] \in ConnType /\ Ready(mem)
      /\ hold[c][0] = NoItem
  BY <1>1, InvFacts DEF PhaseOK
<1>3. conn' = [conn EXCEPT ![c] = r]
  BY <1>2 DEF oom_delete
<1>4. r \in ConnType /\ r.state = "NEW_CMD" /\ k \in MaybeKey
  BY <1>2 DEF ConnType, ConnState, MaybeKey
<1> HIDE DEF k, r
<1>5. Quiet(mem, mem')
  BY <1>1, <1>2, <1>4, ItemDeleteQuiet
<1>6. Counted(hold', mem', leak')
  BY <1>1, <1>5, QuietStep
<1>7. PhaseOK(r, hold'[c])
  BY <1>1, <1>2, <1>4 DEF PhaseOK
<1> QED
  BY <1>1, <1>3, <1>4, <1>6, <1>7, ConnStep

\* Storing the value leaves the connection's reference in place.
LEMMA CompleteInv ==
    ASSUME Inv, NEW c \in Conn, asc_complete_nread(c)
    PROVE  Inv'
<1> DEFINE it == hold[c][0]
           r  == [conn[c] EXCEPT !.state = "stored", !.req = "none"]
           f  == "malloc" \in Faults
<1>1. /\ conn[c].state = "NREAD"
      /\ UNCHANGED <<now, evict_opt, oldest_live, hold, leak>>
  BY DEF asc_complete_nread
<1>2. /\ conn \in [Conn -> ConnType] /\ conn[c] \in ConnType /\ Ready(mem)
      /\ 0 \in Slot /\ HeapOK(mem)
  BY InvFacts
<1>3. it # NoItem
  BY <1>1, InvFacts DEF PhaseOK
<1>4. it \in Live(mem)
  BY <1>2, <1>3, InvFacts
<1>5. conn' = [conn EXCEPT ![c] = r]
  BY <1>2 DEF asc_complete_nread
<1>6. r \in ConnType /\ r.state = "stored"
  BY <1>2 DEF ConnType, ConnState
<1>7. \/ mem' \in {item_set(mem, it), item_cas(mem, it), item_add(mem, it),
                    item_replace(mem, it), mem}
      \/ \E e \in Env(mem, f), append \in BOOLEAN : mem' = item_annex(mem, it, append, e)
  BY DEF asc_complete_nread, MemEnv
<1> HIDE DEF r, it
<1>8. f \in BOOLEAN
  OBVIOUS
<1> HIDE DEF f
<1>9. Quiet(mem, mem')
  <2>1. ASSUME NEW e \in Env(mem, f), NEW append \in BOOLEAN
        PROVE  Quiet(mem, item_annex(mem, it, append, e))
    BY <1>2, <1>4, <1>8, AnnexQuiet
  <2>2. /\ Quiet(mem, item_set(mem, it)) /\ Quiet(mem, item_cas(mem, it))
        /\ Quiet(mem, item_add(mem, it)) /\ Quiet(mem, item_replace(mem, it))
        /\ Quiet(mem, mem)
    BY <1>2, <1>4, StoreQuiet, QuietRefl
  <2> QED
    BY <1>7, <2>1, <2>2
<1>10. Counted(hold', mem', leak')
  BY <1>1, <1>9, QuietStep
<1>11. PhaseOK(r, hold'[c])
  BY <1>1, <1>3, <1>6 DEF PhaseOK, it
<1> QED
  BY <1>1, <1>5, <1>6, <1>10, <1>11, ConnStep

\* The end of a storage command drops the connection's reference.
LEMMA NreadDoneInv ==
    ASSUME Inv, NEW c \in Conn, nread_done(c)
    PROVE  Inv'
<1> DEFINE r == [conn[c] EXCEPT !.state = "NEW_CMD"]
<1>1. /\ conn[c].state = "stored" /\ mem' = item_remove(mem, hold[c][0])
      /\ hold' = [hold EXCEPT ![c][0] = NoItem]
      /\ UNCHANGED <<now, evict_opt, oldest_live, leak>>
  BY DEF nread_done
<1>2. /\ conn \in [Conn -> ConnType] /\ conn[c] \in ConnType /\ hold \in Holds
      /\ 0 \in Slot /\ hold[c][0] # NoItem
  BY <1>1, InvFacts DEF PhaseOK
<1>3. conn' = [conn EXCEPT ![c] = r]
  BY <1>2 DEF nread_done, Goto
<1>4. r \in ConnType /\ r.state = "NEW_CMD"
  BY <1>2 DEF ConnType, ConnState
<1>5. /\ Counted(hold', mem', leak') /\ hold'[c] = [hold[c] EXCEPT ![0] = NoItem]
      /\ \A d \in Conn \ {c} : hold'[d] = hold[d]
  BY <1>1, <1>2, RemoveStep
<1>6. hold'[c][0] = NoItem
  BY <1>2, <1>5 DEF Holds
<1> HIDE DEF r
<1>7. PhaseOK(r, hold'[c])
  BY <1>4, <1>6 DEF PhaseOK
<1> QED
  BY <1>1, <1>3, <1>4, <1>5, <1>7, ConnStep

\* A step that changes only the memory, and leaves the counts alone.
LEMMA MemInv ==
    ASSUME Inv, NEW c \in Conn, Quiet(mem, mem'),
           UNCHANGED <<now, evict_opt, oldest_live, conn, hold, leak>>
    PROVE  Inv'
<1>1. conn \in [Conn -> ConnType] /\ PhaseOK(conn[c], hold[c])
  BY InvFacts
<1>2. conn' = [conn EXCEPT ![c] = conn[c]] /\ conn[c] \in ConnType
  BY <1>1
<1>3. Counted(hold', mem', leak')
  BY QuietStep
<1>4. PhaseOK(conn[c], hold'[c])
  BY <1>1
<1> QED
  BY <1>2, <1>3, <1>4, ConnStep

\* incr and decr keep the invariant.
LEMMA DeltaInv ==
    ASSUME Inv, NEW c \in Conn, asc_process_delta(c)
    PROVE  Inv'
<1>1. PICK k \in Key, numeric \in BOOLEAN, res \in Digits, e \in MemEnv :
        /\ mem' = item_delta(mem, k, numeric, res, e)
        /\ UNCHANGED <<now, evict_opt, oldest_live, conn, hold, leak>>
  BY DEF asc_process_delta
<1> DEFINE f == "malloc" \in Faults
<1>2. e \in Env(mem, f) /\ f \in BOOLEAN /\ k \in MaybeKey
  BY DEF MemEnv, MaybeKey
<1>3. res \in Nat /\ item_slabid(res) # 0
  BY CacheAssumption
<1> HIDE DEF f
<1>4. Quiet(mem, mem')
  BY <1>1, <1>2, <1>3, InvFacts, DeltaQuiet
<1> QED
  BY <1>1, <1>4, MemInv

\* delete keeps the invariant.
LEMMA DeleteInv ==
    ASSUME Inv, NEW c \in Conn, asc_process_delete(c)
    PROVE  Inv'
<1>1. PICK k \in Key : /\ mem' = item_delete(mem, k)
                       /\ UNCHANGED <<now, evict_opt, oldest_live, conn, hold, leak>>
  BY DEF asc_process_delete
<1>2. k \in MaybeKey
  BY DEF MaybeKey
<1>3. Quiet(mem, mem')
  BY <1>1, <1>2, InvFacts, ItemDeleteQuiet
<1> QED
  BY <1>1, <1>3, MemInv

\* A key of a get that is found puts one reference into slot 0.
LEMMA ReadKeyInv ==
    ASSUME Inv, NEW c \in Conn, read_key(c)
    PROVE  Inv'
<1>1. PICK k \in Key :
        LET g == item_get(mem, k)
        IN  /\ conn[c].state \in {"NEW_CMD", "read"}
            /\ conn[c].nhit < IlistMax
            /\ mem' = g.mem
            /\ hold' = [hold EXCEPT ![c][0] = g.it]
            /\ Goto(c, IF g.it = NoItem THEN "read" ELSE "touch")
            /\ UNCHANGED <<now, evict_opt, oldest_live, leak>>
  BY DEF read_key
<1> DEFINE g == item_get(mem, k)
           st == IF g.it = NoItem THEN "read" ELSE "touch"
           r  == [conn[c] EXCEPT !.state = st]
<1>2. /\ conn \in [Conn -> ConnType] /\ conn[c] \in ConnType /\ 0 \in Slot
      /\ Ready(mem) /\ hold[c][0] = NoItem
  BY <1>1, InvFacts DEF PhaseOK
<1>3. Got(mem, g)
  <2>1. HeapOK(mem) /\ Room(mem, 1) /\ k \in MaybeKey
    BY <1>2, RoomAfter DEF Ready, MaybeKey
  <2> QED
    BY <2>1, GetGot
<1>4. mem' = g.mem /\ hold' = [hold EXCEPT ![c][0] = g.it] /\ leak' = leak
  BY <1>1
<1>5. conn' = [conn EXCEPT ![c] = r]
  BY <1>1, <1>2 DEF Goto
<1> HIDE DEF g
<1>6. /\ Counted(hold', mem', leak') /\ hold'[c][0] = g.it
      /\ \A d \in Conn \ {c} : hold'[d] = hold[d]
  BY <1>2, <1>3, <1>4, GotStep DEF Got
<1>7. r \in ConnType /\ r.state = st /\ r.nhit < IlistMax
  BY <1>1, <1>2 DEF ConnType, ConnState
<1> HIDE DEF r
<1>8. PhaseOK(r, hold'[c])
  BY <1>6, <1>7 DEF PhaseOK
<1> QED
  BY <1>1, <1>5, <1>6, <1>7, <1>8, ConnStep

\* The references of slots Out of a connection are leaked.
LEMMA LoseStep ==
    ASSUME Inv, NEW c \in Conn, NEW Out \in SUBSET Slot, NEW hd, hd = Forget(c, Out),
           leak' = Lose(c, Out), LeakBound
    PROVE  /\ Counted(hd, mem, leak')
           /\ \A i \in Slot : hd[c][i] = IF i \in Out THEN NoItem ELSE hold[c][i]
           /\ \A d \in Conn \ {c} : hd[d] = hold[d]
<1>1. Counted(hold, mem, leak) /\ hold \in Holds
  BY InvFacts DEF Inv
<1>2. Forgets(hold, hd, c, Out)
  BY DEF Forget, Forgets
<1>3. Loses(hold, leak, leak', c, Out)
  BY DEF Lose, Loses, Held
<1>4. Counted(hd, mem, leak')
  BY <1>1, <1>2, <1>3, CountedLose DEF LeakBound
<1>5. /\ \A i \in Slot : hd[c][i] = IF i \in Out THEN NoItem ELSE hold[c][i]
      /\ \A d \in Conn \ {c} : hd[d] = hold[d]
  BY <1>1, <1>2 DEF Forgets, Holds
<1> QED
  BY <1>4, <1>5

\* A hit moves its reference from slot 0 to the next slot of the reply; what
\* that slot still held is counted as lost.
LEMMA ReadHitInv ==
    ASSUME Inv, NEW c \in Conn, read_hit(c)
    PROVE  Inv'
<1> DEFINE n  == conn[c].nhit + 1
           x  == hold[c][0]
           r  == [conn[c] EXCEPT !.state = "read", !.nhit = n]
           hd == Forget(c, {n})
           h1 == [hd EXCEPT ![c][0] = NoItem]
<1>1. /\ conn[c].state = "touch" /\ mem' = item_touch(mem, x)
      /\ leak' = Lose(c, {n}) /\ LeakBound
      /\ hold' = [hold EXCEPT ![c] = [@ EXCEPT ![0] = NoItem, ![n] = x]]
      /\ UNCHANGED <<now, evict_opt, oldest_live>>
  BY DEF read_hit
<1>2. /\ conn \in [Conn -> ConnType] /\ conn[c] \in ConnType /\ 0 \in Slot
      /\ hold \in Holds /\ HeapOK(mem) /\ now \in Nat
      /\ x # NoItem /\ conn[c].nhit < IlistMax
  BY <1>1, InvFacts DEF PhaseOK
<1>3. n \in Slot /\ n # 0 /\ n \in 0..IlistMax
  BY <1>2, CacheAssumption DEF ConnType, Slot
<1>4. conn' = [conn EXCEPT ![c] = r]
  BY <1>2 DEF read_hit
<1>5. r \in ConnType /\ r.state = "read"
  BY <1>2, <1>3 DEF ConnType, ConnState
<1>6. x \in Live(mem) /\ x \in MaybeItem
  BY <1>2, InvFacts DEF MaybeItem
<1>7. Quiet(mem, mem')
  BY <1>1, <1>2, <1>6, TouchQuiet
<1> HIDE DEF n, x, r
<1>8. /\ Counted(hd, mem, leak')
      /\ \A i \in Slot : hd[c][i] = IF i = n THEN NoItem ELSE hold[c][i]
      /\ \A d \in Conn \ {c} : hd[d] = hold[d]
  <2> DEFINE Out == {n}
  <2>1. Out \in SUBSET Slot /\ hd = Forget(c, Out) /\ leak' = Lose(c, Out)
    BY <1>1, <1>3
  <2>2. \A i : i \in Out <=> i = n
    OBVIOUS
  <2> HIDE DEF hd, Out
  <2>3. /\ Counted(hd, mem, leak')
        /\ \A i \in Slot : hd[c][i] = IF i \in Out THEN NoItem ELSE hold[c][i]
        /\ \A d \in Conn \ {c} : hd[d] = hold[d]
    <3>1. Counted(hold, mem, leak) /\ hold \in Holds
      BY InvFacts DEF Inv
    <3>2. Forgets(hold, hd, c, Out)
      BY <2>1 DEF Forget, Forgets
    <3>3. Loses(hold, leak, leak', c, Out)
      BY <2>1 DEF Lose, Loses, Held
    <3>4. Counted(hd, mem, leak')
      BY <1>1, <2>1, <3>1, <3>2, <3>3, CountedLose DEF LeakBound
    <3> QED
      BY <3>1, <3>2, <3>4 DEF Forgets, Holds
  <2> QED
    BY <2>2, <2>3
<1>9. hd \in Holds
  BY <1>8 DEF Counted
<1> HIDE DEF hd
<1>10. Puts(hd, h1, c, 0, NoItem) /\ h1 \in Holds
  BY <1>9 DEF Puts, Holds, MaybeItem
<1>11. hd[c][0] = x /\ hd[c][n] = NoItem
  BY <1>2, <1>3, <1>8 DEF x
<1>12. Puts(h1, hold', c, n, x)
  <2>1. hold' \in Holds
    <3>1. [hold[c] EXCEPT ![0] = NoItem, ![n] = x] \in [Slot -> MaybeItem]
      BY <1>2, <1>6 DEF Holds, MaybeItem
    <3> QED
      BY <1>1, <1>2, <3>1 DEF Holds
  <2>2. /\ \A d \in Conn \ {c} : hold'[d] = hold[d]
        /\ \A i \in Slot : hold'[c][i] = IF i = n THEN x ELSE IF i = 0 THEN NoItem
                                          ELSE hold[c][i]
    BY <1>1, <1>2, <1>3 DEF Holds
  <2> DEFINE h2 == [h1 EXCEPT ![c][n] = x]
  <2>3. h2 \in Holds
    BY <1>3, <1>6, <1>10 DEF Holds
  <2>4. /\ \A d \in Conn \ {c} : h2[d] = hold[d]
        /\ \A i \in Slot : h2[c][i] = IF i = n THEN x ELSE IF i = 0 THEN NoItem
                                       ELSE hold[c][i]
    BY <1>2, <1>3, <1>8, <1>9 DEF Holds
  <2> HIDE DEF h1, h2
  <2>5. hold' = h2
    <3>1. hold'[c] = h2[c]
      BY <2>1, <2>2, <2>3, <2>4 DEF Holds
    <3> QED
      BY <2>1, <2>2, <2>3, <2>4, <3>1 DEF Holds
  <2> QED
    BY <2>5 DEF Puts, h2
<1> HIDE DEF h1
<1>13. Counted(hold', mem, leak')
  BY <1>2, <1>3, <1>8, <1>10, <1>11, <1>12, CountedMove
<1>14. Counted(hold', mem', leak')
  BY <1>7, <1>13, CountedQuiet
<1>15. hold'[c][0] = NoItem /\ \A d \in Conn \ {c} : hold'[d] = hold[d]
  BY <1>1, <1>2, <1>3 DEF Holds
<1>16. PhaseOK(r, hold'[c])
  BY <1>5, <1>15 DEF PhaseOK
<1> QED
  BY <1>1, <1>4, <1>5, <1>14, <1>15, <1>16, ConnStep

\* A get that finds no room for its reply releases the item just looked up.
LEMMA NoIovInv ==
    ASSUME Inv, NEW c \in Conn, read_no_iov(c)
    PROVE  Inv'
<1> DEFINE r == [conn[c] EXCEPT !.state = "read"]
<1>1. /\ conn[c].state = "touch" /\ mem' = item_remove(mem, hold[c][0])
      /\ hold' = [hold EXCEPT ![c][0] = NoItem]
      /\ UNCHANGED <<now, evict_opt, oldest_live, leak>>
  BY DEF read_no_iov
<1>2. /\ conn \in [Conn -> ConnType] /\ conn[c] \in ConnType /\ hold \in Holds
      /\ 0 \in Slot /\ hold[c][0] # NoItem
  BY <1>1, InvFacts DEF PhaseOK
<1>3. conn' = [conn EXCEPT ![c] = r]
  BY <1>2 DEF read_no_iov, Goto
<1>4. r \in ConnType /\ r.state = "read"
  BY <1>2 DEF ConnType, ConnState
<1>5. /\ Counted(hold', mem', leak') /\ hold'[c] = [hold[c] EXCEPT ![0] = NoItem]
      /\ \A d \in Conn \ {c} : hold'[d] = hold[d]
  BY <1>1, <1>2, RemoveStep
<1>6. hold'[c][0] = NoItem
  BY <1>2, <1>5 DEF Holds
<1> HIDE DEF r
<1>7. PhaseOK(r, hold'[c])
  BY <1>4, <1>6 DEF PhaseOK
<1> QED
  BY <1>1, <1>3, <1>4, <1>5, <1>7, ConnStep

\* A get that stops at an overlong key forgets the hits before it, and counts
\* their references as lost.
LEMMA OverlongInv ==
    ASSUME Inv, NEW c \in Conn, read_overlong(c)
    PROVE  Inv'
<1> DEFINE Out == (conn[c].ileft + 1)..conn[c].nhit
           r == [conn[c] EXCEPT !.state = "NEW_CMD", !.nhit = 0]
<1>1. /\ conn[c].state = "read" /\ leak' = Lose(c, Out) /\ LeakBound
      /\ hold' = Forget(c, Out)
      /\ UNCHANGED <<now, evict_opt, oldest_live, mem>>
  BY DEF read_overlong
<1>2. /\ conn \in [Conn -> ConnType] /\ conn[c] \in ConnType /\ 0 \in Slot
      /\ hold[c][0] = NoItem
  BY <1>1, InvFacts DEF PhaseOK
<1>3. Out \in SUBSET Slot /\ 0 \notin Out
  BY <1>2, CacheAssumption DEF ConnType, Slot
<1>4. conn' = [conn EXCEPT ![c] = r]
  BY <1>2 DEF read_overlong
<1>5. r \in ConnType /\ r.state = "NEW_CMD"
  BY <1>2 DEF ConnType, ConnState, Slot
<1> HIDE DEF Out, r
<1>6. /\ Counted(hold', mem, leak')
      /\ \A i \in Slot : hold'[c][i] = IF i \in Out THEN NoItem ELSE hold[c][i]
      /\ \A d \in Conn \ {c} : hold'[d] = hold[d]
  BY <1>1, <1>3, LoseStep
<1>7. Counted(hold', mem', leak')
  BY <1>1, <1>6
<1>8. PhaseOK(r, hold'[c])
  BY <1>2, <1>3, <1>5, <1>6 DEF PhaseOK
<1> QED
  BY <1>1, <1>4, <1>5, <1>6, <1>7, <1>8, ConnStep

\* A get that ends its reply keeps the references of its hits until the reply
\* has been sent.
LEMMA ReadEndInv ==
    ASSUME Inv, NEW c \in Conn, read_end(c)
    PROVE  Inv'
<1> DEFINE Out == (conn[c].nhit + 1)..conn[c].ileft
<1>1. /\ conn[c].state = "read" /\ leak' = Lose(c, Out) /\ LeakBound
      /\ hold' = Forget(c, Out)
      /\ UNCHANGED <<now, evict_opt, oldest_live, mem>>
  BY DEF read_end
<1>2. PICK st \in {"MWRITE", "NEW_CMD"} :
        conn' = [conn EXCEPT ![c].state = st, ![c].nhit = 0, ![c].ileft = conn[c].nhit]
  BY DEF read_end
<1> DEFINE r == [conn[c] EXCEPT !.state = st, !.nhit = 0, !.ileft = conn[c].nhit]
<1>3. /\ conn \in [Conn -> ConnType] /\ conn[c] \in ConnType /\ 0 \in Slot
      /\ hold[c][0] = NoItem
  BY <1>1, InvFacts DEF PhaseOK
<1>4. Out \in SUBSET Slot /\ 0 \notin Out
  BY <1>3, CacheAssumption DEF ConnType, Slot
<1>5. conn' = [conn EXCEPT ![c] = r]
  BY <1>2, <1>3
<1>6. r \in ConnType /\ r.state = st
  BY <1>3 DEF ConnType, ConnState, Slot
<1> HIDE DEF Out, r
<1>7. /\ Counted(hold', mem, leak')
      /\ \A i \in Slot : hold'[c][i] = IF i \in Out THEN NoItem ELSE hold[c][i]
      /\ \A d \in Conn \ {c} : hold'[d] = hold[d]
  BY <1>1, <1>4, LoseStep
<1>8. Counted(hold', mem', leak')
  BY <1>1, <1>7
<1>9. PhaseOK(r, hold'[c])
  BY <1>3, <1>4, <1>6, <1>7 DEF PhaseOK
<1> QED
  BY <1>1, <1>5, <1>6, <1>7, <1>8, <1>9, ConnStep

\* A reply that was sent, or that a UDP error drops, only moves the connection
\* to its next state.
LEMMA TransmitInv ==
    ASSUME Inv, NEW c \in Conn, transmit_complete(c) \/ transmit_udp_error(c)
    PROVE  Inv'
<1>1. /\ conn[c].state = "MWRITE"
      /\ UNCHANGED <<now, evict_opt, oldest_live, mem, hold, leak>>
  BY DEF transmit_complete, transmit_udp_error
<1>2. PICK st \in {"NEW_CMD", "release"} :
        /\ conn' = [conn EXCEPT ![c].state = st]
        /\ st = "release" => Held(c, Slot) # {}
  BY DEF transmit_complete, transmit_udp_error, Goto
<1> DEFINE r == [conn[c] EXCEPT !.state = st]
<1>3. /\ conn \in [Conn -> ConnType] /\ conn[c] \in ConnType /\ hold[c][0] = NoItem
  BY <1>1, InvFacts DEF PhaseOK
<1>4. conn' = [conn EXCEPT ![c] = r]
  BY <1>2, <1>3
<1>5. r \in ConnType /\ r.state = st
  BY <1>3 DEF ConnType, ConnState
<1> HIDE DEF r
<1>6. Counted(hold', mem', leak')
  BY <1>1 DEF Inv
<1>7. PhaseOK(r, hold'[c])
  BY <1>1, <1>2, <1>3, <1>5 DEF PhaseOK, Held
<1> QED
  BY <1>1, <1>4, <1>5, <1>6, <1>7, ConnStep

\* A connection that closes goes on to release what it holds.
LEMMA CloseInv ==
    ASSUME Inv, NEW c \in Conn, conn_close(c)
    PROVE  Inv'
<1> DEFINE r == [conn[c] EXCEPT !.state = "release", !.req = "none"]
<1>1. /\ Held(c, Slot) # {}
      /\ UNCHANGED <<now, evict_opt, oldest_live, mem, hold, leak>>
  BY DEF conn_close
<1>2. conn \in [Conn -> ConnType] /\ conn[c] \in ConnType
  BY InvFacts
<1>3. conn' = [conn EXCEPT ![c] = r]
  BY <1>2 DEF conn_close
<1>4. r \in ConnType /\ r.state = "release"
  BY <1>2 DEF ConnType, ConnState
<1> HIDE DEF r
<1>5. Counted(hold', mem', leak')
  BY <1>1 DEF Inv
<1>6. PhaseOK(r, hold'[c])
  BY <1>1, <1>4 DEF PhaseOK, Held
<1> QED
  BY <1>1, <1>3, <1>4, <1>5, <1>6, ConnStep

\* Giving back one reference of a reply keeps the invariant.
LEMMA ReleaseInv ==
    ASSUME Inv, NEW c \in Conn, release_next(c)
    PROVE  Inv'
<1> DEFINE held == Held(c, Slot)
           i == CHOOSE j \in held : \A k \in held : j <= k
           r == IF held = {i} THEN Idle ELSE conn[c]
<1>1. /\ conn[c].state = "release" /\ mem' = item_remove(mem, hold[c][i])
      /\ hold' = [hold EXCEPT ![c][i] = NoItem]
      /\ conn' = IF held = {i} THEN [conn EXCEPT ![c] = Idle] ELSE conn
      /\ UNCHANGED <<now, evict_opt, oldest_live, leak>>
  BY DEF release_next
<1>2. /\ conn \in [Conn -> ConnType] /\ conn[c] \in ConnType /\ hold \in Holds
      /\ 0 \in Slot /\ \E j \in Slot : hold[c][j] # NoItem
  BY <1>1, InvFacts DEF PhaseOK
<1>3. held \in SUBSET Nat /\ held # {}
  BY <1>2, CacheAssumption DEF Held, Slot
<1>4. i \in held
  BY <1>3, LeastNat
<1>5. i \in Slot /\ hold[c][i] # NoItem
  BY <1>4 DEF Held
<1> HIDE DEF i
<1>6. /\ Counted(hold', mem', leak') /\ hold'[c] = [hold[c] EXCEPT ![i] = NoItem]
      /\ \A d \in Conn \ {c} : hold'[d] = hold[d]
  BY <1>1, <1>5, RemoveStep
<1>7. conn' = [conn EXCEPT ![c] = r]
  BY <1>1, <1>2
<1>8. r \in ConnType
  <2>1. Idle \in ConnType
    BY CacheAssumption DEF Idle, ConnType, ConnState, MaybeKey
  <2> QED
    BY <1>2, <2>1
<1>9. PhaseOK(r, hold'[c])
  <2>1. CASE held = {i}
    <3>1. \A j \in Slot : hold'[c][j] = NoItem
      BY <1>2, <1>5, <1>6, <2>1 DEF Held, Holds
    <3> QED
      BY <1>2, <2>1, <3>1 DEF PhaseOK, Idle
  <2>2. CASE held # {i}
    <3>1. PICK j \in held : j # i
      BY <1>4, <2>2
    <3>2. j \in Slot /\ hold'[c][j] # NoItem
      BY <1>2, <1>5, <1>6, <3>1 DEF Held, Holds
    <3> QED
      BY <1>1, <2>2, <3>2 DEF PhaseOK
  <2> QED
    BY <2>1, <2>2
<1> HIDE DEF r
<1> QED
  BY <1>1, <1>6, <1>7, <1>8, <1>9, ConnStep

\* flush_all keeps the invariant.
LEMMA FlushExpiredInv ==
    ASSUME Inv, NEW c \in Conn, flush_expired(c)
    PROVE  Inv'
<1> DEFINE r == [conn[c] EXCEPT !.state = "NEW_CMD"]
<1>1. /\ conn[c].state = "flush" /\ mem' = item_flush_expired(mem)
      /\ UNCHANGED <<now, evict_opt, oldest_live, hold, leak>>
  BY DEF flush_expired
<1>2. /\ conn \in [Conn -> ConnType] /\ conn[c] \in ConnType /\ HeapOK(mem)
      /\ hold[c][0] = NoItem
  BY <1>1, InvFacts DEF PhaseOK
<1>3. conn' = [conn EXCEPT ![c] = r]
  BY <1>2 DEF flush_expired, Goto
<1>4. r \in ConnType /\ r.state = "NEW_CMD"
  BY <1>2 DEF ConnType, ConnState
<1> HIDE DEF r
<1>5. Quiet(mem, mem')
  BY <1>1, <1>2, FlushQuiet
<1>6. Counted(hold', mem', leak')
  BY <1>1, <1>5, QuietStep
<1>7. PhaseOK(r, hold'[c])
  BY <1>1, <1>2, <1>4 DEF PhaseOK
<1> QED
  BY <1>1, <1>3, <1>4, <1>6, <1>7, ConnStep

\* The steps that touch time, horizon and policy.
LEMMA FlushallInv ==
    ASSUME Inv, NEW c \in Conn, asc_process_flushall(c)
    PROVE  Inv'
<1>1. PICK t \in ClockRead \cup {now}, x \in FlushArg :
        /\ conn[c].state = "NEW_CMD"
        /\ now' = t
        /\ oldest_live' = (IF x > 0 THEN time_reltime(t, x) ELSE t) - 1
        /\ Goto(c, "flush")
        /\ UNCHANGED <<evict_opt, mem, hold, leak>>
  BY DEF asc_process_flushall
<1>2. now \in Nat /\ now >= 2 /\ TypeOK /\ Counted(hold, mem, leak)
  BY DEF Inv, TypeOK
<1>3. t \in Nat /\ t >= 2
  BY <1>2, CacheAssumption DEF ClockRead
<1>4. x \in Nat /\ x \in Int
  BY CacheAssumption
<1>5. oldest_live' \in Nat
  <2>1. CASE x > 0
    <3>1. time_reltime(t, x) \in Nat \ {0}
      BY <1>3, <1>4, <2>1, ReltimeNat
    <3> QED
      BY <1>1, <2>1, <3>1
  <2>2. CASE ~(x > 0)
    BY <1>1, <1>3, <2>2
  <2> QED
    BY <2>1, <2>2
<1>6. /\ conn \in [Conn -> ConnType] /\ hold[c][0] = NoItem
      /\ \A d \in Conn : PhaseOK(conn[d], hold[d])
  BY <1>1, InvFacts DEF PhaseOK
<1>7. /\ conn' \in [Conn -> ConnType] /\ conn'[c].state = "flush"
      /\ \A d \in Conn \ {c} : conn'[d] = conn[d]
  BY <1>1, <1>6 DEF Goto, ConnType, ConnState
<1>8. PhaseOK(conn'[c], hold'[c])
  BY <1>1, <1>6, <1>7 DEF PhaseOK
<1>9. \A d \in Conn : PhaseOK(conn'[d], hold'[d])
  BY <1>1, <1>6, <1>7, <1>8
<1>10. TypeOK'
  BY <1>1, <1>2, <1>3, <1>5, <1>7 DEF TypeOK
<1>11. Counted(hold', mem', leak')
  BY <1>1, <1>2
<1> QED
  BY <1>1, <1>3, <1>9, <1>10, <1>11 DEF Inv

\* A change of the clock or of the settings keeps the invariant.
LEMMA SettingsInv ==
    ASSUME Inv, time_update \/ \E c \in Conn : asc_process_evict(c)
    PROVE  Inv'
<1>1. /\ UNCHANGED <<oldest_live, mem, conn, hold, leak>>
      /\ now' = now \/ now' \in ClockRead
      /\ evict_opt' = evict_opt \/ evict_opt' \in EvictChoice
  BY DEF time_update, asc_process_evict
<1>2. now \in Nat /\ now >= 2 /\ TypeOK
  BY DEF Inv, TypeOK
<1>3. now' \in Nat /\ now' >= 2
  BY <1>1, <1>2, CacheAssumption DEF ClockRead
<1>4. evict_opt' \subseteq EvictBit
  BY <1>1, <1>2, CacheAssumption DEF TypeOK
<1>5. TypeOK'
  BY <1>1, <1>2, <1>3, <1>4 DEF TypeOK
<1>6. Counted(hold', mem', leak') /\ \A c \in Conn : PhaseOK(conn'[c], hold'[c])
  BY <1>1 DEF Inv
<1> QED
  BY <1>3, <1>5, <1>6 DEF Inv

\* So does every step of the specification.
LEMMA InvNext == Inv /\ [Next]_vars => Inv'
<1> SUFFICES ASSUME Inv, [Next]_vars
             PROVE  Inv'
  OBVIOUS
<1>1. CASE Next
  <2>1. CASE time_update
    BY <2>1, SettingsInv
  <2>2. ASSUME NEW c \in Conn,
               \/ asc_process_update(c)   \/ asc_process_annex(c)
               \/ oom_delete(c)           \/ asc_complete_nread(c)
               \/ nread_done(c)           \/ asc_process_delta(c)
               \/ asc_process_delete(c)   \/ read_key(c)
               \/ read_hit(c)             \/ read_no_iov(c)
               \/ read_overlong(c)        \/ read_end(c)
               \/ transmit_complete(c)    \/ transmit_udp_error(c)
               \/ conn_close(c)           \/ release_next(c)
               \/ asc_process_flushall(c) \/ flush_expired(c)
               \/ asc_process_evict(c)
        PROVE  Inv'
    BY <2>2, UpdateInv, AnnexInv, OomInv, CompleteInv, NreadDoneInv, DeltaInv,
       DeleteInv, ReadKeyInv, ReadHitInv, NoIovInv, OverlongInv, ReadEndInv,
       TransmitInv, CloseInv, ReleaseInv, FlushallInv, FlushExpiredInv, SettingsInv
  <2> QED
    BY <1>1, <2>1, <2>2 DEF Next
<1>2. CASE UNCHANGED vars
  <2>1. UNCHANGED <<now, evict_opt, oldest_live, mem, conn, hold, leak>>
    BY <1>2 DEF vars
  <2>2. TypeOK'
    BY <2>1 DEF Inv, TypeOK
  <2>3. Counted(hold', mem', leak') /\ \A c \in Conn : PhaseOK(conn'[c], hold'[c])
    BY <2>1 DEF Inv
  <2> QED
    BY <2>1, <2>2, <2>3 DEF Inv
<1> QED
  BY <1>1, <1>2

\* Every variable keeps its type, whatever clients, clock and malloc do: in
\* particular item_release_refcount never takes a count below zero, and hash
\* and queues only hold items of the heap.
THEOREM TypeCorrect == Spec => []TypeOK
<1>1. Inv => TypeOK
  BY DEF Inv
<1> QED
  BY <1>1, InvInit, InvNext, PTL DEF Spec

\* item_acquire_refcount and item_release_refcount keep the counts of items
\* and slabs exact: they equal the references connections hold, plus those
\* that error paths of asc_process_read forget.
THEOREM RefcountsExact == Spec => []RefcountExact
<1>1. Inv => RefcountExact
  <2> SUFFICES ASSUME Inv PROVE RefcountExact
    OBVIOUS
  <2>1. hold \in Holds /\ Exact(hold, mem, leak)
    BY DEF Inv, Counted
  <2> QED
    BY <2>1, ExactIsExact DEF RefcountExact, Refers
<1> QED
  BY <1>1, InvInit, InvNext, PTL DEF Spec

-----------------------------------------------------------------------------
(***************************************************************************)
(* Consistency.                                                            *)
(***************************************************************************)

\* Where no ASSERT can fail: the free queues are in use (the server was not
\* started with -M 8 alone), there is room for a slab, and malloc gives it.
Ideal == use_freeq /\ max_nslab > 0 /\ "malloc" \notin Faults

\* A command that found no memory has a key to delete.
OomKeys == \A c \in Conn : conn[c].state = "oom" => conn[c].key \in Key

\* The inductive invariant: the counts are exact (Inv), the memory is sound
\* with no item in the hands of an operation, and the items being read are
\* private.
Consistent ==
    /\ Inv
    /\ Sound(mem, {})
    /\ NreadPrivate
    /\ OomKeys
    /\ Ideal => NoAssertFails

\* What a step does to the memory, and to what is known of connections.
Steady ==
    /\ Sound(mem', {})
    /\ Keeps(mem, mem', Item)
    /\ Ideal => mem'.failed = mem.failed
    /\ NreadPrivate'
    /\ OomKeys'

\* A step of c leaves the other connections alone.
Alone(c) == \A d \in Conn \ {c} : conn'[d] = conn[d] /\ hold'[d] = hold[d]

-----------------------------------------------------------------------------
\* Two references are counted twice.
LEMMA TwoRefs ==
    ASSUME NEW hd, NEW m, NEW lk, Counted(hd, m, lk), NEW c \in Conn, NEW i \in Slot,
           NEW d \in Conn, NEW j \in Slot, c # d, hd[c][i] # NoItem, hd[d][j] = hd[c][i]
    PROVE  m.refcount[hd[c][i]] > 1
<1> DEFINE x == hd[c][i]
           A == In(hd, {x})
<1>1. x \in Item /\ <<c, i>> \in Ref /\ <<d, j>> \in Ref
  BY DEF Counted, Holds, MaybeItem, Ref
<1>2. <<c, i>> \in A /\ <<d, j>> \in A /\ <<c, i>> # <<d, j>>
  BY <1>1 DEF In
<1>3. IsFiniteSet(A) /\ Cardinality(A) \in Nat
  BY RefsFinite
<1> HIDE DEF A
<1>4. /\ Cardinality(A \ {<<c, i>>}) = Cardinality(A) - 1
      /\ IsFiniteSet(A \ {<<c, i>>})
  BY <1>2, <1>3, FS_RemoveElement
<1>5. Cardinality(A \ {<<c, i>>}) # 0
  BY <1>2, <1>4, FS_EmptySet
<1>6. Cardinality(A \ {<<c, i>>}) \in Nat
  BY <1>4, FS_CardinalityType
<1>7. Cardinality(A) > 1
  BY <1>3, <1>4, <1>5, <1>6
<1>8. lk.item[x] \in Nat /\ m.refcount[x] = Cardinality(A) + lk.item[x]
  BY <1>1, CountedTypes DEF Counted, Exact, A
<1> QED
  BY <1>3, <1>7, <1>8

\* No other connection refers to an item whose value is being read.
LEMMA Private ==
    ASSUME Inv, NreadPrivate, NEW d \in Conn, conn[d].state = "NREAD",
           NEW c \in Conn \ {d}, NEW i \in Slot
    PROVE  /\ hold[c][i] # hold[d][0]
           /\ hold[d][0] \in Item /\ hold[d][0] # NoItem
           /\ mem.refcount[hold[d][0]] = 1 /\ mem.flags[hold[d][0]] = {}
<1>1. /\ hold[d][0] # NoItem /\ mem.refcount[hold[d][0]] = 1
      /\ mem.flags[hold[d][0]] = {}
  BY DEF NreadPrivate
<1>2. 0 \in Slot /\ hold[d][0] \in Item
  BY <1>1, InvFacts
<1>3. hold[c][i] # hold[d][0]
  <2> SUFFICES ASSUME hold[c][i] = hold[d][0]
               PROVE  FALSE
    OBVIOUS
  <2>1. Counted(hold, mem, leak)
    BY DEF Inv
  <2>2. mem.refcount[hold[d][0]] > 1
    BY <1>1, <1>2, <2>1, TwoRefs
  <2> QED
    BY <1>1, <2>2
<1> QED
  BY <1>1, <1>2, <1>3

\* The item of another connection stays private if the step neither touches
\* it nor takes a reference on it.
LEMMA PrivateStep ==
    ASSUME Inv, NreadPrivate, NEW c \in Conn, Alone(c), NEW T, Keeps(mem, mem', T),
           \A d \in Conn \ {c} : conn[d].state = "NREAD" =>
              hold[d][0] \notin T /\ mem'.refcount[hold[d][0]] = mem.refcount[hold[d][0]],
           conn'[c].state = "NREAD" => /\ hold'[c][0] # NoItem
                                       /\ mem'.refcount[hold'[c][0]] = 1
                                       /\ mem'.flags[hold'[c][0]] = {}
    PROVE  NreadPrivate'
<1>1. ASSUME NEW d \in Conn, d # c, conn'[d].state = "NREAD"
      PROVE  /\ hold'[d][0] # NoItem /\ mem'.refcount[hold'[d][0]] = 1
             /\ mem'.flags[hold'[d][0]] = {}
  <2>1. conn[d].state = "NREAD" /\ hold'[d][0] = hold[d][0]
    BY <1>1 DEF Alone
  <2>2. 0 \in Slot
    BY InvFacts
  <2>3. /\ hold[d][0] \in Item /\ hold[d][0] # NoItem
        /\ mem.refcount[hold[d][0]] = 1 /\ mem.flags[hold[d][0]] = {}
    BY <1>1, <2>1, <2>2, Private
  <2>4. mem'.refcount[hold[d][0]] = 1 /\ hold[d][0] \notin T
    BY <1>1, <2>1, <2>3
  <2>5. ~item_is_linked(mem, hold[d][0])
    BY <2>3 DEF item_is_linked
  <2>6. mem'.flags[hold[d][0]] = mem.flags[hold[d][0]]
    BY <2>3, <2>4, <2>5 DEF Keeps
  <2> QED
    BY <2>1, <2>3, <2>4, <2>6
<1> QED
  BY <1>1 DEF NreadPrivate

\* The oom state of other connections.
LEMMA OomStep ==
    ASSUME OomKeys, NEW c \in Conn, Alone(c), conn'[c].state = "oom" => conn'[c].key \in Key
    PROVE  OomKeys'
  BY DEF OomKeys, Alone

\* A step that keeps the counts, and may link the item its connection holds.
LEMMA QuietSteady ==
    ASSUME Consistent, NEW c \in Conn, Alone(c),
           NEW T, T = {} \/ (T = {hold[c][0]} /\ hold[c][0] # NoItem),
           Sound(mem', {}), Keeps(mem, mem', T), Ideal => mem'.failed = mem.failed,
           mem'.refcount = mem.refcount, conn'[c].state \notin {"NREAD", "oom"}
    PROVE  Steady
<1>1. Inv /\ NreadPrivate /\ OomKeys /\ 0 \in Slot
  BY InvFacts DEF Consistent
<1>2. \A d \in Conn \ {c} : conn[d].state = "NREAD" => hold[d][0] \notin T
  BY <1>1, Private
<1>3. NreadPrivate'
  BY <1>1, <1>2, PrivateStep
<1>4. OomKeys'
  BY <1>1, OomStep
<1>5. Keeps(mem, mem', Item)
  BY DEF Keeps
<1> QED
  BY <1>3, <1>4, <1>5 DEF Steady

\* A step that does not touch the memory.
LEMMA IdleSteady ==
    ASSUME Consistent, NEW c \in Conn, Alone(c), mem' = mem,
           conn'[c].state \notin {"NREAD", "oom"}
    PROVE  Steady
<1>1. Sound(mem', {})
  BY DEF Consistent
<1>2. Keeps(mem, mem', {})
  BY DEF Keeps
<1> QED
  BY <1>1, <1>2, QuietSteady

\* A step that releases the reference in slot i of its connection.
LEMMA RemoveSteady ==
    ASSUME Consistent, NEW c \in Conn, Alone(c), NEW i \in Slot, hold[c][i] # NoItem,
           mem' = item_remove(mem, hold[c][i]), conn'[c].state \notin {"NREAD", "oom"}
    PROVE  Steady
<1>1. Inv /\ NreadPrivate /\ OomKeys /\ 0 \in Slot /\ Sound(mem, {})
  BY InvFacts DEF Consistent
<1>2. /\ hold[c][i] \in Item /\ hold[c][i] \in Live(mem) /\ mem.refcount[hold[c][i]] > 0
      /\ CountsOK(mem) /\ HeapOK(mem)
  BY <1>1, InvFacts DEF Ready
<1>3. Sound(mem', {}) /\ Keeps(mem, mem', {}) /\ mem'.failed = mem.failed
  BY <1>1, <1>2, RemoveSound
<1>4. Minus(mem, mem', hold[c][i])
  BY <1>2, RemoveMinus
<1>5. \A x \in Item : x # hold[c][i] => mem'.refcount[x] = mem.refcount[x]
  BY <1>2, <1>4, CountTypes DEF Minus
<1>6. \A d \in Conn \ {c} : conn[d].state = "NREAD" =>
         mem'.refcount[hold[d][0]] = mem.refcount[hold[d][0]]
  BY <1>1, <1>5, Private
<1>7. NreadPrivate'
  BY <1>1, <1>3, <1>6, PrivateStep
<1>8. OomKeys'
  BY <1>1, OomStep
<1>9. Keeps(mem, mem', Item)
  BY <1>3, KeepsMore
<1> QED
  BY <1>3, <1>7, <1>8, <1>9 DEF Steady
-----------------------------------------------------------------------------
(***************************************************************************)
(* The steps.                                                              *)
(***************************************************************************)

\* Without faults of malloc an allocation is safe.
LEMMA IdealSafe ==
    ASSUME NEW e \in MemEnv, Ideal
    PROVE  Safe(e)
  BY DEF MemEnv, Env, Ideal, Safe

\* What start_nread makes of the item it is given.
LEMMA StartSteady ==
    ASSUME Consistent, NEW c \in Conn, conn[c].state = "NEW_CMD", NEW k \in Key, NEW q, NEW a,
           start_nread(c, k, q, a), Sound(mem', {}), Keeps(mem, mem', {}),
           Ideal => mem'.failed = mem.failed,
           a.it = NoItem => mem'.refcount = mem.refcount,
           a.it # NoItem => /\ a.it \in Item /\ mem.refcount[a.it] = 0
                            /\ mem'.refcount = [mem.refcount EXCEPT ![a.it] = @ + 1]
                            /\ mem'.flags[a.it] = {}
    PROVE  Steady
<1>1. Inv /\ NreadPrivate /\ OomKeys /\ 0 \in Slot /\ Sound(mem, {})
      /\ conn \in [Conn -> ConnType] /\ hold \in Holds /\ conn[c] \in ConnType
      /\ mem.refcount \in [Item -> Nat]
  BY InvFacts, CountTypes DEF Consistent
<1>2. Alone(c)
  BY <1>1 DEF start_nread, Alone, Holds
<1>3. \A d \in Conn \ {c} : conn[d].state = "NREAD" =>
         mem'.refcount[hold[d][0]] = mem.refcount[hold[d][0]]
  <2>1. \A d \in Conn \ {c} : conn[d].state = "NREAD" =>
           mem.refcount[hold[d][0]] = 1 /\ hold[d][0] \in Item
    BY <1>1, Private
  <2> QED
    BY <1>1, <2>1
<1>4. conn'[c].state = "NREAD" => a.it # NoItem /\ hold'[c][0] = a.it
  BY <1>1 DEF start_nread, Holds, ConnType
<1>5. a.it # NoItem => mem'.refcount[a.it] = 1
  BY <1>1
<1>6. NreadPrivate'
  BY <1>1, <1>2, <1>3, <1>4, <1>5, PrivateStep
<1>7. conn'[c].state = "oom" => conn'[c].key \in Key
  BY <1>1 DEF start_nread, ConnType
<1>8. OomKeys'
  BY <1>1, <1>2, <1>7, OomStep
<1>9. Keeps(mem, mem', Item)
  BY KeepsMore
<1> QED
  BY <1>6, <1>8, <1>9 DEF Steady

\* set, add, replace and cas get an item that nobody else can see.
LEMMA UpdateSteady ==
    ASSUME Consistent, NEW c \in Conn, asc_process_update(c)
    PROVE  Steady
<1>1. PICK k \in Key, n \in NByte, x \in Ttl, e \in MemEnv,
           q \in Request \ {"append", "prepend"}, v \in 0..mem.cas_id :
        /\ conn[c].state = "NEW_CMD"
        /\ item_slabid(n) # 0
        /\ LET a == item_alloc(mem, item_slabid(n), k, time_reltime(now, x), n, e)
           IN  /\ mem' = IF a.it # NoItem /\ q = "cas" /\ UseCas
                         THEN [a.mem EXCEPT !.hdr[a.it].cas = v] ELSE a.mem
               /\ start_nread(c, k, q, a)
        /\ UNCHANGED <<now, evict_opt, oldest_live, leak>>
  BY DEF asc_process_update
<1> DEFINE id == item_slabid(n)
           t == time_reltime(now, x)
           a == item_alloc(mem, id, k, t, n, e)
           f == "malloc" \in Faults
<1>2. n \in Nat /\ id \in Class /\ t \in Nat
  <2>1. Inv /\ now \in Nat
    BY InvFacts DEF Consistent
  <2>2. n \in Nat /\ x \in Int /\ x + TimeMod >= 0
    BY CacheAssumption
  <2> QED
    BY <1>1, <2>1, <2>2, SlabidClass, ReltimeNat
<1>3. e \in Env(mem, f) /\ f \in BOOLEAN /\ k \in MaybeKey
  BY DEF MemEnv, MaybeKey
<1>4. /\ Ready(mem) /\ Room(mem, 1) /\ Sound(mem, {}) /\ HeapOK(mem) /\ CountsOK(mem)
      /\ v \in Nat
  <2>1. Ready(mem) /\ Room(mem, 1) /\ Sound(mem, {}) /\ HeapOK(mem) /\ CountsOK(mem)
    BY InvFacts, RoomAfter DEF Consistent, Ready
  <2>2. mem.cas_id \in Nat
    BY <2>1 DEF HeapOK, HeapType
  <2> QED
    BY <2>1, <2>2
<1>5. /\ start_nread(c, k, q, a)
      /\ mem' = a.mem \/ (a.it # NoItem /\ mem' = [a.mem EXCEPT !.hdr[a.it].cas = v])
  BY <1>1
<1> HIDE DEF f, id, t
<1>6. Got(mem, a)
  BY <1>2, <1>3, <1>4, AllocGot
<1>7. /\ Sound(a.mem, {}) /\ Spares(mem, a.mem)
      /\ Safe(e) => a.mem.failed = mem.failed
      /\ a.it # NoItem => /\ a.it \in Item /\ mem.refcount[a.it] = 0
                          /\ a.mem.flags[a.it] = {}
  BY <1>2, <1>3, <1>4, AllocSound
<1> HIDE DEF a
<1>8. /\ Sound(mem', {}) /\ Keeps(a.mem, mem', {}) /\ mem'.failed = a.mem.failed
      /\ mem'.refcount = a.mem.refcount /\ mem'.flags = a.mem.flags
  <2>1. CASE mem' = a.mem
    BY <1>7, <2>1 DEF Keeps
  <2>2. CASE a.it # NoItem /\ mem' = [a.mem EXCEPT !.hdr[a.it].cas = v]
    BY <1>4, <1>7, <2>2, SetCasSound DEF Quiet
  <2> QED
    BY <1>5, <2>1, <2>2
<1>9. Keeps(mem, mem', {})
  BY <1>7, <1>8, SparesKeeps, KeepsTrans
<1>10. Ideal => mem'.failed = mem.failed
  BY <1>7, <1>8, IdealSafe
<1>11. /\ a.it = NoItem => mem'.refcount = mem.refcount
       /\ a.it # NoItem => mem'.refcount = [mem.refcount EXCEPT ![a.it] = @ + 1]
  BY <1>6, <1>8 DEF Got, Quiet, Plus
<1> QED
  BY <1>1, <1>5, <1>7, <1>8, <1>9, <1>10, <1>11, StartSteady

\* So do append and prepend.
LEMMA AnnexSteady ==
    ASSUME Consistent, NEW c \in Conn, asc_process_annex(c)
    PROVE  Steady
<1>1. PICK k \in Key, n \in NByte, e \in MemEnv, q \in Request \cap {"append", "prepend"} :
        /\ conn[c].state = "NEW_CMD"
        /\ item_slabid(n) # 0
        /\ LET a == item_alloc(mem, item_slabid(n), k, 0, n, e)
           IN  mem' = a.mem /\ start_nread(c, k, q, a)
        /\ UNCHANGED <<now, evict_opt, oldest_live, leak>>
  BY DEF asc_process_annex
<1> DEFINE id == item_slabid(n)
           a == item_alloc(mem, id, k, 0, n, e)
           f == "malloc" \in Faults
<1>2. n \in Nat /\ id \in Class
  BY <1>1, CacheAssumption, SlabidClass
<1>3. e \in Env(mem, f) /\ f \in BOOLEAN /\ k \in MaybeKey
  BY DEF MemEnv, MaybeKey
<1>4. Ready(mem) /\ Room(mem, 1) /\ Sound(mem, {}) /\ HeapOK(mem) /\ CountsOK(mem)
  BY InvFacts, RoomAfter DEF Consistent, Ready
<1>5. start_nread(c, k, q, a) /\ mem' = a.mem
  BY <1>1
<1> HIDE DEF f, id
<1>6. Got(mem, a)
  BY <1>2, <1>3, <1>4, AllocGot, 0 \in Nat
<1>7. /\ Sound(a.mem, {}) /\ Spares(mem, a.mem)
      /\ Safe(e) => a.mem.failed = mem.failed
      /\ a.it # NoItem => /\ a.it \in Item /\ mem.refcount[a.it] = 0
                          /\ a.mem.flags[a.it] = {}
  BY <1>2, <1>3, <1>4, AllocSound, 0 \in Nat
<1> HIDE DEF a
<1>8. Keeps(mem, mem', {})
  BY <1>5, <1>7, SparesKeeps
<1>9. Ideal => mem'.failed = mem.failed
  BY <1>5, <1>7, IdealSafe
<1>10. /\ a.it = NoItem => mem'.refcount = mem.refcount
       /\ a.it # NoItem => mem'.refcount = [mem.refcount EXCEPT ![a.it] = @ + 1]
  BY <1>5, <1>6 DEF Got, Quiet, Plus
<1> QED
  BY <1>1, <1>5, <1>7, <1>8, <1>9, <1>10, StartSteady

\* A command without memory deletes its key.
LEMMA OomSteady ==
    ASSUME Consistent, NEW c \in Conn, oom_delete(c)
    PROVE  Steady
<1>1. /\ Inv /\ Sound(mem, {}) /\ Ready(mem) /\ HeapOK(mem)
      /\ conn \in [Conn -> ConnType] /\ conn[c] \in ConnType
  BY InvFacts DEF Consistent
<1>2. conn[c].key \in Key /\ mem' = item_delete(mem, conn[c].key) /\ hold' = hold
  BY DEF oom_delete, Consistent, OomKeys
<1>3. Alone(c) /\ conn'[c].state = "NEW_CMD"
  BY <1>1, <1>2 DEF oom_delete, Alone, ConnType
<1>4. Good(mem, mem', {})
  BY <1>1, <1>2, DeleteSound
<1>5. Quiet(mem, mem')
  BY <1>1, <1>2, ItemDeleteQuiet DEF MaybeKey
<1> QED
  BY <1>3, <1>4, <1>5, QuietSteady DEF Good, Quiet

\* Storing a value links the item of the connection, and no other private
\* one.
LEMMA CompleteSteady ==
    ASSUME Consistent, NEW c \in Conn, asc_complete_nread(c)
    PROVE  Steady
<1> DEFINE it == hold[c][0]
           f  == "malloc" \in Faults
<1>1. /\ Inv /\ Sound(mem, {}) /\ Ready(mem) /\ HeapOK(mem) /\ 0 \in Slot
      /\ conn \in [Conn -> ConnType] /\ conn[c] \in ConnType
  BY InvFacts DEF Consistent
<1>2. conn[c].state = "NREAD" /\ hold' = hold
  BY DEF asc_complete_nread
<1>3. Alone(c) /\ conn'[c].state = "stored"
  BY <1>1, <1>2 DEF asc_complete_nread, Alone, ConnType
<1>4. it # NoItem /\ mem.flags[it] = {}
  BY <1>2 DEF Consistent, NreadPrivate
<1>5. it \in Item /\ it \in Live(mem) /\ mem.refcount[it] > 0 /\ ~item_is_linked(mem, it)
  BY <1>1, <1>4, InvFacts DEF item_is_linked
<1>6. \/ mem' \in {item_set(mem, it), item_cas(mem, it), item_add(mem, it),
                    item_replace(mem, it), mem}
      \/ \E e \in MemEnv, append \in BOOLEAN : mem' = item_annex(mem, it, append, e)
  BY DEF asc_complete_nread
<1> HIDE DEF it
<1>7. Quiet(mem, mem') /\ Sound(mem', {}) /\ Keeps(mem, mem', {it})
      /\ (Ideal => mem'.failed = mem.failed)
  <2>1. ASSUME NEW e \in MemEnv, NEW append \in BOOLEAN, mem' = item_annex(mem, it, append, e)
        PROVE  <1>7!:
    <3>1. e \in Env(mem, f) /\ f \in BOOLEAN
      BY DEF MemEnv
    <3> HIDE DEF f
    <3>2. Quiet(mem, mem')
      BY <1>1, <1>5, <2>1, <3>1, AnnexQuiet
    <3>3. Grown(mem, mem', e)
      BY <1>1, <1>5, <2>1, <3>1, AnnexSound
    <3> QED
      BY <3>2, <3>3, KeepsMore, IdealSafe DEF Grown
  <2>2. CASE mem' \in {item_set(mem, it), item_cas(mem, it), item_add(mem, it),
                       item_replace(mem, it)}
    <3>1. Quiet(mem, mem')
      BY <1>1, <1>5, <2>2, StoreQuiet
    <3>2. Good(mem, mem', {it})
      BY <1>1, <1>5, <2>2, StoreSound
    <3> QED
      BY <3>1, <3>2 DEF Good
  <2>3. CASE mem' = mem
    BY <1>1, <2>3, QuietRefl DEF Keeps
  <2> QED
    BY <1>6, <2>1, <2>2, <2>3
<1> QED
  BY <1>3, <1>4, <1>7, QuietSteady DEF Quiet, it
\* The end of a storage command releases its item.
LEMMA NreadDoneSteady ==
    ASSUME Consistent, NEW c \in Conn, nread_done(c)
    PROVE  Steady
<1>1. /\ Inv /\ 0 \in Slot /\ conn \in [Conn -> ConnType] /\ conn[c] \in ConnType
      /\ hold \in Holds
  BY InvFacts DEF Consistent
<1>2. /\ conn[c].state = "stored" /\ mem' = item_remove(mem, hold[c][0])
      /\ hold' = [hold EXCEPT ![c][0] = NoItem]
  BY DEF nread_done
<1>3. hold[c][0] # NoItem
  BY <1>1, <1>2, InvFacts DEF PhaseOK
<1>4. Alone(c) /\ conn'[c].state = "NEW_CMD"
  BY <1>1, <1>2 DEF nread_done, Goto, Alone, ConnType, Holds
<1> QED
  BY <1>1, <1>2, <1>3, <1>4, RemoveSteady

\* incr and decr.
LEMMA DeltaSteady ==
    ASSUME Consistent, NEW c \in Conn, asc_process_delta(c)
    PROVE  Steady
<1>1. PICK k \in Key, numeric \in BOOLEAN, res \in Digits, e \in MemEnv :
        /\ conn[c].state = "NEW_CMD"
        /\ mem' = item_delta(mem, k, numeric, res, e)
        /\ UNCHANGED <<now, evict_opt, oldest_live, conn, hold, leak>>
  BY DEF asc_process_delta
<1> DEFINE f == "malloc" \in Faults
<1>2. e \in Env(mem, f) /\ f \in BOOLEAN /\ k \in MaybeKey
  BY DEF MemEnv, MaybeKey
<1>3. res \in Nat /\ item_slabid(res) # 0
  BY CacheAssumption
<1>4. Inv /\ Sound(mem, {}) /\ Ready(mem)
  BY InvFacts DEF Consistent
<1> HIDE DEF f
<1>5. Quiet(mem, mem')
  BY <1>1, <1>2, <1>3, <1>4, DeltaQuiet
<1>6. Grown(mem, mem', e)
  BY <1>1, <1>2, <1>3, <1>4, DeltaSound
<1>7. Ideal => mem'.failed = mem.failed
  BY <1>6, IdealSafe DEF Grown
<1>8. Alone(c) /\ conn'[c].state = "NEW_CMD"
  BY <1>1 DEF Alone
<1> QED
  BY <1>5, <1>6, <1>7, <1>8, QuietSteady DEF Grown, Quiet

\* delete.
LEMMA DeleteSteady ==
    ASSUME Consistent, NEW c \in Conn, asc_process_delete(c)
    PROVE  Steady
<1>1. PICK k \in Key : /\ conn[c].state = "NEW_CMD" /\ mem' = item_delete(mem, k)
                       /\ UNCHANGED <<now, evict_opt, oldest_live, conn, hold, leak>>
  BY DEF asc_process_delete
<1>2. Inv /\ Sound(mem, {}) /\ Ready(mem) /\ k \in MaybeKey
  BY InvFacts DEF Consistent, MaybeKey
<1>3. Quiet(mem, mem') /\ Good(mem, mem', {})
  BY <1>1, <1>2, ItemDeleteQuiet, DeleteSound
<1>4. Alone(c) /\ conn'[c].state = "NEW_CMD"
  BY <1>1 DEF Alone
<1> QED
  BY <1>3, <1>4, QuietSteady DEF Good, Quiet

\* A lookup finds linked items only, so none that is being read.
LEMMA ReadKeySteady ==
    ASSUME Consistent, NEW c \in Conn, read_key(c)
    PROVE  Steady
<1>1. PICK k \in Key :
        LET g == item_get(mem, k)
        IN  /\ mem' = g.mem
            /\ hold' = [hold EXCEPT ![c][0] = g.it]
            /\ Goto(c, IF g.it = NoItem THEN "read" ELSE "touch")
  BY DEF read_key
<1> DEFINE g == item_get(mem, k)
<1>2. /\ Inv /\ NreadPrivate /\ OomKeys /\ 0 \in Slot /\ Sound(mem, {}) /\ Ready(mem)
      /\ conn \in [Conn -> ConnType] /\ conn[c] \in ConnType /\ hold \in Holds
  BY InvFacts DEF Consistent
<1>3. /\ mem' = g.mem /\ Alone(c) /\ conn'[c].state \in {"read", "touch"}
  BY <1>1, <1>2 DEF Goto, Alone, ConnType, Holds
<1>4. /\ Good(mem, g.mem, {})
      /\ g.it = NoItem => Quiet(mem, g.mem)
      /\ g.it # NoItem => item_is_linked(mem, g.it) /\ Plus(mem, g.mem, g.it)
  BY <1>2, LookupSound
<1> HIDE DEF g
<1>5. Good(mem, mem', {})
  BY <1>3, <1>4
<1>6. \A x \in Item : x # g.it => mem'.refcount[x] = mem.refcount[x]
  <2>1. mem.refcount \in [Item -> Nat]
    BY <1>2, CountTypes DEF Ready
  <2> QED
    BY <1>3, <1>4, <2>1 DEF Quiet, Plus
<1>7. \A d \in Conn \ {c} : conn[d].state = "NREAD" =>
         mem'.refcount[hold[d][0]] = mem.refcount[hold[d][0]]
  <2> SUFFICES ASSUME NEW d \in Conn \ {c}, conn[d].state = "NREAD"
               PROVE  mem'.refcount[hold[d][0]] = mem.refcount[hold[d][0]]
    OBVIOUS
  <2>1. hold[d][0] \in Item /\ hold[d][0] # NoItem /\ mem.flags[hold[d][0]] = {}
    BY <1>2, Private
  <2>2. hold[d][0] # g.it
    BY <1>4, <2>1 DEF item_is_linked
  <2> QED
    BY <1>6, <2>1, <2>2
<1>8. NreadPrivate'
  BY <1>2, <1>3, <1>5, <1>7, PrivateStep DEF Good
<1>9. OomKeys'
  BY <1>2, <1>3, OomStep
<1>10. Keeps(mem, mem', Item)
  BY <1>5, KeepsMore DEF Good
<1> QED
  BY <1>5, <1>8, <1>9, <1>10 DEF Steady, Good

\* A hit is touched: it moves in the lruq.
LEMMA ReadHitSteady ==
    ASSUME Consistent, NEW c \in Conn, read_hit(c)
    PROVE  Steady
<1>1. /\ Inv /\ 0 \in Slot /\ Sound(mem, {}) /\ now \in Nat /\ HeapOK(mem)
      /\ conn \in [Conn -> ConnType] /\ conn[c] \in ConnType /\ hold \in Holds
  BY InvFacts DEF Consistent
<1>2. conn[c].state = "touch" /\ mem' = item_touch(mem, hold[c][0])
  BY DEF read_hit
<1>3. hold[c][0] # NoItem
  BY <1>1, <1>2, InvFacts DEF PhaseOK
<1>4. /\ hold[c][0] \in Item /\ hold[c][0] \in Live(mem)
      /\ mem.refcount[hold[c][0]] > 0
  BY <1>1, <1>3, InvFacts
<1>5. Sound(mem', {}) /\ Keeps(mem, mem', {}) /\ mem'.failed = mem.failed
  BY <1>1, <1>2, <1>4, TouchSound
<1>6. Quiet(mem, mem')
  BY <1>1, <1>2, <1>4, TouchQuiet
<1>7. Alone(c) /\ conn'[c].state = "read"
  BY <1>1 DEF read_hit, Alone, ConnType, Holds
<1> QED
  BY <1>5, <1>6, <1>7, QuietSteady DEF Quiet

\* A hit without room in the reply is released.
LEMMA NoIovSteady ==
    ASSUME Consistent, NEW c \in Conn, read_no_iov(c)
    PROVE  Steady
<1>1. /\ Inv /\ 0 \in Slot /\ conn \in [Conn -> ConnType] /\ conn[c] \in ConnType
      /\ hold \in Holds
  BY InvFacts DEF Consistent
<1>2. /\ conn[c].state = "touch" /\ mem' = item_remove(mem, hold[c][0])
      /\ hold' = [hold EXCEPT ![c][0] = NoItem]
  BY DEF read_no_iov
<1>3. hold[c][0] # NoItem
  BY <1>1, <1>2, InvFacts DEF PhaseOK
<1>4. Alone(c) /\ conn'[c].state = "read"
  BY <1>1, <1>2 DEF read_no_iov, Goto, Alone, ConnType, Holds
<1> QED
  BY <1>1, <1>2, <1>3, <1>4, RemoveSteady

\* The steps that leave the memory alone.
LEMMA OtherSteady ==
    ASSUME Consistent, NEW c \in Conn,
           \/ read_overlong(c) \/ read_end(c) \/ transmit_complete(c)
           \/ transmit_udp_error(c) \/ conn_close(c) \/ asc_process_flushall(c)
    PROVE  Steady
<1>1. conn \in [Conn -> ConnType] /\ conn[c] \in ConnType /\ hold \in Holds
  BY InvFacts DEF Consistent
<1>2. mem' = mem /\ Alone(c) /\ conn'[c].state \notin {"NREAD", "oom"}
  <2>1. CASE read_overlong(c)
    BY <1>1, <2>1 DEF read_overlong, Alone, ConnType, Forget, Holds
  <2>2. CASE read_end(c)
    <3>1. PICK s \in {"MWRITE", "NEW_CMD"} :
             conn' = [conn EXCEPT ![c].state = s, ![c].nhit = 0, ![c].ileft = conn[c].nhit]
      BY <2>2 DEF read_end
    <3>2. conn'[c].state = s /\ \A d \in Conn \ {c} : conn'[d] = conn[d]
      BY <1>1, <3>1 DEF ConnType
    <3>3. mem' = mem /\ \A d \in Conn \ {c} : hold'[d] = hold[d]
      BY <1>1, <2>2 DEF read_end, Forget, Holds
    <3> QED
      BY <3>2, <3>3 DEF Alone
  <2>3. CASE transmit_complete(c) \/ transmit_udp_error(c)
    BY <1>1, <2>3 DEF transmit_complete, transmit_udp_error, Goto, Alone, ConnType
  <2>4. CASE conn_close(c)
    BY <1>1, <2>4 DEF conn_close, Alone, ConnType
  <2>5. CASE asc_process_flushall(c)
    BY <1>1, <2>5 DEF asc_process_flushall, Goto, Alone, ConnType
  <2> QED
    BY <2>1, <2>2, <2>3, <2>4, <2>5
<1> QED
  BY <1>2, IdleSteady

\* One reference of a reply, or of a closed connection, is given back.
LEMMA ReleaseSteady ==
    ASSUME Consistent, NEW c \in Conn, release_next(c)
    PROVE  Steady
<1> DEFINE held == Held(c, Slot)
           i == CHOOSE j \in held : \A k \in held : j <= k
<1>1. /\ conn[c].state = "release" /\ mem' = item_remove(mem, hold[c][i])
      /\ hold' = [hold EXCEPT ![c][i] = NoItem]
      /\ conn' = IF held = {i} THEN [conn EXCEPT ![c] = Idle] ELSE conn
  BY DEF release_next
<1>2. /\ Inv /\ conn \in [Conn -> ConnType] /\ hold \in Holds
      /\ \E j \in Slot : hold[c][j] # NoItem
  BY <1>1, InvFacts DEF Consistent, PhaseOK
<1>3. held \in SUBSET Nat /\ held # {}
  BY <1>2, CacheAssumption DEF Held, Slot
<1>4. i \in held
  BY <1>3, LeastNat
<1>5. i \in Slot /\ hold[c][i] # NoItem
  BY <1>4 DEF Held
<1> HIDE DEF i, held
<1>6. Alone(c)
  BY <1>1, <1>2 DEF Alone, Holds
<1>7. conn'[c].state \notin {"NREAD", "oom"}
  BY <1>1, <1>2 DEF Idle
<1> QED
  BY <1>1, <1>5, <1>6, <1>7, RemoveSteady

\* flush_all unlinks items, and a private one is not linked.
LEMMA FlushExpiredSteady ==
    ASSUME Consistent, NEW c \in Conn, flush_expired(c)
    PROVE  Steady
<1>1. /\ Inv /\ Sound(mem, {}) /\ HeapOK(mem)
      /\ conn \in [Conn -> ConnType] /\ conn[c] \in ConnType
  BY InvFacts DEF Consistent
<1>2. mem' = item_flush_expired(mem) /\ hold' = hold
  BY DEF flush_expired
<1>3. Alone(c) /\ conn'[c].state = "NEW_CMD"
  BY <1>1, <1>2 DEF flush_expired, Goto, Alone, ConnType
<1>4. Good(mem, mem', {}) /\ Quiet(mem, mem')
  BY <1>1, <1>2, FlushSound, FlushQuiet
<1> QED
  BY <1>3, <1>4, QuietSteady DEF Good, Quiet

\* The clock, the eviction policy and stuttering concern no item.
LEMMA StillSteady ==
    ASSUME Consistent, UNCHANGED <<mem, conn, hold>>
    PROVE  Steady
<1>1. Sound(mem', {}) /\ NreadPrivate' /\ OomKeys'
  BY DEF Consistent, NreadPrivate, OomKeys
<1>2. Keeps(mem, mem', Item)
  BY DEF Keeps
<1> QED
  BY <1>1, <1>2 DEF Steady

-----------------------------------------------------------------------------
\* Every step is steady.
LEMMA NextSteady ==
    ASSUME Consistent, [Next]_vars
    PROVE  Steady
<1>1. CASE time_update \/ UNCHANGED vars
  BY <1>1, StillSteady DEF time_update, vars
<1>2. ASSUME NEW c \in Conn,
               \/ asc_process_update(c)   \/ asc_process_annex(c)
               \/ oom_delete(c)           \/ asc_complete_nread(c)
               \/ nread_done(c)           \/ asc_process_delta(c)
               \/ asc_process_delete(c)   \/ read_key(c)
               \/ read_hit(c)             \/ read_no_iov(c)
               \/ read_overlong(c)        \/ read_end(c)
               \/ transmit_complete(c)    \/ transmit_udp_error(c)
               \/ conn_close(c)           \/ release_next(c)
               \/ asc_process_flushall(c) \/ flush_expired(c)
               \/ asc_process_evict(c)
      PROVE  Steady
  <2>1. CASE asc_process_evict(c)
    BY <2>1, StillSteady DEF asc_process_evict
  <2> QED
    BY <1>2, <2>1, UpdateSteady, AnnexSteady, OomSteady, CompleteSteady, NreadDoneSteady,
       DeltaSteady, DeleteSteady, ReadKeySteady, ReadHitSteady, NoIovSteady, OtherSteady,
       ReleaseSteady, FlushExpiredSteady
<1> QED
  BY <1>1, <1>2 DEF Next

\* The empty memory is sound.
LEMMA InitSound == Sound(InitHeap, {})
<1> DEFINE h == InitHeap
<1>1. /\ \A x \in Item : h.flags[x] = {} /\ h.refcount[x] = 0
      /\ h.nslab = 0 /\ h.slab_lruq = << >>
      /\ \A c \in Class : /\ h.free_item[c] = NoItem
                          /\ h.free_itemq[c] = << >> /\ h.item_lruq[c] = << >>
      /\ \A k \in MaybeKey : h.hash[k] = NoItem
  BY DEF InitHeap
<1>2. HeapOK(h)
  BY SlabAssumption DEF HeapOK, HeapType, InitHeap, Blank, ItemHdr, MaybeKey, MaybeItem
<1> HIDE DEF h
<1>3. NoDup(<< >>) /\ \A x : x \notin Elems(<< >>)
  BY DEF NoDup, Elems
<1>4. SlabsOK(h)
  BY <1>1, <1>3 DEF SlabsOK
<1>5. \A x \in Item : ~item_is_linked(h, x) /\ ~item_is_slabbed(h, x) /\ ~Unused(h, x)
  BY <1>1 DEF item_is_linked, item_is_slabbed, Unused
<1>6. LruqOK(h) /\ FreeqOK(h)
  BY <1>1, <1>3, <1>5 DEF LruqOK, FreeqOK
<1>7. HashOK(h) /\ CurrentOK(h)
  BY <1>1, <1>5 DEF HashOK, CurrentOK, MaybeKey
<1>8. \A x \in Item : ItemOK(h, x)
  BY <1>1, <1>5 DEF ItemOK
<1>9. \A x \in Item : ~Chunk(h, x)
  BY <1>1 DEF Chunk, Item, Slab
<1>10. Whereabouts(h, {})
  BY <1>9 DEF Whereabouts
<1> QED
  BY <1>2, <1>4, <1>6, <1>7, <1>8, <1>10 DEF Sound, h

\* So is everything at the start.
LEMMA ConsistentInit == Init => Consistent
<1> SUFFICES ASSUME Init PROVE Consistent
  OBVIOUS
<1>1. Inv
  BY InvInit
<1>2. Sound(mem, {})
  BY InitSound DEF Init
<1>3. NreadPrivate /\ OomKeys
  BY DEF Init, Idle, NreadPrivate, OomKeys
<1>4. NoAssertFails
  BY DEF Init, InitHeap, NoAssertFails
<1> QED
  BY <1>1, <1>2, <1>3, <1>4 DEF Consistent

\* The invariant is inductive.
LEMMA ConsistentNext == Consistent /\ [Next]_vars => Consistent'
<1> SUFFICES ASSUME Consistent, [Next]_vars
             PROVE  Consistent'
  OBVIOUS
<1>1. Inv'
  BY InvNext DEF Consistent
<1>2. Steady
  BY NextSteady
<1>3. Ideal => NoAssertFails'
  BY <1>2 DEF Steady, NoAssertFails, Consistent
<1>4. Ideal' = Ideal
  BY DEF Ideal, use_freeq
<1> QED
  BY <1>1, <1>2, <1>3, <1>4 DEF Steady, Consistent

\* Hash, queues, flags and counts agree in every reachable state.
THEOREM AlwaysConsistent == Spec => []Consistent
  BY ConsistentInit, ConsistentNext, PTL DEF Spec

\* assoc_find finds exactly the linked items, each under its own key, whatever
\* set, delete, eviction, expiry and flush do in between: no key has two
\* linked items and no linked item is out of reach.
THEOREM HashIsExact == Spec => []HashMatchesLinked
<1>1. Consistent => HashMatchesLinked
  BY DEF Consistent, Sound, HashOK, HashMatchesLinked
<1> QED
  BY <1>1, AlwaysConsistent, PTL

\* No chunk of a slab is lost, and none is in two places: not in the lruq and
\* the free queue, not free and referenced.  And every allocated slab is in the
\* slab lruq exactly once, so slab eviction can reach it.
THEOREM NoChunkLost == Spec => []ChunksAccounted
<1>1. Consistent => ChunksAccounted
  <2> SUFFICES ASSUME Consistent PROVE ChunksAccounted
    OBVIOUS
  <2>1. Sound(mem, {}) /\ HeapOK(mem)
    BY DEF Consistent, Sound
  <2>2. \A id \in Class : NoDup(mem.item_lruq[id]) /\ NoDup(mem.free_itemq[id])
    BY <2>1 DEF Sound, LruqOK, FreeqOK
  <2>3. ASSUME NEW s \in 1..mem.nslab, NEW it \in slab_items(mem, s)
        PROVE  LET id == item_id(mem, it)
                   n  == mem.refcount[it]
               IN  /\ item_is_linked(mem, it)  <=> it \in Elems(mem.item_lruq[id])
                   /\ item_is_slabbed(mem, it) <=> it \in Elems(mem.free_itemq[id])
                   /\ item_is_slabbed(mem, it) => n = 0 /\ ~item_is_linked(mem, it)
                   /\ Virgin(it) => n = 0 /\ mem.flags[it] = {}
                   /\ \/ item_is_linked(mem, it) \/ item_is_slabbed(mem, it)
                      \/ n > 0                   \/ Virgin(it)
    <3>1. mem.slab_class[s] \in Class /\ s \in Slab
      BY <2>1, LiveItems DEF Sound, SlabsOK
    <3>2. /\ it \in Item /\ it[1] = s /\ Chunk(mem, it) /\ item_id(mem, it) \in Class
      BY <2>1, <3>1, SlabAssumption, CountTypes
         DEF slab_items, Chunk, item_id, item_2_slab, Item, Class
    <3>3. Virgin(it) <=> Unused(mem, it)
      BY DEF Virgin, Unused
    <3> QED
      BY <2>1, <3>2, <3>3 DEF Sound, LruqOK, FreeqOK, ItemOK, Whereabouts
  <2>4. SlabsQueued
    BY <2>1 DEF Sound, SlabsOK, SlabsQueued
  <2> QED
    BY <2>2, <2>3, <2>4 DEF ChunksAccounted
<1> QED
  BY <1>1, AlwaysConsistent, PTL

\* The item a value is read into without a lock (CONN_NREAD) belongs to its
\* connection alone until the value is complete.
THEOREM ReadingIsPrivate == Spec => []NreadPrivate
<1>1. Consistent => NreadPrivate
  BY DEF Consistent
<1> QED
  BY <1>1, AlwaysConsistent, PTL

\* Where the free queues are in use, the pool has room for a slab and malloc
\* does not fail, no ASSERT of the item and slab code ever fails.
THEOREM AssertionsHold ==
    ASSUME Ideal
    PROVE  Spec => []NoAssertFails
<1>1. Consistent => NoAssertFails
  BY DEF Consistent
<1> QED
  BY <1>1, AlwaysConsistent, PTL

\* An item in use by a connection is not freed, evicted or reused under it, by
\* any step of any connection.
THEOREM ReferencesProtect == Spec => HeldItemsKept
<1>1. Consistent /\ Consistent' /\ [Next]_vars =>
        [\A c \in Conn, i \in Slot :
         LET it == hold[c][i]
         IN  it # NoItem /\ hold'[c][i] = it
             => /\ mem'.hdr[it].key = mem.hdr[it].key
                /\ mem'.hdr[it].exptime = mem.hdr[it].exptime
                /\ item_id(mem', it) = item_id(mem, it)
                /\ ~item_is_slabbed(mem', it)]_vars
  <2> SUFFICES ASSUME Consistent, Consistent', [Next]_vars,
                      NEW c \in Conn, NEW i \in Slot, NEW it, it = hold[c][i],
                      it # NoItem, hold'[c][i] = it
               PROVE  /\ mem'.hdr[it].key = mem.hdr[it].key
                      /\ mem'.hdr[it].exptime = mem.hdr[it].exptime
                      /\ item_id(mem', it) = item_id(mem, it)
                      /\ ~item_is_slabbed(mem', it)
    OBVIOUS
  <2>1. Counted(hold, mem, leak) /\ Counted(hold', mem', leak') /\ Sound(mem', {})
    BY DEF Consistent, Inv
  <2>2. it \in Item /\ mem.refcount[it] > 0 /\ mem'.refcount[it] > 0
    BY <2>1, HeldCounted
  <2>3. Keeps(mem, mem', Item)
    BY NextSteady DEF Steady
  <2>4. mem'.refcount[it] # 0
    BY <2>2
  <2>5. ~item_is_slabbed(mem', it)
    BY <2>1, <2>2, <2>4 DEF Sound, ItemOK
  <2> QED
    BY <2>2, <2>3, <2>5 DEF Keeps
<1> QED
  BY <1>1, AlwaysConsistent, PTL DEF Spec, HeldItemsKept

-----------------------------------------------------------------------------
(***************************************************************************)
(* What clients see, for any number of connections, keys, slabs, classes   *)
(* and items: the cache implements the abstract store.  Every operation on *)
(* the memory only takes items out of the hash, or puts one item there (or *)
(* changes one in place) under a fresh cas id.  And none of them disturbs  *)
(* the order of the lruqs, on which flush_all relies.                      *)
(***************************************************************************)

\* No value is longer than an item of some class can hold.
Fits(h) == \A x \in Item : h.hdr[x].nbyte \in Length \cup {0}

\* The item x that m has linked was linked in h, with the same contents.
Was(h, m, x) ==
    item_is_linked(m, x) => /\ item_is_linked(h, x)
                            /\ m.hdr[x].key = h.hdr[x].key
                            /\ m.hdr[x].nbyte = h.hdr[x].nbyte
                            /\ m.hdr[x].exptime = h.hdr[x].exptime
                            /\ m.hdr[x].cas = h.hdr[x].cas

\* From h to m nothing is stored: what is linked was so before.
Tame(h, m) ==
    /\ m.cas_id = h.cas_id
    /\ Fits(h) => Fits(m)
    /\ \A x \in Item : Was(h, m, x)

\* From h to m at most item w is linked anew, or rewritten, with the next
\* cas id.
Wrote(h, m, w) ==
    /\ m.cas_id = h.cas_id + 1
    /\ Fits(h) => Fits(m)
    /\ \A x \in Item : x # w => Was(h, m, x)
    /\ item_is_linked(m, w) => m.hdr[w].cas = m.cas_id

\* Steps in which nothing is stored compose.
LEMMA TameTrans ==
    ASSUME NEW h, NEW g, NEW m, Tame(h, g), Tame(g, m)
    PROVE  Tame(h, m)
  BY DEF Tame, Was

\* Doing nothing stores nothing.
LEMMA TameRefl ==
    ASSUME NEW h
    PROVE  Tame(h, h)
  BY DEF Tame, Was

\* Before a write nothing may be stored.
LEMMA TameWrote ==
    ASSUME NEW h, NEW g, NEW m, NEW w, Tame(h, g), Wrote(g, m, w)
    PROVE  Wrote(h, m, w)
  BY DEF Tame, Wrote, Was

\* Nor after one.
LEMMA WroteTame ==
    ASSUME NEW h, NEW g, NEW m, NEW w \in Item, Wrote(h, g, w), Tame(g, m)
    PROVE  Wrote(h, m, w)
  BY DEF Tame, Wrote, Was

\* The fields of the memory that matter here are the same.
Alike(h, m) == m.cas_id = h.cas_id /\ m.hdr = h.hdr /\ m.flags = h.flags

\* Other fields do not matter.
LEMMA AlikeTame ==
    ASSUME NEW h, NEW m, Alike(h, m)
    PROVE  Tame(h, m)
  BY DEF Alike, Tame, Was, Fits, item_is_linked

\* The contents of an item that is not linked do not matter.
LEMMA OneTame ==
    ASSUME NEW h, NEW it \in Item, NEW m, m.cas_id = h.cas_id,
           \A x \in Item : x # it => m.flags[x] = h.flags[x] /\ m.hdr[x] = h.hdr[x],
           ~item_is_linked(m, it), m.hdr[it].nbyte \in Length \cup {0, h.hdr[it].nbyte}
    PROVE  Tame(h, m)
<1>1. ASSUME NEW x \in Item
      PROVE  Was(h, m, x)
  BY DEF Was, item_is_linked
<1>2. Fits(h) => Fits(m)
  BY DEF Fits
<1> QED
  BY <1>1, <1>2 DEF Tame

-----------------------------------------------------------------------------
(***************************************************************************)
(* Slabs.                                                                  *)
(***************************************************************************)

\* An ASSERT of the code concerns no item.
LEMMA CheckTame ==
    ASSUME NEW h, h \in HeapType, NEW ok, NEW name
    PROVE  Tame(h, Check(h, ok, name)) /\ Alike(h, Check(h, ok, name))
<1>1. Alike(h, Check(h, ok, name))
  BY DEF Check, Alike, HeapType
<1> QED
  BY <1>1, AlikeTame

\* slab_put_item of an item that is not linked.
LEMMA PutTame ==
    ASSUME NEW h, h \in HeapType, NEW it \in Item, ~item_is_linked(h, it)
    PROVE  Tame(h, slab_put_item(h, it))
<1> DEFINE m == slab_put_item(h, it)
<1>1. m.cas_id = h.cas_id
  BY DEF slab_put_item, Check, HeapType
<1>2. m.hdr = [h.hdr EXCEPT ![it] = Blank]
  BY DEF slab_put_item, Check, HeapType
<1>3. m.flags = [h.flags EXCEPT ![it] = (h.flags[it] \cup {"SLABBED"}) \ {"RALIGN"}]
  BY DEF slab_put_item, Check, HeapType
<1>4. h.flags \in [Item -> SUBSET ItemFlag] /\ h.hdr \in [Item -> ItemHdr]
  BY DEF HeapType
<1>5. ~item_is_linked(m, it)
  BY <1>3, <1>4 DEF item_is_linked
<1>6. \A x \in Item : x # it => m.flags[x] = h.flags[x] /\ m.hdr[x] = h.hdr[x]
  BY <1>2, <1>3, <1>4
<1>7. m.hdr[it].nbyte = 0
  BY <1>2, <1>4 DEF Blank
<1> QED
  BY <1>1, <1>5, <1>6, <1>7, OneTame

\* An evicted slab has no linked items any more.
LEMMA EvictTame ==
    ASSUME NEW h, h \in HeapType, NEW s \in Slab
    PROVE  Tame(h, slab_evict_one(h, s))
<1> DEFINE m == slab_evict_one(h, s)
<1>1. m.cas_id = h.cas_id /\ m.hdr = h.hdr
  BY DEF slab_evict_one, Check, HeapType
<1>2. m.flags = [x \in Item |-> IF x \in slab_items(h, s) THEN h.flags[x] \ {"LINKED", "SLABBED"}
                               ELSE h.flags[x]]
  BY DEF slab_evict_one, Check, HeapType
<1>3. \A x \in Item : item_is_linked(m, x) => item_is_linked(h, x)
  BY <1>2 DEF item_is_linked
<1>4. \A x \in Item : Was(h, m, x)
  BY <1>1, <1>3 DEF Was
<1> QED
  BY <1>1, <1>4 DEF Tame, Fits

\* A slab becomes the current one of a class: its items are blank.
LEMMA AddTame ==
    ASSUME NEW h, h \in HeapType, NEW s \in Slab, NEW id \in Class
    PROVE  Tame(h, slab_add_one(h, s, id))
<1> DEFINE m == slab_add_one(h, s, id)
<1>1. m.cas_id = h.cas_id
  BY DEF slab_add_one, HeapType
<1>2. m.hdr = [x \in Item |-> IF item_2_slab(x) = s THEN Blank ELSE h.hdr[x]]
  BY DEF slab_add_one, HeapType
<1>3. m.flags = [x \in Item |-> IF item_2_slab(x) = s THEN {} ELSE h.flags[x]]
  BY DEF slab_add_one, HeapType
<1>4. \A x \in Item : Was(h, m, x)
  BY <1>2, <1>3 DEF Was, item_is_linked
<1>5. Fits(h) => Fits(m)
  BY <1>2 DEF Fits, Blank
<1> QED
  BY <1>1, <1>4, <1>5 DEF Tame
\* What slab_get may do: fail, or make a slab of the pool or an unreferenced
\* one, evicted, the current slab of the class.
LEMMA SlabGetCases ==
    ASSUME NEW h, HeapOK(h), NEW id \in Class, NEW f \in BOOLEAN, NEW e \in Env(h, f)
    PROVE  LET m == slab_get(h, id, e)
               h0 == Check(h, h.free_item[id] = NoItem /\ h.free_itemq[id] = << >>, "slab_get")
               s == h.nslab + 1
           IN  \/ \E ok : m = Check(h0, ok, "slab_table_rand")
               \/ /\ h.nslab < max_nslab
                  /\ m = slab_add_one([h0 EXCEPT !.nslab = s, !.utime[s] = e.junk], s, id)
               \/ \E t \in 1..h.nslab : /\ h.slab_refcount[t] = 0
                                        /\ m = slab_add_one(slab_evict_one(h0, t), t, id)
<1> DEFINE h0 == Check(h, h.free_item[id] = NoItem /\ h.free_itemq[id] = << >>, "slab_get")
           m == slab_get(h, id, e)
           L == LruSlabs(h)
           lru == evict_opt \cap {"CS", "AS"} # {} /\ L # {}
<1>1. CASE h.nslab < max_nslab /\ e.malloc
  BY <1>1 DEF slab_get
<1>2. CASE ~(h.nslab < max_nslab /\ e.malloc) /\ lru
  <2> DEFINE s == FirstAt(h.slab_lruq, L)
  <2>1. h.slab_lruq \in Seq(1..h.nslab)
    BY DEF HeapOK
  <2>2. L # {} /\ L \subseteq DOMAIN h.slab_lruq
    BY <1>2 DEF LruSlabs
  <2>3. PICK i \in L : s = h.slab_lruq[i] /\ h.slab_lruq[i] \in 1..h.nslab
    BY <2>1, <2>2, FirstAtProperties
  <2>4. h.slab_refcount[h.slab_lruq[i]] = 0
    BY <2>3 DEF LruSlabs
  <2>5. m = slab_add_one(slab_evict_one(h0, s), s, id)
    BY <1>2 DEF slab_get
  <2> HIDE DEF s, m, h0
  <2>6. s \in 1..h.nslab /\ h.slab_refcount[s] = 0
    BY <2>3, <2>4
  <2> QED
    BY <2>5, <2>6 DEF m, h0
<1>3. CASE ~(h.nslab < max_nslab /\ e.malloc) /\ ~lru /\ "RS" \in evict_opt /\ RandSlabs(h, e) # {}
  <2>1. e.rand \in 1..h.nslab /\ h.slab_refcount[e.rand] = 0
    BY <1>3 DEF RandSlabs, Env
  <2>2. m = slab_add_one(slab_evict_one(h0, e.rand), e.rand, id)
    BY <1>3 DEF slab_get
  <2> HIDE DEF m, h0
  <2> QED
    BY <2>1, <2>2 DEF m, h0
<1>4. CASE /\ ~(h.nslab < max_nslab /\ e.malloc) /\ ~lru
           /\ ~("RS" \in evict_opt /\ RandSlabs(h, e) # {})
  <2> DEFINE ok == ~("RS" \in evict_opt) \/ e.rand # 0
  <2>1. m = Check(h0, ok, "slab_table_rand")
    BY <1>4 DEF slab_get
  <2> HIDE DEF m, h0, ok
  <2> QED
    BY <2>1 DEF m, h0
<1> QED
  BY <1>1, <1>2, <1>3, <1>4

\* slab_get stores nothing, but may evict.
LEMMA SlabGetTame ==
    ASSUME NEW h, HeapOK(h), NEW id \in Class, NEW f \in BOOLEAN, NEW e \in Env(h, f)
    PROVE  Tame(h, slab_get(h, id, e))
<1> DEFINE ok == h.free_item[id] = NoItem /\ h.free_itemq[id] = << >>
           h0 == Check(h, ok, "slab_get")
           m == slab_get(h, id, e)
<1>1. \/ \E p : m = Check(h0, p, "slab_table_rand")
      \/ /\ h.nslab < max_nslab
         /\ m = slab_add_one([h0 EXCEPT !.nslab = h.nslab + 1, !.utime[h.nslab + 1] = e.junk],
                             h.nslab + 1, id)
      \/ \E t \in 1..h.nslab : m = slab_add_one(slab_evict_one(h0, t), t, id)
  BY SlabGetCases
<1> HIDE DEF ok, m
<1>2. HeapOK(h0) /\ h0.nslab = h.nslab /\ Tame(h, h0)
  BY CheckQuiet, CheckTame DEF AssertName, Quiet, HeapOK
<1> HIDE DEF h0
<1>3. CASE \E p : m = Check(h0, p, "slab_table_rand")
  <2>1. PICK p : m = Check(h0, p, "slab_table_rand")
    BY <1>3
  <2>2. Tame(h0, m)
    BY <1>2, <2>1, CheckTame DEF HeapOK
  <2> QED
    BY <1>2, <2>2, TameTrans DEF m
<1>4. CASE /\ h.nslab < max_nslab
           /\ m = slab_add_one([h0 EXCEPT !.nslab = h.nslab + 1, !.utime[h.nslab + 1] = e.junk],
                               h.nslab + 1, id)
  <2> DEFINE s == h.nslab + 1
             g == [h0 EXCEPT !.nslab = s, !.utime[s] = e.junk]
  <2>0. e.junk \in Nat
    BY SlabAssumption DEF Env
  <2>1. e.junk \in Nat /\ h.nslab \in Nat /\ max_nslab \in Nat
    BY <2>0, SlabAssumption DEF HeapOK, HeapType
  <2>2. s \in Slab
    BY <1>4, <2>1 DEF Slab
  <2>3. g \in HeapType /\ Alike(h0, g)
    <3>1. h0 \in HeapType /\ s \in 0..max_nslab
      BY <1>2, <2>2, SlabAssumption DEF HeapOK, Slab
    <3>2. [h0.utime EXCEPT ![s] = e.junk] \in [Slab -> Nat]
      BY <2>1, <3>1 DEF HeapType
    <3> HIDE DEF s
    <3> QED
      BY <3>1, <3>2 DEF HeapType, Alike
  <2>4. Tame(h0, g)
    BY <2>3, AlikeTame
  <2> HIDE DEF g, s
  <2>5. Tame(g, slab_add_one(g, s, id))
    BY <2>2, <2>3, AddTame
  <2>6. m = slab_add_one(g, s, id)
    BY <1>4 DEF g, s
  <2> QED
    BY <1>2, <2>4, <2>5, <2>6, TameTrans DEF m
<1>5. CASE \E t \in 1..h.nslab : m = slab_add_one(slab_evict_one(h0, t), t, id)
  <2>1. PICK t \in 1..h.nslab : m = slab_add_one(slab_evict_one(h0, t), t, id)
    BY <1>5
  <2>2. t \in Slab
    BY LiveItems
  <2> DEFINE g == slab_evict_one(h0, t)
  <2>3. g \in HeapType
    BY <1>2, EvictQuiet DEF Quiet, HeapOK
  <2>4. Tame(h0, g)
    BY <1>2, <2>2, EvictTame DEF HeapOK
  <2> HIDE DEF g
  <2>5. Tame(g, slab_add_one(g, t, id))
    BY <2>2, <2>3, AddTame
  <2> QED
    BY <1>2, <2>1, <2>4, <2>5, TameTrans DEF g, m
<1> QED
  BY <1>1, <1>3, <1>4, <1>5

\* slab_get_item only hands out what is not linked, and stores nothing.
LEMMA SlabItemTame ==
    ASSUME NEW h, HeapOK(h), NEW id \in Class, NEW f \in BOOLEAN, NEW e \in Env(h, f)
    PROVE  Tame(h, slab_get_item(h, id, e).mem)
<1> DEFINE r == slab_get_item(h, id, e)
<1>1. CASE use_freeq /\ h.free_itemq[id] # << >>
  <2> DEFINE it == Head(h.free_itemq[id])
             ok == item_is_slabbed(h, it) /\ ~item_is_linked(h, it)
             g  == Check(h, ok, "slab_get_item_from_freeq")
             m  == [g EXCEPT !.flags[it] = @ \ {"SLABBED"},
                             !.free_itemq[id] = Tail(@)]
  <2>1. r.mem = m
    BY <1>1 DEF slab_get_item, slab_get_item_from_freeq
  <2> HIDE DEF ok
  <2>2. Tame(h, g) /\ g \in HeapType
    BY CheckTame, CheckQuiet DEF Quiet, HeapOK, AssertName
  <2>3. it \in Item
    <3>1. h.free_itemq[id] \in Seq(Live(h))
      BY DEF HeapOK
    <3>2. it \in Live(h)
      BY <1>1, <3>1, HeadTailProperties
    <3> QED
      BY <3>2, LiveItems
  <2> HIDE DEF g, it
  <2>4. /\ m.cas_id = g.cas_id /\ m.hdr = g.hdr
        /\ m.flags = [g.flags EXCEPT ![it] = g.flags[it] \ {"SLABBED"}]
    BY <2>2 DEF HeapType
  <2> HIDE DEF m
  <2>5. /\ \A x \in Item : x # it => m.flags[x] = g.flags[x]
        /\ item_is_linked(m, it) => item_is_linked(g, it)
    BY <2>2, <2>3, <2>4 DEF HeapType, item_is_linked
  <2>6. Tame(g, m)
    BY <2>3, <2>4, <2>5 DEF Tame, Was, Fits, item_is_linked
  <2> QED
    BY <2>1, <2>2, <2>6, TameTrans
<1>2. CASE ~(use_freeq /\ h.free_itemq[id] # << >>)
  <2> DEFINE g  == IF h.free_item[id] = NoItem THEN slab_get(h, id, e) ELSE h
             it == g.free_item[id]
             nx == IF it[2] < nitem[id] THEN <<it[1], it[2] + 1>> ELSE NoItem
             m  == IF it = NoItem THEN g ELSE [g EXCEPT !.free_item[id] = nx]
  <2>1. r.mem = m
    BY <1>2 DEF slab_get_item, slab_next_item
  <2>2. Tame(h, g)
    BY SlabGetTame, TameRefl
  <2>3. Alike(g, m)
    BY DEF Alike
  <2> HIDE DEF g, m
  <2> QED
    BY <2>1, <2>2, <2>3, AlikeTame, TameTrans
<1> QED
  BY <1>1, <1>2

-----------------------------------------------------------------------------
(***************************************************************************)
(* Items.                                                                  *)
(***************************************************************************)

\* Taking an item out of hash and lruq.
LEMMA DropTame ==
    ASSUME NEW h, HeapOK(h), NEW it \in Item
    PROVE  /\ Tame(h, DropLink(h, it)) /\ HeapOK(DropLink(h, it))
           /\ ~item_is_linked(DropLink(h, it), it)
<1> DEFINE m == DropLink(h, it)
<1>1. HeapOK(m) /\ m.hdr = h.hdr
      /\ m.flags = [h.flags EXCEPT ![it] = h.flags[it] \ {"LINKED"}]
  BY DropFields DEF Unlinked
<1>2. m.cas_id = h.cas_id
  BY DEF DropLink, item_unlink_q, assoc_delete, Check, HeapOK, HeapType
<1>3. h.flags \in [Item -> SUBSET ItemFlag]
  BY DEF HeapOK, HeapType
<1> HIDE DEF m
<1>4. ~item_is_linked(m, it) /\ \A x \in Item : x # it => m.flags[x] = h.flags[x]
  BY <1>1, <1>3 DEF item_is_linked
<1>5. Tame(h, m)
  BY <1>1, <1>2, <1>4, OneTame
<1> QED
  BY <1>1, <1>4, <1>5 DEF m

\* item_reuse does that, after an assertion.
LEMMA ReuseTame ==
    ASSUME NEW h, HeapOK(h), NEW it \in Item
    PROVE  Tame(h, item_reuse(h, it))
<1> DEFINE ok == ~item_is_slabbed(h, it) /\ item_is_linked(h, it) /\ h.refcount[it] = 0
           g == Check(h, ok, "item_reuse")
<1>1. Tame(h, g) /\ Alike(h, g)
  BY CheckTame DEF HeapOK
<1>2. HeapOK(g)
  <2> HIDE DEF ok
  <2> QED
    BY CheckQuiet DEF AssertName, Quiet
<1>3. item_reuse(h, it) = DropLink(g, it)
  BY <1>1 DEF item_reuse, DropLink, Alike
<1> HIDE DEF g, ok
<1> QED
  BY <1>1, <1>2, <1>3, DropTame, TameTrans

\* Obtaining an item stores nothing.
LEMMA ObtainTame ==
    ASSUME NEW h, HeapOK(h), CountsOK(h), NEW id \in Class,
           NEW f \in BOOLEAN, NEW e \in Env(h, f)
    PROVE  Tame(h, item_obtain(h, id, e).mem)
<1> DEFINE lit == item_get_from_lruq(h, id)
           sg  == slab_get_item(h, id, e)
           r   == item_obtain(h, id, e)
<1>1. lit \in Item \cup {NoItem}
  BY LruqItem, LiveItems
<1>2. Quiet(h, sg.mem) /\ Tame(h, sg.mem)
  BY GetItemQuiet, SlabItemTame
<1>3. \/ r.mem = sg.mem
      \/ lit # NoItem /\ r.mem = item_reuse(h, lit)
      \/ lit # NoItem /\ r.mem = item_reuse(sg.mem, lit)
  BY DEF item_obtain, item_choose
<1> HIDE DEF lit, sg, r
<1>4. lit # NoItem => Tame(h, item_reuse(h, lit)) /\ Tame(sg.mem, item_reuse(sg.mem, lit))
  BY <1>1, <1>2, ReuseTame DEF Quiet
<1>5. Tame(h, r.mem)
  BY <1>2, <1>3, <1>4, TameTrans
<1> QED
  BY <1>5 DEF r

\* Counting a reference stores nothing.
LEMMA AcquireTame ==
    ASSUME NEW h, h \in HeapType, NEW it
    PROVE  Tame(h, item_acquire_refcount(h, it)) /\ Alike(h, item_acquire_refcount(h, it))
<1>1. Alike(h, item_acquire_refcount(h, it))
  BY DEF item_acquire_refcount, slab_acquire_refcount, Alike, HeapType
<1> QED
  BY <1>1, AlikeTame

\* A length that has a class fits.
LEMMA LengthFits ==
    ASSUME NEW n \in Nat, item_slabid(n) # 0
    PROVE  n \in Length
<1>1. {id \in Class : n <= capacity[id]} # {}
  BY DEF item_slabid
<1>2. PICK id \in Class : n <= capacity[id]
  BY <1>1
<1>3. n \in 0..capacity[id]
  BY <1>2, SlabAssumption DEF Class
<1> QED
  BY <1>3 DEF Length

\* item_alloc stores nothing: the item it returns is not linked.
LEMMA AllocTame ==
    ASSUME NEW h, HeapOK(h), CountsOK(h), NEW id \in Class,
           NEW key, NEW exptime, NEW nbyte \in Length,
           NEW f \in BOOLEAN, NEW e \in Env(h, f)
    PROVE  Tame(h, item_alloc(h, id, key, exptime, nbyte, e).mem)
<1> DEFINE got == item_obtain(h, id, e)
           it  == got.it
           ok  == /\ item_id(got.mem, it) = id
                  /\ ~item_is_linked(got.mem, it)
                  /\ ~item_is_slabbed(got.mem, it)
                  /\ got.mem.refcount[it] = 0
           h1  == Check(got.mem, ok, "item_alloc")
           h2  == item_acquire_refcount(h1, it)
           x   == [key |-> key, nbyte |-> nbyte, exptime |-> exptime,
                   atime |-> 0, cas |-> 0]
           m   == [h2 EXCEPT !.flags[it] = {}, !.hdr[it] = x]
           r   == item_alloc(h, id, key, exptime, nbyte, e)
<1>1. Quiet(h, got.mem) /\ it \in Live(got.mem) \cup {NoItem} /\ Tame(h, got.mem)
  BY ObtainQuiet, ObtainTame
<1>2. CASE it = NoItem
  <2>1. r = got
    BY <1>2 DEF item_alloc, item_init
  <2> QED
    BY <1>1, <2>1
<1>3. CASE it # NoItem
  <2>1. r.mem = m
    BY <1>3 DEF item_alloc, item_init
  <2> HIDE DEF ok, got, it
  <2>2. HeapOK(got.mem) /\ it \in Item
    BY <1>1, <1>3, LiveItems DEF Quiet
  <2>3. HeapOK(h1) /\ Tame(got.mem, h1)
    BY <2>2, CheckTame, CheckQuiet DEF AssertName, Quiet, HeapOK
  <2> HIDE DEF h1
  <2>4. Alike(h1, h2) /\ Tame(h1, h2)
    BY <2>3, AcquireTame DEF HeapOK
  <2>5. /\ m.cas_id = h2.cas_id
        /\ m.flags = [h2.flags EXCEPT ![it] = {}]
        /\ m.hdr = [h2.hdr EXCEPT ![it] = x]
    BY <2>3 DEF HeapOK, HeapType, item_acquire_refcount, slab_acquire_refcount
  <2>6. h2.flags \in [Item -> SUBSET ItemFlag] /\ h2.hdr \in [Item -> ItemHdr]
    BY <2>3, <2>4 DEF Alike, HeapOK, HeapType
  <2>7. x.nbyte = nbyte
    OBVIOUS
  <2> HIDE DEF h2, m, x, r
  <2>8. ~item_is_linked(m, it) /\ m.hdr[it].nbyte \in Length
    BY <2>2, <2>5, <2>6, <2>7 DEF item_is_linked
  <2>9. \A y \in Item : y # it => m.flags[y] = h2.flags[y] /\ m.hdr[y] = h2.hdr[y]
    BY <2>5, <2>6
  <2>10. Tame(h2, m)
    BY <2>2, <2>5, <2>8, <2>9, OneTame
  <2>11. Tame(h, m)
    BY <1>1, <2>3, <2>4, <2>10, TameTrans
  <2> QED
    BY <2>1, <2>11 DEF r
<1> QED
  BY <1>2, <1>3

\* item_unlink takes an item out, and may free it.
LEMMA UnlinkTame ==
    ASSUME NEW h, HeapOK(h), NEW it \in Item
    PROVE  Tame(h, item_unlink(h, it))
<1> DEFINE g == DropLink(h, it)
           m == item_unlink(h, it)
<1>1. m = h \/ m = g \/ m = slab_put_item(g, it)
  BY DEF item_unlink, DropLink
<1>2. Tame(h, g) /\ HeapOK(g) /\ ~item_is_linked(g, it)
  BY DropTame
<1> HIDE DEF g, m
<1>3. Tame(g, slab_put_item(g, it))
  BY <1>2, PutTame DEF HeapOK
<1>4. Tame(h, m)
  BY <1>1, <1>2, <1>3, TameTrans, TameRefl
<1> QED
  BY <1>4 DEF m

\* item_remove only frees what is not linked.
LEMMA RemoveTame ==
    ASSUME NEW h, HeapOK(h), NEW it \in Item
    PROVE  Tame(h, item_remove(h, it))
<1> DEFINE ok == ~item_is_slabbed(h, it)
           h0 == Check(h, ok, "item_remove")
           h1 == IF h.refcount[it] # 0 THEN item_release_refcount(h0, it) ELSE h0
           m == item_remove(h, it)
<1>1. m = h1 \/ (~item_is_linked(h1, it) /\ m = slab_put_item(h1, it))
  BY DEF item_remove
<1>2. Alike(h, h0) /\ h0 \in HeapType /\ HeapOK(h0)
  <2> HIDE DEF ok
  <2> QED
    BY CheckTame, CheckQuiet DEF AssertName, Quiet, HeapOK
<1>3. Alike(h0, h1) /\ h1 \in HeapType
  <2>1. CASE h.refcount[it] = 0
    BY <1>2, <2>1 DEF Alike
  <2>2. CASE h.refcount[it] # 0
    <3> DEFINE n == h0.refcount[it]
               s == it[1]
               g == [Check(h0, n > 0, "item_release_refcount") EXCEPT !.refcount[it] = @ - 1]
    <3>1. h1 = [Check(g, g.slab_refcount[s] > 0, "slab_release_refcount")
                   EXCEPT !.slab_refcount[s] = IF @ = 0 THEN RefMod - 1 ELSE @ - 1]
      BY <2>2 DEF item_release_refcount, slab_release_refcount, item_2_slab
    <3>2. h0.refcount = h.refcount
      BY DEF Check, HeapOK, HeapType
    <3>3. n \in Nat \ {0}
      BY <2>2, <3>2 DEF HeapOK, HeapType
    <3>4. g \in HeapType /\ Alike(h0, g)
      <4>1. [h0.refcount EXCEPT ![it] = n - 1] \in [Item -> Nat]
        BY <1>2, <3>3 DEF HeapType
      <4> HIDE DEF h0, n
      <4>2. g = [h0 EXCEPT !.refcount = [h0.refcount EXCEPT ![it] = n - 1]]
        <5> DEFINE p == n > 0
        <5>1. p
          BY <3>3
        <5>2. g = [Check(h0, p, "item_release_refcount") EXCEPT !.refcount[it] = n - 1]
          BY <1>2 DEF Check, HeapType, n
        <5> HIDE DEF p, g
        <5>3. Check(h0, p, "item_release_refcount") = h0
          BY <1>2, <5>1, CheckSame DEF AssertName
        <5> QED
          BY <5>2, <5>3
      <4> HIDE DEF g
      <4> QED
        BY <1>2, <4>1, <4>2 DEF HeapType, Alike
    <3> DEFINE k == g.slab_refcount[s]
               k1 == IF k = 0 THEN RefMod - 1 ELSE k - 1
               F == IF k > 0 THEN g.failed ELSE g.failed \cup {"slab_release_refcount"}
    <3> HIDE DEF g, h0, n
    <3>5. s \in Slab /\ k1 \in Nat
      BY <3>4, SlabAssumption DEF Item, HeapType
    <3>6. [g.slab_refcount EXCEPT ![s] = k1] \in [Slab -> Nat] /\ F \subseteq AssertName
      BY <3>4, <3>5 DEF HeapType, AssertName
    <3>7. h1 = [g EXCEPT !.failed = F, !.slab_refcount = [g.slab_refcount EXCEPT ![s] = k1]]
      BY <3>1, <3>4 DEF HeapType, Check
    <3> HIDE DEF k1, F, h1
    <3> QED
      BY <3>4, <3>6, <3>7 DEF HeapType, Alike
  <2> QED
    BY <2>1, <2>2
<1> HIDE DEF h0, h1, m
<1>4. Tame(h, h1)
  BY <1>2, <1>3, AlikeTame DEF Alike
<1>5. ~item_is_linked(h1, it) => Tame(h1, slab_put_item(h1, it))
  BY <1>3, PutTame
<1>6. Tame(h, m)
  BY <1>1, <1>4, <1>5, TameTrans
<1> QED
  BY <1>6 DEF m

\* item_link_q only stamps an item, as far as it matters here.
LEMMA LinkQTame ==
    ASSUME NEW h, HeapOK(h), NEW it \in Item, NEW a \in BOOLEAN
    PROVE  LET m == item_link_q(h, it, a)
           IN  /\ Tame(h, m) /\ m.cas_id = h.cas_id /\ m.flags = h.flags
               /\ m.hdr = [h.hdr EXCEPT ![it].atime = now]
<1> DEFINE ok == ~item_is_slabbed(h, it)
           g == Check(h, ok, "item_link_q")
           k == [g EXCEPT !.hdr[it].atime = now,
                          !.item_lruq[item_id(h, it)] = Append(@, it)]
           m == item_link_q(h, it, a)
<1>1. m = slab_lruq_touch(k, item_2_slab(it), a)
  BY DEF item_link_q
<1>2. k.cas_id = h.cas_id /\ k.flags = h.flags /\ k.hdr = [h.hdr EXCEPT ![it].atime = now]
  BY DEF Check, HeapOK, HeapType
<1>3. Alike(k, m)
  BY <1>1 DEF slab_lruq_touch, Alike, Check, HeapOK, HeapType
<1> HIDE DEF k, g, ok, m
<1>4. m.cas_id = h.cas_id /\ m.flags = h.flags /\ m.hdr = [h.hdr EXCEPT ![it].atime = now]
  BY <1>2, <1>3 DEF Alike
<1>5. h.hdr \in [Item -> ItemHdr]
  BY DEF HeapOK, HeapType
<1>6. \A x \in Item : /\ m.hdr[x].key = h.hdr[x].key /\ m.hdr[x].nbyte = h.hdr[x].nbyte
                      /\ m.hdr[x].exptime = h.hdr[x].exptime /\ m.hdr[x].cas = h.hdr[x].cas
  BY <1>4, <1>5 DEF ItemHdr
<1>7. Tame(h, m)
  BY <1>4, <1>6 DEF Tame, Was, Fits, item_is_linked
<1> QED
  BY <1>4, <1>7 DEF m

\* item_unlink_q concerns neither contents nor flags.
LEMMA UnlinkQTame ==
    ASSUME NEW h, h \in HeapType, NEW it
    PROVE  Alike(h, item_unlink_q(h, it))
  BY DEF item_unlink_q, Alike, HeapType

\* item_touch stores nothing.
LEMMA TouchTame ==
    ASSUME NEW h, HeapOK(h), NEW it \in Item
    PROVE  Tame(h, item_touch(h, it))
<1> DEFINE ok == ~item_is_slabbed(h, it)
           g == Check(h, ok, "item_touch")
           k == item_unlink_q(g, it)
           l == item_link_q(k, it, FALSE)
           m == item_touch(h, it)
<1>1. m = g \/ m = l
  BY DEF item_touch
<1> HIDE DEF ok
<1>2. HeapOK(g) /\ Tame(h, g)
  BY CheckTame, CheckQuiet DEF AssertName, Quiet, HeapOK
<1> HIDE DEF g, m
<1>3. HeapOK(k) /\ Tame(g, k)
  BY <1>2, UnlinkQQuiet, UnlinkQTame, AlikeTame DEF Quiet, HeapOK
<1> HIDE DEF k
<1>4. Tame(k, l)
  BY <1>3, LinkQTame
<1> HIDE DEF l
<1>5. Tame(h, m)
  BY <1>1, <1>2, <1>3, <1>4, TameTrans
<1> QED
  BY <1>5 DEF m

\* item_get stores nothing: it refers to an item, or unlinks a dead one.
LEMMA GetTame ==
    ASSUME NEW h, HeapOK(h), NEW k \in MaybeKey
    PROVE  Tame(h, item_get(h, k).mem)
<1> DEFINE it == h.hash[k]
<1>1. it \in Live(h) \cup {NoItem}
  BY DEF HeapOK
<1>2. CASE it = NoItem
  BY <1>2, TameRefl DEF item_get
<1>3. CASE it # NoItem
  <2>1. it \in Item
    BY <1>1, <1>3, LiveItems
  <2>2. item_get(h, k).mem = item_unlink(h, it) \/ item_get(h, k).mem = item_acquire_refcount(h, it)
    BY <1>3 DEF item_get
  <2> QED
    BY <2>1, <2>2, UnlinkTame, AcquireTame DEF HeapOK
<1> QED
  BY <1>2, <1>3

\* What item_next_cas does: a new id, for the item and for the server.
LEMMA NextCasWrote ==
    ASSUME UseCas, NEW h, h \in HeapType, NEW it \in Item
    PROVE  LET m == item_next_cas(h, it)
           IN  /\ m.cas_id = h.cas_id + 1 /\ m.flags = h.flags
               /\ m.hdr = [h.hdr EXCEPT ![it].cas = h.cas_id + 1]
  BY DEF item_next_cas, HeapType

\* item_link puts one item into the hash, with a fresh cas id.
LEMMA LinkWrote ==
    ASSUME UseCas, NEW h, HeapOK(h), NEW it \in Live(h)
    PROVE  Wrote(h, item_link(h, it), it)
<1> DEFINE ok == ~item_is_linked(h, it) /\ ~item_is_slabbed(h, it)
           g == Check(h, ok, "item_link")
           h1 == [g EXCEPT !.flags[it] = @ \cup {"LINKED"}]
           h2 == item_next_cas(h1, it)
           h3 == assoc_insert(h2, it)
           m == item_link_q(h3, it, TRUE)
<1>1. item_link(h, it) = m
  BY DEF item_link
<1>2. it \in Item
  BY LiveItems
<1>3. HeapOK(g) /\ Alike(h, g) /\ g.nslab = h.nslab
  <2> HIDE DEF ok
  <2> QED
    BY CheckTame, CheckQuiet DEF AssertName, Quiet, HeapOK
<1> HIDE DEF g
<1> DEFINE fl == g.flags[it] \cup {"LINKED"}
<1>4. fl \in SUBSET ItemFlag
  BY <1>2, <1>3 DEF HeapOK, HeapType, ItemFlag
<1>5. h1 = [g EXCEPT !.flags[it] = fl]
  BY <1>2, <1>3 DEF HeapOK, HeapType
<1>6. Quiet(g, h1)
  <2> HIDE DEF fl, h1
  <2> QED
    BY <1>2, <1>3, <1>4, <1>5, FlagsQuiet
<1>7. HeapOK(h1) /\ it \in Live(h1)
  BY <1>3, <1>6 DEF Quiet, Live, HeapOK, HeapType
<1>8. h1.cas_id = h.cas_id /\ h1.hdr = h.hdr
      /\ \A x \in Item : x # it => h1.flags[x] = h.flags[x]
  BY <1>2, <1>3 DEF Alike, HeapOK, HeapType
<1> HIDE DEF h1
<1>9. /\ h2.cas_id = h1.cas_id + 1 /\ h2.flags = h1.flags
      /\ h2.hdr = [h1.hdr EXCEPT ![it].cas = h1.cas_id + 1]
  BY <1>2, <1>7, NextCasWrote DEF HeapOK
<1>10. HeapOK(h2) /\ it \in Live(h2)
  BY <1>2, <1>7, NextCasQuiet, QuietLive
<1> HIDE DEF h2
<1>11. HeapOK(h3)
  BY <1>10, InsertQuiet DEF Quiet
<1>12. Alike(h2, h3)
  BY <1>10 DEF assoc_insert, Check, Alike, HeapOK, HeapType
<1> HIDE DEF h3
<1>13. /\ m.cas_id = h3.cas_id /\ m.flags = h3.flags
       /\ m.hdr = [h3.hdr EXCEPT ![it].atime = now]
  BY <1>2, <1>11, LinkQTame
<1> HIDE DEF m
<1>14. h.hdr \in [Item -> ItemHdr]
  BY DEF HeapOK, HeapType
<1>15. h3.hdr = [h.hdr EXCEPT ![it].cas = h.cas_id + 1]
  BY <1>8, <1>9, <1>12 DEF Alike
<1>16. /\ \A x \in Item : m.hdr[x].nbyte = h.hdr[x].nbyte
       /\ \A x \in Item : x # it => m.hdr[x] = h.hdr[x]
       /\ m.hdr[it].cas = h.cas_id + 1
  BY <1>2, <1>13, <1>14, <1>15 DEF ItemHdr
<1>17. m.cas_id = h.cas_id + 1 /\ \A x \in Item : x # it => m.flags[x] = h.flags[x]
  BY <1>8, <1>9, <1>12, <1>13 DEF Alike
<1>18. Wrote(h, m, it)
  BY <1>16, <1>17 DEF Wrote, Was, Fits, item_is_linked
<1> QED
  BY <1>1, <1>18

\* item_rewrite changes one item, and gives it a fresh cas id.
LEMMA RewriteWrote ==
    ASSUME UseCas, NEW h, HeapOK(h), NEW it \in Item, NEW n \in Length
    PROVE  Wrote(h, item_rewrite(h, it, n), it)
<1> DEFINE g == [h EXCEPT !.hdr[it].nbyte = n]
           m == item_rewrite(h, it, n)
<1>1. h.hdr \in [Item -> ItemHdr]
  BY DEF HeapOK, HeapType
<1>2. g.cas_id = h.cas_id /\ g.flags = h.flags /\ g.hdr = [h.hdr EXCEPT ![it].nbyte = n]
  BY DEF HeapOK, HeapType
<1>3. /\ m.cas_id = g.cas_id + 1 /\ m.flags = g.flags
      /\ m.hdr = [g.hdr EXCEPT ![it].cas = g.cas_id + 1]
  BY DEF item_rewrite, item_next_cas, HeapOK, HeapType
<1> HIDE DEF g, m
<1>4. /\ \A x \in Item : x # it => m.hdr[x] = h.hdr[x] /\ m.flags[x] = h.flags[x]
      /\ m.hdr[it].cas = h.cas_id + 1 /\ m.hdr[it].nbyte = n
  BY <1>1, <1>2, <1>3 DEF ItemHdr
<1>5. m.cas_id = h.cas_id + 1
  BY <1>2, <1>3
<1>6. Fits(h) => Fits(m)
  BY <1>4 DEF Fits
<1>7. Wrote(h, m, it)
  BY <1>4, <1>5, <1>6 DEF Wrote, Was, item_is_linked
<1> QED
  BY <1>7 DEF m

\* item_relink takes one item out and puts one in.
LEMMA RelinkWrote ==
    ASSUME UseCas, NEW h, HeapOK(h), NEW it \in Live(h), NEW nit \in Live(h)
    PROVE  Wrote(h, item_relink(h, it, nit), nit)
<1> DEFINE ok == ~item_is_slabbed(h, it) /\ ~item_is_slabbed(h, nit)
           g == Check(h, ok, "item_relink")
           k == item_unlink(g, it)
<1>1. item_relink(h, it, nit) = item_link(k, nit)
  BY DEF item_relink
<1> HIDE DEF ok
<1>2. Quiet(h, g) /\ Tame(h, g)
  BY CheckTame, CheckQuiet DEF AssertName, Quiet, HeapOK
<1>3. HeapOK(g) /\ it \in Live(g) /\ nit \in Live(g) /\ it \in Item
  BY <1>2, QuietLive, LiveItems
<1> HIDE DEF g
<1>4. Tame(g, k) /\ HeapOK(k) /\ nit \in Live(k)
  BY <1>3, UnlinkTame, UnlinkQuiet, QuietLive
<1> HIDE DEF k
<1>5. Wrote(k, item_link(k, nit), nit)
  BY <1>4, LinkWrote
<1>6. Tame(h, k)
  BY <1>2, <1>4, TameTrans
<1> QED
  BY <1>1, <1>5, <1>6, TameWrote

-----------------------------------------------------------------------------
(***************************************************************************)
(* The operations of the protocol write at most one item.                  *)
(***************************************************************************)

Lawful(h, m) == Tame(h, m) \/ \E w \in Item : Wrote(h, m, w)

\* Before and after an operation nothing may be stored.
LEMMA LawfulTrans ==
    ASSUME NEW h, NEW g, NEW m, (Tame(h, g) /\ Lawful(g, m)) \/ (Lawful(h, g) /\ Tame(g, m))
    PROVE  Lawful(h, m)
  BY TameTrans, TameWrote, WroteTame DEF Lawful

\* A found item is replaced by another and released.
LEMMA SupplantLawful ==
    ASSUME UseCas, now \in Nat, NEW g, HeapOK(g.mem), g.it \in Live(g.mem), NEW it \in Live(g.mem)
    PROVE  Lawful(g.mem, item_supplant(g, it))
<1> DEFINE m == item_relink(g.mem, g.it, it)
<1>1. HeapOK(m) /\ Wrote(g.mem, m, it) /\ it \in Item /\ g.it \in Item
  BY RelinkQuiet, RelinkWrote, LiveItems DEF Quiet
<1> HIDE DEF m
<1>2. Tame(m, item_remove(m, g.it))
  BY <1>1, RemoveTame
<1>3. Wrote(g.mem, item_remove(m, g.it), it)
  BY <1>1, <1>2, WroteTame
<1> QED
  BY <1>1, <1>3 DEF Lawful, item_supplant, m

\* set, add, replace and cas.
LEMMA StoreLawful ==
    ASSUME UseCas, NEW h, Ready(h), NEW it \in Live(h)
    PROVE  /\ Lawful(h, item_set(h, it))
           /\ Lawful(h, item_cas(h, it))
           /\ Lawful(h, item_add(h, it))
           /\ Lawful(h, item_replace(h, it))
<1> DEFINE k == h.hdr[it].key
           g == item_get(h, k)
<1>1. k \in MaybeKey /\ it \in Item /\ HeapOK(h) /\ now \in Nat
  <2>1. it \in Item /\ HeapOK(h)
    BY LiveNotNoItem DEF Ready
  <2> QED
    BY <2>1, HdrFields, 0 \in Nat DEF Ready
<1>2. /\ item_set(h, it) = IF g.it = NoItem THEN item_link(g.mem, it) ELSE item_supplant(g, it)
      /\ item_cas(h, it) \in IF g.it = NoItem THEN {g.mem}
                              ELSE {item_remove(g.mem, g.it), item_supplant(g, it)}
      /\ item_add(h, it) = IF g.it = NoItem THEN item_link(g.mem, it)
                           ELSE item_remove(g.mem, g.it)
      /\ item_replace(h, it) = IF g.it = NoItem THEN g.mem ELSE item_supplant(g, it)
  BY DEF item_set, item_cas, item_add, item_replace
<1> HIDE DEF k
<1>3. Tame(h, g.mem)
  BY <1>1, GetTame
<1>4. \/ g.it = NoItem /\ Quiet(h, g.mem)
      \/ /\ g.it # NoItem /\ HeapOK(g.mem) /\ g.it \in Live(g.mem)
         /\ Live(h) \subseteq Live(g.mem)
  BY <1>1, Lookup
<1> HIDE DEF g
<1>5. HeapOK(g.mem) /\ it \in Live(g.mem)
  BY <1>1, <1>4, QuietLive
<1>6. Lawful(h, g.mem)
  BY <1>3 DEF Lawful
<1>7. Lawful(h, item_link(g.mem, it))
  BY <1>1, <1>3, <1>5, LinkWrote, TameWrote DEF Lawful
<1>8. g.it # NoItem => Lawful(h, item_supplant(g, it))
  BY <1>1, <1>3, <1>4, <1>5, SupplantLawful, LawfulTrans
<1>9. g.it # NoItem => Lawful(h, item_remove(g.mem, g.it))
  BY <1>3, <1>4, <1>5, LiveItems, RemoveTame, TameTrans DEF Lawful
<1> QED
  BY <1>2, <1>6, <1>7, <1>8, <1>9

\* An item found is rewritten in place, or not, and released.
LEMMA ReleaseLawful ==
    ASSUME UseCas, NEW g, HeapOK(g), NEW it \in Live(g), NEW n \in Nat, n \in Length
    PROVE  Lawful(g, item_remove(item_rewrite(g, it, n), it))
<1> DEFINE m == item_rewrite(g, it, n)
<1>1. it \in Item /\ HeapOK(m) /\ Wrote(g, m, it)
  BY LiveItems, RewriteQuiet, RewriteWrote DEF Quiet
<1> HIDE DEF m
<1>2. Wrote(g, item_remove(m, it), it)
  BY <1>1, RemoveTame, WroteTame
<1> QED
  BY <1>1, <1>2 DEF Lawful, m

\* A value moved to a new item.
LEMMA RegrowLawful ==
    ASSUME UseCas, NEW h, Ready(h), NEW g, NEW oit, Plus(h, g, oit), Room(g, 1),
           NEW id \in Class, NEW nbyte \in Nat, nbyte \in Length, NEW flags \in SUBSET {"RALIGN"},
           NEW f \in BOOLEAN, NEW e \in Env(g, f)
    PROVE  Lawful(g, item_regrow(g, oit, id, nbyte, flags, e))
<1> DEFINE k  == g.hdr[oit].key
           x  == g.hdr[oit].exptime
           a  == item_alloc(g, id, k, x, nbyte, e)
           fl == a.mem.flags[a.it] \cup flags
           a1 == [a.mem EXCEPT !.flags[a.it] = fl]
           m  == item_relink(a1, oit, a.it)
           m1 == item_remove(m, oit)
           r  == item_regrow(g, oit, id, nbyte, flags, e)
<1>1. HeapOK(g) /\ CountsOK(g) /\ oit \in Live(g) /\ oit \in Item
  BY PlusFacts DEF Ready
<1>2. k \in MaybeKey /\ x \in Nat
  BY <1>1, HdrFields, 0 \in Nat
<1>3. r = IF a.it = NoItem THEN item_remove(a.mem, oit) ELSE item_remove(m1, a.it)
  BY DEF item_regrow, item_swap
<1> HIDE DEF k, x, r
<1>4. Got(g, a) /\ Tame(g, a.mem)
  BY <1>1, <1>2, AllocGot, AllocTame
<1> HIDE DEF a
<1>5. CASE a.it = NoItem /\ Quiet(g, a.mem)
  <2>1. Tame(a.mem, item_remove(a.mem, oit))
    BY <1>1, <1>5, RemoveTame DEF Quiet
  <2> QED
    BY <1>3, <1>4, <1>5, <2>1, TameTrans DEF Lawful, r
<1>6. CASE a.it # NoItem /\ Plus(g, a.mem, a.it)
  <2>1. /\ HeapOK(a.mem) /\ CountsOK(a.mem)
        /\ a.it \in Live(a.mem) /\ a.it \in Item
    BY <1>1, <1>6, PlusFacts
  <2>2. oit \in Live(a.mem)
    <3>1. g.nslab \in Nat /\ a.mem.nslab \in Nat /\ g.nslab <= a.mem.nslab
      BY <1>1, <1>6, <2>1, CountTypes DEF Plus
    <3>2. 1..g.nslab \subseteq 1..a.mem.nslab
      BY <3>1
    <3> QED
      BY <1>1, <3>2 DEF Live
  <2>3. fl \in SUBSET ItemFlag
    BY <2>1 DEF HeapOK, HeapType, ItemFlag
  <2>4. a1.cas_id = a.mem.cas_id /\ a1.hdr = a.mem.hdr
        /\ (\A y \in Item : y # a.it => a1.flags[y] = a.mem.flags[y])
        /\ (item_is_linked(a1, a.it) => item_is_linked(a.mem, a.it))
    BY <2>1 DEF HeapOK, HeapType, item_is_linked
  <2> HIDE DEF fl
  <2>5. Quiet(a.mem, a1)
    BY <2>1, <2>3, FlagsQuiet
  <2>6. HeapOK(a1) /\ oit \in Live(a1) /\ a.it \in Live(a1)
    BY <2>1, <2>2, <2>5, QuietLive
  <2> HIDE DEF a1
  <2>7. Tame(a.mem, a1)
    BY <2>1, <2>4 DEF Tame, Was, Fits, item_is_linked
  <2>8. HeapOK(m) /\ Wrote(a1, m, a.it)
    BY <2>6, RelinkQuiet, RelinkWrote DEF Ready, Quiet
  <2>9. Quiet(a1, m)
    BY <2>6, RelinkQuiet DEF Ready
  <2> HIDE DEF m
  <2>10. oit \in Live(m) /\ m.refcount[oit] > 0 /\ CountsOK(m)
    <3>1. Plus(g, m, a.it)
      BY <1>1, <1>6, <2>1, <2>5, <2>6, <2>9, PlusQuiet
    <3>2. g.refcount[oit] > 0
      BY PlusFacts DEF Ready
    <3>3. g.refcount \in [Item -> Nat] /\ a.it \in Item
      BY <1>1, <2>1, CountTypes
    <3>4. m.refcount[oit] > 0
      BY <1>1, <3>1, <3>2, <3>3 DEF Plus
    <3> QED
      BY <1>1, <2>6, <2>9, <3>1, <3>4, PlusFacts, QuietLive
  <2>11. HeapOK(m1) /\ Tame(m, m1)
    BY <1>1, <2>8, <2>10, RemoveMinus, RemoveTame DEF Minus
  <2> HIDE DEF m1
  <2>12. Tame(m1, item_remove(m1, a.it))
    BY <2>1, <2>11, RemoveTame
  <2>13. Tame(g, a1) /\ Tame(m, item_remove(m1, a.it))
    BY <1>4, <2>7, <2>11, <2>12, TameTrans
  <2>14. Wrote(g, item_remove(m1, a.it), a.it)
    BY <2>1, <2>8, <2>13, TameWrote, WroteTame
  <2> QED
    BY <1>3, <1>6, <2>1, <2>14 DEF Lawful, r
<1> QED
  BY <1>4, <1>5, <1>6 DEF Got

\* append and prepend.
LEMMA AnnexLawful ==
    ASSUME UseCas, NEW h, Ready(h), NEW it \in Live(h), NEW append \in BOOLEAN,
           NEW f \in BOOLEAN, NEW e \in Env(h, f)
    PROVE  Lawful(h, item_annex(h, it, append, e))
<1> DEFINE k     == h.hdr[it].key
           g     == item_get(h, k)
           oit   == g.it
           total == g.mem.hdr[oit].nbyte + g.mem.hdr[it].nbyte
           id    == item_slabid(total)
           flags == IF append THEN {} ELSE {"RALIGN"}
           r     == item_annex(h, it, append, e)
<1>1. HeapOK(h) /\ it \in Item
  BY LiveNotNoItem DEF Ready
<1>2. k \in MaybeKey
  BY <1>1, HdrFields, 0 \in Nat
<1>3. IF oit = NoItem THEN r = g.mem
      ELSE \/ r = item_remove(g.mem, oit)
           \/ id # 0 /\ r = item_remove(item_rewrite(g.mem, oit, total), oit)
           \/ id # 0 /\ r = item_regrow(g.mem, oit, id, total, flags, e)
  BY DEF item_annex
<1> HIDE DEF k, r
<1>4. \/ oit = NoItem /\ Quiet(h, g.mem)
      \/ /\ oit # NoItem /\ Plus(h, g.mem, oit)
         /\ HeapOK(g.mem) /\ CountsOK(g.mem) /\ Room(g.mem, 1)
         /\ oit \in Live(g.mem) /\ Live(h) \subseteq Live(g.mem)
  BY <1>2, Lookup
<1>5. Tame(h, g.mem)
  BY <1>1, <1>2, GetTame
<1> HIDE DEF g
<1>6. CASE oit = NoItem /\ Quiet(h, g.mem)
  BY <1>3, <1>5, <1>6 DEF r, Lawful
<1>7. CASE /\ oit # NoItem /\ Plus(h, g.mem, oit)
           /\ HeapOK(g.mem) /\ CountsOK(g.mem) /\ Room(g.mem, 1)
           /\ oit \in Live(g.mem) /\ Live(h) \subseteq Live(g.mem)
  <2> HIDE DEF oit
  <2>1. oit \in Item
    BY <1>7, LiveNotNoItem
  <2>2. total \in Nat
    <3>1. g.mem.hdr[oit].nbyte \in Nat /\ g.mem.hdr[it].nbyte \in Nat
      BY <1>1, <1>7, <2>1, HdrFields, 0 \in Nat
    <3> QED
      BY <3>1
  <2>3. id # 0 => id \in Class /\ total \in Length
    BY <2>2, SlabidClass, LengthFits
  <2>4. flags \in SUBSET {"RALIGN"}
    OBVIOUS
  <2>5. e \in Env(g.mem, f)
    BY <1>1, <1>7, EnvGrows DEF Plus
  <2> HIDE DEF total, id, flags
  <2>6. Lawful(g.mem, item_remove(g.mem, oit))
    BY <1>7, <2>1, RemoveTame DEF Lawful
  <2>7. id # 0 => Lawful(g.mem, item_remove(item_rewrite(g.mem, oit, total), oit))
    BY <1>7, <2>2, <2>3, ReleaseLawful
  <2>8. id # 0 => Lawful(g.mem, item_regrow(g.mem, oit, id, total, flags, e))
    BY <1>7, <2>2, <2>3, <2>4, <2>5, RegrowLawful
  <2>9. Lawful(g.mem, r)
    BY <1>3, <1>7, <2>6, <2>7, <2>8
  <2> QED
    BY <1>5, <2>9, LawfulTrans DEF r
<1> QED
  BY <1>4, <1>6, <1>7

\* incr and decr.
LEMMA DeltaLawful ==
    ASSUME UseCas, NEW h, Ready(h), NEW k \in MaybeKey, NEW numeric \in BOOLEAN, NEW res \in Nat,
           item_slabid(res) # 0, NEW f \in BOOLEAN, NEW e \in Env(h, f)
    PROVE  Lawful(h, item_delta(h, k, numeric, res, e))
<1> DEFINE g  == item_get(h, k)
           it == g.it
           id == item_slabid(res)
           ok == id # 0
           g1 == Check(g.mem, ok, "item_delta")
           r  == item_delta(h, k, numeric, res, e)
<1>1. HeapOK(h)
  BY DEF Ready
<1>2. IF it = NoItem THEN r = g.mem
      ELSE \/ r = item_remove(g.mem, it)
           \/ r = item_regrow(g1, it, id, res, {}, e)
           \/ r = item_remove(item_rewrite(g.mem, it, res), it)
  BY DEF item_delta
<1>3. it # NoItem => it \in Live(h)
  <2>1. it \in {NoItem, h.hash[k]}
    BY DEF item_get
  <2>2. h.hash[k] \in Live(h) \cup {NoItem}
    BY <1>1 DEF HeapOK
  <2> QED
    BY <2>1, <2>2
<1> HIDE DEF r
<1>4. \/ it = NoItem /\ Quiet(h, g.mem)
      \/ /\ it # NoItem /\ Plus(h, g.mem, it)
         /\ HeapOK(g.mem) /\ CountsOK(g.mem) /\ Room(g.mem, 1)
         /\ it \in Live(g.mem) /\ Live(h) \subseteq Live(g.mem)
  BY Lookup
<1>5. Tame(h, g.mem)
  BY <1>1, GetTame
<1> HIDE DEF g
<1>6. CASE it = NoItem /\ Quiet(h, g.mem)
  BY <1>2, <1>5, <1>6 DEF r, Lawful
<1>7. CASE /\ it # NoItem /\ Plus(h, g.mem, it)
           /\ HeapOK(g.mem) /\ CountsOK(g.mem) /\ Room(g.mem, 1)
           /\ it \in Live(g.mem) /\ Live(h) \subseteq Live(g.mem)
  <2> HIDE DEF it
  <2>1. id \in Class /\ res \in Length /\ it \in Item
    BY <1>7, SlabidClass, LengthFits, LiveItems
  <2> HIDE DEF ok
  <2>2. Quiet(g.mem, g1) /\ Tame(g.mem, g1)
    BY <1>7, CheckQuiet, CheckTame DEF AssertName, HeapOK
  <2>3. Plus(h, g1, it) /\ Room(g1, 1)
    BY <1>1, <1>7, <2>2, PlusQuiet, RoomAfter
  <2> HIDE DEF g1
  <2>4. e \in Env(g1, f)
    BY <1>1, <1>3, <1>7, <2>3, EnvGrows DEF Plus
  <2>5. {} \in SUBSET {"RALIGN"}
    OBVIOUS
  <2> HIDE DEF id
  <2>6. Lawful(g1, item_regrow(g1, it, id, res, {}, e))
    BY <2>1, <2>3, <2>4, <2>5, RegrowLawful
  <2>7. Lawful(g.mem, item_regrow(g1, it, id, res, {}, e))
    BY <2>2, <2>6, LawfulTrans
  <2>8. Lawful(g.mem, item_remove(g.mem, it))
    BY <1>7, <2>1, RemoveTame DEF Lawful
  <2>9. Lawful(g.mem, item_remove(item_rewrite(g.mem, it, res), it))
    BY <1>7, <2>1, ReleaseLawful
  <2>10. Lawful(g.mem, r)
    BY <1>2, <1>7, <2>7, <2>8, <2>9
  <2> QED
    BY <1>5, <2>10, LawfulTrans DEF r
<1> QED
  BY <1>4, <1>6, <1>7

\* delete stores nothing.
LEMMA DeleteTame ==
    ASSUME NEW h, Ready(h), NEW k \in MaybeKey
    PROVE  Tame(h, item_delete(h, k))
<1> DEFINE g == item_get(h, k)
           u == item_unlink(g.mem, g.it)
<1>1. item_delete(h, k) = IF g.it = NoItem THEN g.mem ELSE item_remove(u, g.it)
  BY DEF item_delete
<1>2. \/ g.it = NoItem
      \/ g.it # NoItem /\ HeapOK(g.mem) /\ g.it \in Live(g.mem)
  BY Lookup
<1>3. Tame(h, g.mem)
  BY GetTame DEF Ready
<1> HIDE DEF g
<1>4. CASE g.it = NoItem
  BY <1>1, <1>3, <1>4
<1>5. CASE g.it # NoItem /\ HeapOK(g.mem) /\ g.it \in Live(g.mem)
  <2>1. g.it \in Item
    BY <1>5, LiveItems
  <2>2. HeapOK(u) /\ Tame(g.mem, u)
    BY <1>5, <2>1, UnlinkQuiet, UnlinkTame DEF Quiet
  <2> HIDE DEF u
  <2>3. Tame(u, item_remove(u, g.it))
    BY <2>1, <2>2, RemoveTame
  <2> QED
    BY <1>1, <1>3, <1>5, <2>2, <2>3, TameTrans
<1> QED
  BY <1>2, <1>4, <1>5

-----------------------------------------------------------------------------
(***************************************************************************)
(* The steps of the connections.                                           *)
(***************************************************************************)

\* set, add, replace and cas get an item, and store nothing yet: the cas id a
\* client sends goes into an item that is not linked.
LEMMA UpdateTame ==
    ASSUME Consistent, NEW c \in Conn, asc_process_update(c)
    PROVE  Tame(mem, mem')
<1>1. PICK k \in Key, n \in NByte, x \in Ttl, e \in MemEnv,
           q \in Request \ {"append", "prepend"}, v \in 0..mem.cas_id :
        /\ item_slabid(n) # 0
        /\ LET a == item_alloc(mem, item_slabid(n), k, time_reltime(now, x), n, e)
           IN  mem' = IF a.it # NoItem /\ q = "cas" /\ UseCas
                      THEN [a.mem EXCEPT !.hdr[a.it].cas = v] ELSE a.mem
  BY DEF asc_process_update
<1> DEFINE id == item_slabid(n)
           t == time_reltime(now, x)
           a == item_alloc(mem, id, k, t, n, e)
           f == "malloc" \in Faults
<1>2. n \in Nat /\ id \in Class /\ n \in Length /\ t \in Nat
  <2>1. Inv /\ now \in Nat
    BY InvFacts DEF Consistent
  <2>2. n \in Nat /\ x \in Int /\ x + TimeMod >= 0
    BY CacheAssumption
  <2> QED
    BY <1>1, <2>1, <2>2, SlabidClass, LengthFits, ReltimeNat
<1>3. e \in Env(mem, f) /\ f \in BOOLEAN /\ k \in MaybeKey
  BY DEF MemEnv, MaybeKey
<1>4. HeapOK(mem) /\ CountsOK(mem) /\ Room(mem, 1) /\ Sound(mem, {})
  BY InvFacts, RoomAfter DEF Consistent, Ready
<1>5. mem' = a.mem \/ (a.it # NoItem /\ mem' = [a.mem EXCEPT !.hdr[a.it].cas = v])
  BY <1>1
<1> HIDE DEF f, id, t
<1>6. Tame(mem, a.mem)
  BY <1>2, <1>3, <1>4, AllocTame
<1>7. HeapOK(a.mem) /\ (a.it # NoItem => a.it \in Item /\ a.mem.flags[a.it] = {})
  BY <1>2, <1>3, <1>4, AllocSound DEF Sound
<1> HIDE DEF a
<1>8. CASE mem' = a.mem
  BY <1>6, <1>8
<1>9. CASE a.it # NoItem /\ mem' = [a.mem EXCEPT !.hdr[a.it].cas = v]
  <2> DEFINE it == a.it
             h == a.mem
  <2>1. it \in Item /\ ~item_is_linked(h, it) /\ h \in HeapType
    BY <1>7, <1>9 DEF item_is_linked, HeapOK
  <2>2. /\ mem'.cas_id = h.cas_id /\ mem'.flags = h.flags
        /\ mem'.hdr = [h.hdr EXCEPT ![it].cas = v]
    BY <1>9, <2>1 DEF HeapType
  <2>3. h.hdr \in [Item -> ItemHdr]
    BY <2>1 DEF HeapType
  <2>4. /\ \A y \in Item : y # it => mem'.flags[y] = h.flags[y] /\ mem'.hdr[y] = h.hdr[y]
        /\ ~item_is_linked(mem', it) /\ mem'.hdr[it].nbyte = h.hdr[it].nbyte
    BY <2>1, <2>2, <2>3 DEF ItemHdr, item_is_linked
  <2> HIDE DEF it, h
  <2>5. Tame(h, mem')
    BY <2>1, <2>2, <2>4 DEF Tame, Was, Fits, item_is_linked
  <2> QED
    BY <1>6, <2>5, TameTrans DEF h
<1> QED
  BY <1>5, <1>8, <1>9

\* append and prepend get an item.
LEMMA AnnexTame ==
    ASSUME Consistent, NEW c \in Conn, asc_process_annex(c)
    PROVE  Tame(mem, mem')
<1>1. PICK k \in Key, n \in NByte, e \in MemEnv :
        /\ item_slabid(n) # 0
        /\ mem' = item_alloc(mem, item_slabid(n), k, 0, n, e).mem
  BY DEF asc_process_annex
<1> DEFINE f == "malloc" \in Faults
<1>2. n \in Nat
  BY CacheAssumption
<1>3. item_slabid(n) \in Class /\ n \in Length
  BY <1>1, <1>2, SlabidClass, LengthFits
<1>4. e \in Env(mem, f) /\ f \in BOOLEAN
  BY DEF MemEnv
<1>5. HeapOK(mem) /\ CountsOK(mem)
  BY InvFacts DEF Consistent, Ready
<1> HIDE DEF f
<1> QED
  BY <1>1, <1>3, <1>4, <1>5, AllocTame

\* The end of a storage command writes at most one item.
LEMMA CompleteLawful ==
    ASSUME UseCas, Consistent, NEW c \in Conn, asc_complete_nread(c)
    PROVE  Lawful(mem, mem')
<1> DEFINE it == hold[c][0]
           f  == "malloc" \in Faults
<1>1. Inv /\ Ready(mem) /\ 0 \in Slot
  BY InvFacts DEF Consistent
<1>2. it # NoItem
  BY DEF asc_complete_nread, Consistent, NreadPrivate
<1>3. it \in Live(mem)
  BY <1>1, <1>2, InvFacts
<1>4. \/ mem' \in {item_set(mem, it), item_cas(mem, it), item_add(mem, it),
                    item_replace(mem, it), mem}
      \/ \E e \in MemEnv, append \in BOOLEAN : mem' = item_annex(mem, it, append, e)
  BY DEF asc_complete_nread
<1> HIDE DEF it
<1>5. ASSUME NEW e \in MemEnv, NEW append \in BOOLEAN, mem' = item_annex(mem, it, append, e)
      PROVE  Lawful(mem, mem')
  <2>1. e \in Env(mem, f) /\ f \in BOOLEAN
    BY DEF MemEnv
  <2> HIDE DEF f
  <2> QED
    BY <1>1, <1>3, <1>5, <2>1, AnnexLawful
<1>6. CASE mem' \in {item_set(mem, it), item_cas(mem, it), item_add(mem, it),
                     item_replace(mem, it)}
  BY <1>1, <1>3, <1>6, StoreLawful
<1>7. CASE mem' = mem
  BY <1>7, TameRefl DEF Lawful
<1> QED
  BY <1>4, <1>5, <1>6, <1>7

\* So do incr and decr.
LEMMA DeltaStep ==
    ASSUME UseCas, Consistent, NEW c \in Conn, asc_process_delta(c)
    PROVE  Lawful(mem, mem')
<1>1. PICK k \in Key, numeric \in BOOLEAN, res \in Digits, e \in MemEnv :
        mem' = item_delta(mem, k, numeric, res, e)
  BY DEF asc_process_delta
<1> DEFINE f == "malloc" \in Faults
<1>2. e \in Env(mem, f) /\ f \in BOOLEAN /\ k \in MaybeKey
  BY DEF MemEnv, MaybeKey
<1>3. res \in Nat /\ item_slabid(res) # 0
  BY CacheAssumption
<1>4. Ready(mem)
  BY InvFacts DEF Consistent
<1> HIDE DEF f
<1> QED
  BY <1>1, <1>2, <1>3, <1>4, DeltaLawful

\* Releasing a reference stores nothing.
LEMMA ReleaseTame ==
    ASSUME Consistent, NEW c \in Conn, nread_done(c) \/ read_no_iov(c) \/ release_next(c)
    PROVE  Tame(mem, mem')
<1>1. Inv /\ HeapOK(mem) /\ 0 \in Slot /\ hold \in Holds
  BY InvFacts DEF Consistent, Ready
<1>2. ASSUME NEW i \in Slot, hold[c][i] # NoItem, mem' = item_remove(mem, hold[c][i])
      PROVE  Tame(mem, mem')
  BY <1>1, <1>2, InvFacts, RemoveTame
<1>3. CASE nread_done(c) \/ read_no_iov(c)
  <2>1. conn[c].state \in {"stored", "touch"} /\ mem' = item_remove(mem, hold[c][0])
    BY <1>3 DEF nread_done, read_no_iov
  <2>2. hold[c][0] # NoItem
    BY <1>1, <2>1, InvFacts DEF PhaseOK
  <2> QED
    BY <1>1, <1>2, <2>1, <2>2
<1>4. CASE release_next(c)
  <2> DEFINE held == Held(c, Slot)
             i == CHOOSE j \in held : \A k \in held : j <= k
  <2>1. conn[c].state = "release" /\ mem' = item_remove(mem, hold[c][i])
    BY <1>4 DEF release_next
  <2>2. \E j \in Slot : hold[c][j] # NoItem
    BY <1>1, <2>1, InvFacts DEF PhaseOK
  <2>3. held \in SUBSET Nat /\ held # {}
    BY <2>2, CacheAssumption DEF Held, Slot
  <2>4. i \in held
    BY <2>3, LeastNat
  <2> HIDE DEF i
  <2>5. i \in Slot /\ hold[c][i] # NoItem
    BY <2>4 DEF Held
  <2> QED
    BY <1>2, <2>1, <2>5
<1> QED
  BY <1>3, <1>4

\* Lookups, touches and deletions store nothing.
LEMMA ReadTame ==
    ASSUME Consistent, NEW c \in Conn,
           read_key(c) \/ read_hit(c) \/ oom_delete(c) \/ asc_process_delete(c)
    PROVE  Tame(mem, mem')
<1>1. Inv /\ HeapOK(mem) /\ Ready(mem) /\ 0 \in Slot
  BY InvFacts DEF Consistent, Ready
<1>2. CASE read_key(c)
  <2>1. PICK k \in Key : mem' = item_get(mem, k).mem
    BY <1>2 DEF read_key
  <2> QED
    BY <1>1, <2>1, GetTame DEF MaybeKey
<1>3. CASE read_hit(c)
  <2>1. conn[c].state = "touch" /\ mem' = item_touch(mem, hold[c][0])
    BY <1>3 DEF read_hit
  <2>2. hold[c][0] # NoItem
    BY <1>1, <2>1, InvFacts DEF PhaseOK
  <2>3. hold[c][0] \in Item
    BY <1>1, <2>2, InvFacts
  <2> QED
    BY <1>1, <2>1, <2>3, TouchTame
<1>4. CASE oom_delete(c)
  <2>1. conn[c].key \in Key /\ mem' = item_delete(mem, conn[c].key)
    BY <1>4 DEF oom_delete, Consistent, OomKeys
  <2> QED
    BY <1>1, <2>1, DeleteTame DEF MaybeKey
<1>5. CASE asc_process_delete(c)
  <2>1. PICK k \in Key : mem' = item_delete(mem, k)
    BY <1>5 DEF asc_process_delete
  <2> QED
    BY <1>1, <2>1, DeleteTame DEF MaybeKey
<1> QED
  BY <1>2, <1>3, <1>4, <1>5

\* Where there is no flush_all, every step writes at most one item.
LEMMA StepLawful ==
    ASSUME UseCas, Consistent, oldest_live = 0, [Next]_vars
    PROVE  Lawful(mem, mem')
<1>1. CASE mem' = mem
  BY <1>1, TameRefl DEF Lawful
<1>2. ASSUME NEW c \in Conn,
               \/ asc_process_update(c)   \/ asc_process_annex(c)
               \/ oom_delete(c)           \/ asc_complete_nread(c)
               \/ nread_done(c)           \/ asc_process_delta(c)
               \/ asc_process_delete(c)   \/ read_key(c)
               \/ read_hit(c)             \/ read_no_iov(c)
               \/ read_overlong(c)        \/ read_end(c)
               \/ transmit_complete(c)    \/ transmit_udp_error(c)
               \/ conn_close(c)           \/ release_next(c)
               \/ asc_process_flushall(c) \/ flush_expired(c)
               \/ asc_process_evict(c)
      PROVE  Lawful(mem, mem')
  <2>1. CASE asc_complete_nread(c) \/ asc_process_delta(c)
    BY <2>1, CompleteLawful, DeltaStep
  <2>2. CASE \/ asc_process_update(c) \/ asc_process_annex(c) \/ oom_delete(c) \/ nread_done(c)
             \/ asc_process_delete(c) \/ read_key(c) \/ read_hit(c) \/ read_no_iov(c)
             \/ release_next(c)
    BY <2>2, UpdateTame, AnnexTame, ReadTame, ReleaseTame DEF Lawful
  <2>3. CASE \/ read_overlong(c) \/ read_end(c) \/ transmit_complete(c)
             \/ transmit_udp_error(c) \/ conn_close(c) \/ asc_process_flushall(c)
             \/ asc_process_evict(c)
    <3>1. mem' = mem
      BY <2>3 DEF read_overlong, read_end, transmit_complete, transmit_udp_error, conn_close,
                  asc_process_flushall, asc_process_evict
    <3> QED
      BY <1>1, <3>1
  <2>4. CASE flush_expired(c)
    <3>1. mem' = mem
      BY <2>4 DEF flush_expired, item_flush_expired
    <3> QED
      BY <1>1, <3>1
  <2> QED
    BY <1>2, <2>1, <2>2, <2>3, <2>4
<1>3. CASE time_update \/ UNCHANGED vars
  <2>1. mem' = mem
    BY <1>3 DEF time_update, vars
  <2> QED
    BY <1>1, <2>1
<1> QED
  BY <1>2, <1>3 DEF Next

-----------------------------------------------------------------------------
(***************************************************************************)
(* The store.                                                              *)
(***************************************************************************)

\* What a lookup of k at time t finds in memory h, where nothing is flushed.
Seen(h, t, k) ==
    LET x == h.hash[k]
    IN  IF x = NoItem \/ (h.hdr[x].exptime # 0 /\ h.hdr[x].exptime <= t)
        THEN S!Absent
        ELSE [version |-> h.hdr[x].cas, len |-> h.hdr[x].nbyte]

\* A key whose item was not written keeps its value or loses it: an item
\* that was dead stays so, as time does not go back.
LEMMA SeenSame ==
    ASSUME NEW h, h \in HeapType, HashOK(h), NEW m, m \in HeapType, HashOK(m),
           NEW t \in Nat, NEW u \in Nat, t <= u, NEW k \in Key,
           m.hash[k] # NoItem => Was(h, m, m.hash[k])
    PROVE  Seen(m, u, k) \in {Seen(h, t, k), S!Absent}
<1> DEFINE x == m.hash[k]
<1>1. CASE x = NoItem
  BY <1>1 DEF Seen
<1>2. CASE x # NoItem
  <2>1. x \in Item
    BY <1>2 DEF HeapType, MaybeItem, MaybeKey
  <2>2. item_is_linked(m, x) /\ m.hdr[x].key = k
    BY <1>2 DEF HashOK
  <2>3. /\ item_is_linked(h, x) /\ h.hdr[x].key = k
        /\ m.hdr[x].nbyte = h.hdr[x].nbyte
        /\ m.hdr[x].exptime = h.hdr[x].exptime
        /\ m.hdr[x].cas = h.hdr[x].cas
    BY <1>2, <2>2 DEF Was
  <2>4. h.hash[k] = x
    BY <2>1, <2>3 DEF HashOK
  <2>5. h.hdr[x].exptime \in Nat
    BY <2>1 DEF HeapType, ItemHdr
  <2> HIDE DEF x
  <2>6. h.hdr[x].exptime <= t => h.hdr[x].exptime <= u
    BY <2>5
  <2> QED
    BY <1>2, <2>3, <2>4, <2>6 DEF Seen, x
<1> QED
  BY <1>1, <1>2

\* A value in the cache has a length some class can hold.
LEMMA SeenLength ==
    ASSUME NEW h, Sound(h, {}), Fits(h), NEW x \in Item, item_is_linked(h, x)
    PROVE  h.hdr[x].nbyte \in Length
<1>1. Chunk(h, x)
  BY DEF Sound, ItemOK, item_is_linked
<1>2. x[1] \in 1..h.nslab
  BY <1>1 DEF Chunk, Item, Slab, Sound, HeapOK, HeapType
<1>3. item_id(h, x) \in Class
  BY <1>2 DEF Sound, SlabsOK, item_id, item_2_slab
<1>4. 0 \in 0..capacity[item_id(h, x)]
  BY <1>3, SlabAssumption DEF Class
<1>5. 0 \in Length
  BY <1>3, <1>4 DEF Length
<1> QED
  BY <1>5 DEF Fits

\* From values v, w and versions a, b: a step of the store.
Stored(v, w, a, b) ==
    \/ /\ b \in {a, a + 1}
       /\ \E D \in SUBSET Key : w = [k \in Key |-> IF k \in D THEN S!Absent ELSE v[k]]
    \/ /\ b = a + 1
       /\ \E j \in Key, n \in Length : \E D \in SUBSET Key :
             w = [[k \in Key |-> IF k \in D THEN S!Absent ELSE v[k]]
                     EXCEPT ![j] = [version |-> a + 1, len |-> n]]

\* A write, or a step that stores nothing, is a step of the store.
LEMMA StoreStep ==
    ASSUME NEW h, Sound(h, {}), NEW m, Sound(m, {}), Fits(m), Lawful(h, m),
           NEW t \in Nat, NEW u \in Nat, t <= u,
           NEW v, v = [k \in Key |-> Seen(h, t, k)],
           NEW w, w = [k \in Key |-> Seen(m, u, k)]
    PROVE  Stored(v, w, h.cas_id, m.cas_id)
<1> DEFINE D == {k \in Key : w[k] = S!Absent}
<1>1. h \in HeapType /\ HashOK(h) /\ m \in HeapType /\ HashOK(m)
  BY DEF Sound, HeapOK
<1>2. ASSUME NEW k \in Key, m.hash[k] # NoItem => Was(h, m, m.hash[k])
      PROVE  w[k] \in {v[k], S!Absent}
  BY <1>1, <1>2, SeenSame
<1>3. \A k \in Key : m.hash[k] # NoItem => m.hash[k] \in Item
  BY <1>1 DEF HeapType, MaybeItem, MaybeKey
<1>4. CASE Tame(h, m)
  <2>1. \A k \in Key : w[k] \in {v[k], S!Absent}
    BY <1>2, <1>3, <1>4 DEF Tame
  <2>2. w = [k \in Key |-> IF k \in D THEN S!Absent ELSE v[k]]
    BY <2>1
  <2> QED
    BY <1>4, <2>2 DEF Tame, Stored
<1>5. ASSUME NEW y \in Item, Wrote(h, m, y)
      PROVE  /\ m.cas_id = h.cas_id + 1
             /\ \/ \E E \in SUBSET Key : w = [k \in Key |-> IF k \in E THEN S!Absent ELSE v[k]]
                \/ \E j \in Key, n \in Length : \E E \in SUBSET Key :
                     w = [[k \in Key |-> IF k \in E THEN S!Absent ELSE v[k]]
                             EXCEPT ![j] = [version |-> h.cas_id + 1, len |-> n]]
  <2>1. m.cas_id = h.cas_id + 1
    BY <1>5 DEF Wrote
  <2> DEFINE j == m.hdr[y].key
             n == m.hdr[y].nbyte
  <2>2. \A k \in Key : m.hash[k] # y => w[k] \in {v[k], S!Absent}
    BY <1>2, <1>3, <1>5 DEF Wrote
  <2>3. CASE item_is_linked(m, y)
    <3>1. j \in Key /\ m.hash[j] = y /\ n \in Length
      BY <1>1, <2>3, SeenLength DEF HashOK
    <3>2. \A k \in Key : k # j => w[k] \in {v[k], S!Absent}
      BY <1>1, <2>2, SlabAssumption DEF HashOK
    <3>3. w[j] \in {[version |-> h.cas_id + 1, len |-> n], S!Absent}
      BY <1>5, <2>1, <2>3, <3>1 DEF Seen, Wrote
    <3> HIDE DEF j, n
    <3>4. CASE w[j] = S!Absent
      <4>1. w = [k \in Key |-> IF k \in D THEN S!Absent ELSE v[k]]
        BY <3>2, <3>4
      <4> QED
        BY <2>1, <4>1
    <3>5. CASE w[j] = [version |-> h.cas_id + 1, len |-> n]
      <4>1. w = [[k \in Key |-> IF k \in D THEN S!Absent ELSE v[k]]
                    EXCEPT ![j] = [version |-> h.cas_id + 1, len |-> n]]
        BY <3>1, <3>2, <3>5
      <4> QED
        BY <2>1, <3>1, <4>1
    <3> QED
      BY <3>3, <3>4, <3>5
  <2>4. CASE ~item_is_linked(m, y)
    <3>1. \A k \in Key : w[k] \in {v[k], S!Absent}
      BY <1>1, <2>2, <2>4, SlabAssumption DEF HashOK
    <3>2. w = [k \in Key |-> IF k \in D THEN S!Absent ELSE v[k]]
      BY <3>1
    <3> QED
      BY <2>1, <3>2
  <2> QED
    BY <2>3, <2>4
<1> QED
  BY <1>4, <1>5 DEF Lawful, Stored

\* Only time_update and flush_all move the clock or the horizon.
LEMMA Frame ==
    ASSUME NEW c \in Conn,
           \/ asc_process_update(c)   \/ asc_process_annex(c)
           \/ oom_delete(c)           \/ asc_complete_nread(c)
           \/ nread_done(c)           \/ asc_process_delta(c)
           \/ asc_process_delete(c)   \/ read_key(c)
           \/ read_hit(c)             \/ read_no_iov(c)
           \/ read_overlong(c)        \/ read_end(c)
           \/ transmit_complete(c)    \/ transmit_udp_error(c)
           \/ conn_close(c)           \/ release_next(c)
           \/ flush_expired(c)        \/ asc_process_evict(c)
    PROVE  oldest_live' = oldest_live /\ now' = now
<1>1. CASE asc_process_update(c) \/ asc_process_annex(c) \/ asc_process_delta(c)
  <2>1. CASE asc_process_update(c)
    BY <2>1 DEF asc_process_update
  <2>2. CASE asc_process_annex(c)
    BY <2>2 DEF asc_process_annex
  <2>3. CASE asc_process_delta(c)
    BY <2>3 DEF asc_process_delta
  <2> QED
    BY <1>1, <2>1, <2>2, <2>3
<1>2. CASE \/ oom_delete(c) \/ asc_complete_nread(c) \/ nread_done(c)
           \/ asc_process_delete(c) \/ release_next(c)
  BY <1>2 DEF oom_delete, asc_complete_nread, nread_done, asc_process_delete, release_next
<1>3. CASE \/ read_key(c) \/ read_hit(c) \/ read_no_iov(c) \/ read_overlong(c) \/ read_end(c)
  BY <1>3 DEF read_key, read_hit, read_no_iov, read_overlong, read_end
<1>4. CASE \/ transmit_complete(c) \/ transmit_udp_error(c) \/ conn_close(c)
           \/ flush_expired(c) \/ asc_process_evict(c)
  BY <1>4 DEF transmit_complete, transmit_udp_error, conn_close, flush_expired,
              asc_process_evict
<1> QED
  BY <1>1, <1>2, <1>3, <1>4

\* Where flush_all is not used, and the clock does not go back, the horizon
\* stays 0 and time passes.
LEMMA TimePasses ==
    ASSUME FlushArg = {}, ClockStep \subseteq Nat, now \in Nat, [Next]_vars
    PROVE  oldest_live' = oldest_live /\ now' \in Nat /\ now <= now'
<1>1. \A t \in ClockRead : t \in Nat /\ now <= t
  BY CacheAssumption DEF ClockRead
<1>2. CASE time_update
  BY <1>1, <1>2 DEF time_update
<1>3. ASSUME NEW c \in Conn,
               \/ asc_process_update(c)   \/ asc_process_annex(c)
               \/ oom_delete(c)           \/ asc_complete_nread(c)
               \/ nread_done(c)           \/ asc_process_delta(c)
               \/ asc_process_delete(c)   \/ read_key(c)
               \/ read_hit(c)             \/ read_no_iov(c)
               \/ read_overlong(c)        \/ read_end(c)
               \/ transmit_complete(c)    \/ transmit_udp_error(c)
               \/ conn_close(c)           \/ release_next(c)
               \/ flush_expired(c)        \/ asc_process_evict(c)
      PROVE  oldest_live' = oldest_live /\ now' = now
  BY <1>3, Frame
<1>4. ASSUME NEW c \in Conn
      PROVE  ~asc_process_flushall(c)
  BY DEF asc_process_flushall
<1>5. CASE UNCHANGED vars
  BY <1>5 DEF vars
<1>6. now <= now
  OBVIOUS
<1> QED
  BY <1>2, <1>3, <1>4, <1>5, <1>6 DEF Next

\* The cache, its hash and its items are a store, whatever connections do and
\* in whatever order: no handler brings a value back that was replaced,
\* deleted, evicted or expired, and none changes a value, in place or by
\* relinking, without a fresh cas id.  flush_all is left out: what it flushed
\* may come back when a later one moves the horizon.
THEOREM CacheImplementsStore ==
    ASSUME UseCas, FlushArg = {}, ClockStep \subseteq Nat
    PROVE  Spec => ImplementsStore
<1> DEFINE Calm == oldest_live = 0 /\ Fits(mem)
           value == [k \in Key |-> Visible(k)]
<1>1. Init => Calm /\ S!Init
  <2> SUFFICES ASSUME Init PROVE Calm /\ S!Init
    OBVIOUS
  <2>1. Fits(mem)
    BY DEF Init, InitHeap, Blank, Fits
  <2>2. \A k \in Key : Visible(k) = S!Absent
    BY DEF Init, InitHeap, Visible, S!Absent, MaybeKey
  <2>3. mem.cas_id = 0
    BY DEF Init, InitHeap
  <2> QED
    BY <2>1, <2>2, <2>3 DEF Init, S!Init
<1>2. Consistent /\ Consistent' /\ Calm /\ [Next]_vars
      => Calm' /\ [S!Next]_<<value, mem.cas_id>>
  <2> SUFFICES ASSUME Consistent, Consistent', Calm, [Next]_vars
               PROVE  Calm' /\ S!Next
    OBVIOUS
  <2>1. now \in Nat
    BY InvFacts DEF Consistent
  <2>2. oldest_live' = 0 /\ now' \in Nat /\ now <= now'
    BY <2>1, TimePasses
  <2>3. Lawful(mem, mem')
    BY StepLawful
  <2>4. Fits(mem')
    BY <2>3 DEF Lawful, Tame, Wrote
  <2>5. /\ value = [k \in Key |-> Seen(mem, now, k)]
        /\ value' = [k \in Key |-> Seen(mem', now', k)]
    BY <2>2 DEF Visible, Seen, item_dead, S!Absent
  <2>6. Sound(mem, {}) /\ Sound(mem', {})
    BY DEF Consistent
  <2> HIDE DEF value
  <2>7. Stored(value, value', mem.cas_id, mem'.cas_id)
    BY <2>1, <2>2, <2>3, <2>4, <2>5, <2>6, StoreStep
  <2>8. S!Next
    BY <2>7 DEF Stored, S!Next, S!Forget, S!Write, S!WriteExpired, S!Without, value
  <2> QED
    BY <2>2, <2>4, <2>8
<1> QED
  BY <1>1, <1>2, AlwaysConsistent, PTL DEF Spec, ImplementsStore, S!Spec

-----------------------------------------------------------------------------
(***************************************************************************)
(* The order of the lruqs.                                                 *)
(***************************************************************************)

\* x is in queue q, no later than y.
Ahead(q, x, y) == \E i, j \in DOMAIN q : i <= j /\ q[i] = x /\ q[j] = y

\* The access times in the lruqs ascend, and none is in the future.
Sorted(h) ==
    \A id \in Class, x, y \in Item : Ahead(h.item_lruq[id], x, y) =>
        h.hdr[x].atime <= h.hdr[y].atime /\ h.hdr[y].atime <= now

\* From h to m the lruqs stay sorted.
Tidy(h, m) == Sorted(h) => Sorted(m)

\* Removing elements keeps the order of the rest.
LEMMA WithoutAhead ==
    ASSUME NEW T, NEW q \in Seq(T), NEW R, NEW x, NEW y, Ahead(Without(q, R), x, y)
    PROVE  Ahead(q, x, y) /\ x \notin R /\ y \notin R
<1> DEFINE I == Kept(q, R)
           n == Cardinality(I)
           at(k) == CHOOSE i \in I : Rank(I, i) = k
<1>1. Len(q) \in Nat /\ DOMAIN q = 1..Len(q)
  BY LenProperties
<1>2. I \in SUBSET (1..Len(q))
  BY <1>1 DEF Kept
<1>3. /\ n \in Nat
      /\ \A i, j \in I : i < j => Rank(I, i) < Rank(I, j)
      /\ \A i \in I : Rank(I, i) \in 1..n
      /\ \A k \in 1..n : \E i \in I : Rank(I, i) = k
  <2> HIDE DEF I
  <2> QED
    BY <1>1, <1>2, RankProperties
<1>4. Without(q, R) = [k \in 1..n |-> q[at(k)]]
  BY DEF Without
<1>5. PICK k, l \in 1..n : k <= l /\ q[at(k)] = x /\ q[at(l)] = y
  <2> DEFINE p == Without(q, R)
  <2>1. DOMAIN p = 1..n /\ \A k \in 1..n : p[k] = q[at(k)]
    BY <1>4
  <2> HIDE DEF p, at, n
  <2>2. PICK k, l \in 1..n : k <= l /\ p[k] = x /\ p[l] = y
    BY <2>1 DEF Ahead, p
  <2> QED
    BY <2>1, <2>2
<1>6. at(k) \in I /\ at(l) \in I /\ Rank(I, at(k)) = k /\ Rank(I, at(l)) = l
  BY <1>3
<1> DEFINE i == at(k)
           j == at(l)
<1> HIDE DEF at
<1>7. ~(j < i)
  BY <1>3, <1>5, <1>6
<1>8. i \in 1..Len(q) /\ j \in 1..Len(q) /\ q[i] \notin R /\ q[j] \notin R
  BY <1>1, <1>6 DEF Kept
<1>9. i <= j
  BY <1>1, <1>7, <1>8
<1> QED
  BY <1>1, <1>5, <1>8, <1>9 DEF Ahead

\* What is appended is behind everything.
LEMMA AppendAhead ==
    ASSUME NEW T, NEW q \in Seq(T), NEW it \in T, NEW x, NEW y, Ahead(Append(q, it), x, y)
    PROVE  \/ Ahead(q, x, y)
           \/ y = it /\ (x = it \/ Ahead(q, x, x))
<1> DEFINE p == Append(q, it)
           n == Len(q)
<1>1. n \in Nat /\ DOMAIN q = 1..n
  BY LenProperties
<1>2. DOMAIN p = 1..(n + 1) /\ p[n + 1] = it /\ \A i \in 1..n : p[i] = q[i]
  BY <1>1, AppendProperties
<1> HIDE DEF p, n
<1>3. PICK i, j \in 1..(n + 1) : i <= j /\ p[i] = x /\ p[j] = y
  BY <1>2 DEF Ahead, p
<1>4. CASE j = n + 1
  <2>1. CASE i = n + 1
    BY <1>2, <1>3, <1>4, <2>1
  <2>2. CASE i # n + 1
    <3>1. i \in 1..n /\ i <= i
      BY <1>1, <2>2
    <3> QED
      BY <1>1, <1>2, <1>3, <1>4, <3>1 DEF Ahead
  <2> QED
    BY <2>1, <2>2
<1>5. CASE j # n + 1
  <2>1. i \in 1..n /\ j \in 1..n
    BY <1>1, <1>3, <1>5
  <2> QED
    BY <1>1, <1>2, <1>3, <2>1 DEF Ahead
<1> QED
  BY <1>4, <1>5

\* What is in a queue is no later than itself, and what is ahead or behind is
\* in the queue.
LEMMA AheadElems ==
    ASSUME NEW T, NEW q \in Seq(T), NEW x, NEW y
    PROVE  /\ Ahead(q, x, y) => x \in Elems(q) /\ y \in Elems(q)
           /\ x \in Elems(q) => Ahead(q, x, x)
<1>1. Ahead(q, x, y) => x \in Elems(q) /\ y \in Elems(q)
  BY DEF Ahead, Elems
<1>2. ASSUME x \in Elems(q) PROVE Ahead(q, x, x)
  <2>1. PICK i \in DOMAIN q : q[i] = x
    BY <1>2 DEF Elems
  <2>2. i <= i
    BY <2>1, LenProperties
  <2> QED
    BY <2>1, <2>2 DEF Ahead
<1> QED
  BY <1>1, <1>2

-----------------------------------------------------------------------------
\* Steps that keep the order compose.
LEMMA TidyTrans ==
    ASSUME NEW h, NEW g, NEW m, Tidy(h, g), Tidy(g, m)
    PROVE  Tidy(h, m)
  BY DEF Tidy

\* Elements leave the lruqs, and those that stay keep their access times.
LEMMA ThinTidy ==
    ASSUME NEW h, h.item_lruq \in [Class -> Seq(Item)], NEW m,
           \A id \in Class : \/ m.item_lruq[id] = h.item_lruq[id]
                             \/ \E R : m.item_lruq[id] = Without(h.item_lruq[id], R),
           \A id \in Class : \A x \in Elems(m.item_lruq[id]) : m.hdr[x].atime = h.hdr[x].atime
    PROVE  Tidy(h, m)
<1> SUFFICES ASSUME Sorted(h), NEW id \in Class, NEW x \in Item, NEW y \in Item,
                    Ahead(m.item_lruq[id], x, y)
             PROVE  m.hdr[x].atime <= m.hdr[y].atime /\ m.hdr[y].atime <= now
  BY DEF Tidy, Sorted
<1>1. h.item_lruq[id] \in Seq(Item)
  OBVIOUS
<1>2. m.item_lruq[id] \in Seq(Item) /\ Ahead(h.item_lruq[id], x, y)
  BY <1>1, WithoutAhead, WithoutProperties
<1>3. x \in Elems(m.item_lruq[id]) /\ y \in Elems(m.item_lruq[id])
  BY <1>2, AheadElems
<1>4. m.hdr[x].atime = h.hdr[x].atime /\ m.hdr[y].atime = h.hdr[y].atime
  BY <1>3
<1> QED
  BY <1>2, <1>4 DEF Sorted

\* Nothing in a lruq changes.
LEMMA SameTidy ==
    ASSUME NEW h, h.item_lruq \in [Class -> Seq(Item)], NEW m, m.item_lruq = h.item_lruq,
           \A id \in Class : \A x \in Elems(h.item_lruq[id]) : m.hdr[x].atime = h.hdr[x].atime
    PROVE  Tidy(h, m)
  BY ThinTidy

-----------------------------------------------------------------------------
\* An item that is not linked is in no lruq, so its access time may change.
LEMMA OffTidy ==
    ASSUME NEW h, NEW X, Sound(h, X), NEW m, m.item_lruq = h.item_lruq, NEW it \in Item,
           \A x \in Item : ~(x = it /\ ~item_is_linked(h, it)) => m.hdr[x].atime = h.hdr[x].atime
    PROVE  Tidy(h, m)
<1>1. h.item_lruq \in [Class -> Seq(Item)]
  BY DEF Sound, HeapOK, HeapType
<1>2. ASSUME NEW id \in Class, NEW x \in Elems(h.item_lruq[id])
      PROVE  m.hdr[x].atime = h.hdr[x].atime
  <2>1. x \in Item
    BY <1>1 DEF Elems
  <2>2. item_is_linked(h, x)
    BY <2>1, SoundQueues
  <2> QED
    BY <2>1, <2>2
<1> QED
  BY <1>1, <1>2, SameTidy

\* slab_put_item.
LEMMA PutTidy ==
    ASSUME NEW h, NEW it, Sound(h, {it})
    PROVE  Tidy(h, slab_put_item(h, it))
<1> DEFINE m == slab_put_item(h, it)
<1>1. Freed(h, m, it)
  BY PutSound
<1>2. it \in Item /\ ~item_is_linked(h, it)
  BY DEF Sound, Whereabouts
<1>3. h.hdr \in [Item -> ItemHdr]
  BY DEF Sound, HeapOK, HeapType
<1> HIDE DEF m
<1>4. m.item_lruq = h.item_lruq /\ \A x \in Item : x # it => m.hdr[x] = h.hdr[x]
  BY <1>1, <1>3 DEF Freed
<1>5. Tidy(h, m)
  BY <1>2, <1>4, OffTidy
<1> QED
  BY <1>5 DEF m

\* An item leaves hash and lruq.
LEMMA DropTidy ==
    ASSUME NEW h, NEW X, Sound(h, X), NEW m, NEW it \in Item, Unlinked(h, m, it)
    PROVE  Tidy(h, m)
<1>1. h.item_lruq \in [Class -> Seq(Item)]
  BY DEF Sound, HeapOK, HeapType
<1>2. /\ m.hdr = h.hdr
      /\ \A id \in Class : \/ m.item_lruq[id] = h.item_lruq[id]
                           \/ m.item_lruq[id] = Without(h.item_lruq[id], {it})
  BY <1>1 DEF Unlinked
<1> QED
  BY <1>1, <1>2, ThinTidy

\* item_unlink.
LEMMA UnlinkTidy ==
    ASSUME NEW h, Sound(h, {}), NEW it \in Item, item_is_linked(h, it)
    PROVE  Tidy(h, item_unlink(h, it))
<1> DEFINE g == DropLink(h, it)
           m == item_unlink(h, it)
<1>1. HeapOK(g) /\ Unlinked(h, g, it)
  BY DropFields DEF Sound
<1>2. m = IF h.refcount[it] = 0 THEN slab_put_item(g, it) ELSE g
  BY DEF item_unlink, DropLink
<1> HIDE DEF g, m
<1>3. Sound(g, IF h.refcount[it] = 0 THEN {it} ELSE {})
  BY <1>1, DropSound
<1>4. Tidy(h, g)
  BY <1>1, DropTidy
<1>5. CASE h.refcount[it] = 0
  BY <1>2, <1>3, <1>4, <1>5, PutTidy, TidyTrans DEF m
<1>6. CASE h.refcount[it] # 0
  BY <1>2, <1>4, <1>6 DEF m
<1> QED
  BY <1>5, <1>6

\* item_reuse.
LEMMA ReuseTidy ==
    ASSUME NEW h, Sound(h, {}), NEW it \in Item, item_is_linked(h, it), h.refcount[it] = 0
    PROVE  Tidy(h, item_reuse(h, it))
<1> DEFINE ok == ~item_is_slabbed(h, it) /\ item_is_linked(h, it) /\ h.refcount[it] = 0
           m == item_reuse(h, it)
<1>1. HeapOK(h) /\ ok
  BY DEF Sound, ItemOK
<1>2. Check(h, ok, "item_reuse") = h
  BY <1>1, CheckSame DEF AssertName
<1>3. m = DropLink(h, it)
  BY <1>2 DEF item_reuse, DropLink
<1> HIDE DEF m
<1>4. Unlinked(h, m, it)
  BY <1>1, <1>3, DropFields
<1> QED
  BY <1>4, DropTidy DEF m

\* item_remove frees an item only if it is not linked.
LEMMA RemoveTidy ==
    ASSUME NEW h, Sound(h, {}), NEW it \in Item
    PROVE  Tidy(h, item_remove(h, it))
<1> DEFINE ok == ~item_is_slabbed(h, it)
           g == Check(h, ok, "item_remove")
           r == item_release_refcount(g, it)
           a == IF h.refcount[it] # 0 THEN r ELSE g
           p == slab_put_item(a, it)
           m == item_remove(h, it)
<1>1. m = IF a.refcount[it] = 0 /\ ~item_is_linked(a, it) THEN p ELSE a
  BY DEF item_remove
<1>2. h \in HeapType
  BY DEF Sound, HeapOK
<1>3. g \in HeapType /\ Same(h, g)
  BY <1>2, CheckSame DEF Sound, HeapOK, AssertName
<1> HIDE DEF ok, g
<1>4. a.item_lruq = h.item_lruq /\ a.hdr = h.hdr /\ a.flags = h.flags
  <2>1. r.item_lruq = g.item_lruq /\ r.hdr = g.hdr /\ r.flags = g.flags
    BY <1>3 DEF item_release_refcount, slab_release_refcount, Check, HeapType
  <2> HIDE DEF r
  <2> QED
    BY <1>3, <2>1 DEF Same
<1> HIDE DEF a, m
<1>5. h.hdr \in [Item -> ItemHdr]
  BY <1>2 DEF HeapType
<1>6. CASE m = a
  BY <1>4, <1>6, OffTidy DEF m
<1>7. CASE m # a
  <2>1. m = p /\ ~item_is_linked(h, it)
    BY <1>1, <1>4, <1>7 DEF item_is_linked
  <2>2. p.item_lruq = a.item_lruq /\ \A x \in Item : x # it => p.hdr[x] = h.hdr[x]
    BY <1>4, <1>5 DEF slab_put_item, Check
  <2> QED
    BY <1>4, <2>1, <2>2, OffTidy DEF m
<1> QED
  BY <1>6, <1>7

\* item_get takes a reference, or unlinks what is dead.
LEMMA GetTidy ==
    ASSUME NEW h, Sound(h, {}), NEW k \in Key
    PROVE  Tidy(h, item_get(h, k).mem)
<1> DEFINE m == item_get(h, k).mem
           it == h.hash[k]
<1>1. CASE it = NoItem
  BY <1>1 DEF item_get, Tidy
<1>2. CASE it # NoItem
  <2>1. it \in Item /\ item_is_linked(h, it)
    BY <1>2, LiveItems DEF Sound, HashOK, HeapOK, MaybeKey
  <2>2. m \in {item_unlink(h, it), item_acquire_refcount(h, it)}
    BY <1>2 DEF item_get
  <2> HIDE DEF m, it
  <2>3. CASE m = item_unlink(h, it)
    BY <2>1, <2>3, UnlinkTidy DEF m
  <2>4. CASE m = item_acquire_refcount(h, it)
    <3>1. m.item_lruq = h.item_lruq /\ m.hdr = h.hdr
      BY <2>4 DEF item_acquire_refcount, slab_acquire_refcount, Sound, HeapOK, HeapType
    <3> QED
      BY <2>1, <3>1, OffTidy DEF m
  <2> QED
    BY <2>2, <2>3, <2>4
<1> QED
  BY <1>1, <1>2

\* item_link_q, as far as the order is concerned.
LEMMA LinkQTidy ==
    ASSUME NEW h, HeapOK(h), now \in Nat, NEW it \in Item, NEW a \in BOOLEAN, item_id(h, it) \in Class,
           \A id \in Class : it \notin Elems(h.item_lruq[id])
    PROVE  Tidy(h, item_link_q(h, it, a))
<1> DEFINE c == item_id(h, it)
           g == Check(h, ~item_is_slabbed(h, it), "item_link_q")
           k == [g EXCEPT !.hdr[it].atime = now,
                          !.item_lruq[c] = Append(@, it)]
           m == item_link_q(h, it, a)
<1>1. m = slab_lruq_touch(k, item_2_slab(it), a)
  BY DEF item_link_q
<1>2. k.item_lruq = [h.item_lruq EXCEPT ![c] = Append(h.item_lruq[c], it)]
  BY DEF Check, HeapOK, HeapType
<1>3. m.item_lruq = k.item_lruq
  BY <1>1 DEF slab_lruq_touch, Check, HeapOK, HeapType
<1>4. m.hdr = [h.hdr EXCEPT ![it].atime = now]
  BY LinkQTame
<1>5. h.hdr \in [Item -> ItemHdr] /\ h.item_lruq \in [Class -> Seq(Item)]
  BY DEF HeapOK, HeapType
<1> HIDE DEF m, k
<1>6. m.hdr[it].atime = now /\ \A x \in Item : x # it => m.hdr[x] = h.hdr[x]
  BY <1>4, <1>5 DEF ItemHdr
<1>7. /\ c \in Class /\ m.item_lruq = [h.item_lruq EXCEPT ![c] = Append(h.item_lruq[c], it)]
      /\ \A x \in Item : x # it => m.hdr[x].atime = h.hdr[x].atime
  BY <1>2, <1>3, <1>6
<1>8. h.item_lruq \in [Class -> Seq(Item)]
  BY <1>5
<1>9. m.hdr[it].atime = now
  BY <1>6
<1>10. c \in Class
  OBVIOUS
<1>11. /\ m.item_lruq[c] = Append(h.item_lruq[c], it)
       /\ \A d \in Class : d # c => m.item_lruq[d] = h.item_lruq[d]
  BY <1>2, <1>3, <1>8
<1>12. \A x \in Item : x # it => m.hdr[x].atime = h.hdr[x].atime
  BY <1>6
<1>13. \A d \in Class : it \notin Elems(h.item_lruq[d])
  OBVIOUS
<1> HIDE DEF c, g
<1>14. Tidy(h, m)
  <2> USE <1>8, <1>9, <1>10, <1>11, <1>12, <1>13
  <2> SUFFICES ASSUME Sorted(h), NEW id \in Class, NEW x \in Item, NEW y \in Item,
                      Ahead(m.item_lruq[id], x, y)
               PROVE  m.hdr[x].atime <= m.hdr[y].atime /\ m.hdr[y].atime <= now
    BY DEF Tidy, Sorted
  <2> DEFINE q == h.item_lruq[id]
  <2>1. q \in Seq(Item) /\ m.item_lruq[id] \in {q, Append(q, it)}
    OBVIOUS
  <2> HIDE DEF q
  <2>2. \/ Ahead(q, x, y)
        \/ y = it /\ (x = it \/ Ahead(q, x, x))
    <3>1. CASE m.item_lruq[id] = q
      BY <3>1
    <3>2. CASE m.item_lruq[id] = Append(q, it)
      <4>1. Ahead(Append(q, it), x, y)
        BY <3>2
      <4> QED
        BY <2>1, <4>1, AppendAhead
    <3> QED
      BY <2>1, <3>1, <3>2
  <2>3. ASSUME NEW z \in Item, NEW w \in Item, Ahead(q, z, w)
        PROVE  z # it /\ w # it /\ h.hdr[z].atime <= h.hdr[w].atime /\ h.hdr[w].atime <= now
    BY <2>1, <2>3, AheadElems DEF Sorted, q
  <2>4. CASE Ahead(q, x, y)
    BY <2>3, <2>4
  <2>5. CASE y = it /\ x = it
    BY <2>5
  <2>6. CASE y = it /\ Ahead(q, x, x)
    BY <2>3, <2>6
  <2> QED
    BY <2>2, <2>4, <2>5, <2>6
<1> QED
  BY <1>14 DEF m

\* item_touch moves an item to the tail of its lruq.
LEMMA TouchTidy ==
    ASSUME NEW h, Sound(h, {}), now \in Nat, NEW it \in Item, h.refcount[it] > 0
    PROVE  Tidy(h, item_touch(h, it))
<1> DEFINE g == item_unlink_q(h, it)
           m == item_touch(h, it)
           id == item_id(h, it)
<1>1. HeapOK(h) /\ h \in HeapType /\ ~item_is_slabbed(h, it) /\ id \in Class
  BY InUse, CountTypes DEF Sound, ItemOK, HeapOK
<1>2. Check(h, ~item_is_slabbed(h, it), "item_touch") = h
  BY <1>1, CheckSame DEF AssertName
<1>3. CASE m = h
  BY <1>3 DEF Tidy
<1>4. CASE m # h
  <2>1. m = item_link_q(g, it, FALSE)
    BY <1>2, <1>4 DEF item_touch
  <2>2. HeapOK(g)
    BY <1>1, UnlinkQQuiet DEF Quiet
  <2>3. /\ g.slab_class = h.slab_class /\ g.hdr = h.hdr
        /\ g.item_lruq = [h.item_lruq EXCEPT ![id] = Without(h.item_lruq[id], {it})]
    BY <1>1 DEF item_unlink_q, HeapType
  <2>4. h.item_lruq \in [Class -> Seq(Item)]
    BY <1>1 DEF HeapType
  <2> HIDE DEF g, m
  <2>5. item_id(g, it) = id
    BY <2>3 DEF item_id
  <2> HIDE DEF id
  <2>6. \A c \in Class : it \notin Elems(g.item_lruq[c])
    <3>1. \A c \in Class : c # id => it \notin Elems(h.item_lruq[c])
      BY SoundQueues DEF id
    <3>2. it \notin Elems(g.item_lruq[id])
      BY <1>1, <2>3, <2>4, WithoutProperties
    <3> QED
      BY <1>1, <2>3, <2>4, <3>1, <3>2
  <2>7. Tidy(h, g)
    <3>1. \A c \in Class : \/ g.item_lruq[c] = h.item_lruq[c]
                           \/ g.item_lruq[c] = Without(h.item_lruq[c], {it})
      BY <2>3, <2>4
    <3> QED
      BY <2>3, <2>4, <3>1, ThinTidy
  <2>8. item_id(g, it) \in Class
    BY <1>1, <2>5
  <2>9. Tidy(g, m)
    BY <2>1, <2>2, <2>6, <2>8, LinkQTidy
  <2> QED
    BY <2>7, <2>9, TidyTrans DEF m
<1> QED
  BY <1>3, <1>4

\* item_link puts an item at the tail of its lruq.
LEMMA LinkTidy ==
    ASSUME NEW h, Sound(h, {}), now \in Nat, NEW it \in Item, h.refcount[it] > 0,
           ~item_is_linked(h, it)
    PROVE  Tidy(h, item_link(h, it))
<1> DEFINE ok == ~item_is_linked(h, it) /\ ~item_is_slabbed(h, it)
           g == Check(h, ok, "item_link")
           h1 == [g EXCEPT !.flags[it] = @ \cup {"LINKED"}]
           h2 == item_next_cas(h1, it)
           h3 == assoc_insert(h2, it)
           m == item_link(h, it)
<1>1. m = item_link_q(h3, it, TRUE)
  BY DEF item_link
<1>2. /\ HeapOK(h) /\ it \in Live(h) /\ ~item_is_slabbed(h, it) /\ item_id(h, it) \in Class
      /\ h \in HeapType
  BY InUse, CountTypes DEF Sound, ItemOK, HeapOK
<1>3. g = h
  BY <1>2, CheckSame DEF AssertName
<1> HIDE DEF g
<1> DEFINE fl == h.flags[it] \cup {"LINKED"}
<1>4. fl \in SUBSET ItemFlag
  BY <1>2 DEF HeapType, ItemFlag
<1>5. h1 = [h EXCEPT !.flags[it] = fl]
  BY <1>2, <1>3 DEF HeapType
<1>6. Quiet(h, h1)
  <2> HIDE DEF fl, h1
  <2> QED
    BY <1>2, <1>4, <1>5, FlagsQuiet
<1>7. HeapOK(h1) /\ h1 \in HeapType /\ it \in Live(h1)
  <2> HIDE DEF h1
  <2>1. HeapOK(h1)
    BY <1>6 DEF Quiet
  <2>2. it \in Live(h1)
    BY <1>2, <1>6, QuietLive
  <2> QED
    BY <2>1, <2>2 DEF HeapOK
<1>8. h1.hdr = h.hdr /\ h1.item_lruq = h.item_lruq /\ h1.slab_class = h.slab_class
  BY <1>2, <1>5 DEF HeapType
<1> HIDE DEF h1
<1>9. /\ h2.item_lruq = h1.item_lruq /\ h2.slab_class = h1.slab_class
      /\ \A x \in Item : h2.hdr[x].atime = h1.hdr[x].atime
  <2>1. h1.hdr \in [Item -> ItemHdr]
    BY <1>7 DEF HeapType
  <2>2. h2.item_lruq = h1.item_lruq /\ h2.slab_class = h1.slab_class
    BY <1>7 DEF item_next_cas, HeapType
  <2>3. h2.hdr = h1.hdr \/ h2.hdr = [h1.hdr EXCEPT ![it].cas = h1.cas_id + 1]
    BY <1>7 DEF item_next_cas, HeapType
  <2> HIDE DEF h2
  <2> QED
    BY <2>1, <2>2, <2>3 DEF ItemHdr
<1>10. HeapOK(h2) /\ it \in Live(h2)
  BY <1>7, NextCasQuiet, QuietLive
<1> HIDE DEF h2
<1>11. HeapOK(h3)
  BY <1>10, InsertQuiet DEF Quiet
<1>12. h3.item_lruq = h2.item_lruq /\ h3.slab_class = h2.slab_class /\ h3.hdr = h2.hdr
  BY <1>10 DEF assoc_insert, Check, HeapOK, HeapType
<1> HIDE DEF h3, m
<1>13. /\ h3.item_lruq = h.item_lruq /\ item_id(h3, it) \in Class
       /\ \A x \in Item : h3.hdr[x].atime = h.hdr[x].atime
  BY <1>2, <1>8, <1>9, <1>12 DEF item_id
<1>14. Tidy(h, h3)
  BY <1>13, OffTidy
<1>15. \A c \in Class : it \notin Elems(h3.item_lruq[c])
  BY <1>13, SoundQueues
<1>16. Tidy(h3, m)
  BY <1>1, <1>11, <1>13, <1>15, LinkQTidy
<1> QED
  BY <1>14, <1>16, TidyTrans DEF m

\* An in-place change of a value leaves the access time alone.
LEMMA RewriteTidy ==
    ASSUME NEW h, Sound(h, {}), NEW it \in Item, NEW n \in Nat
    PROVE  Tidy(h, item_rewrite(h, it, n))
<1> DEFINE g == [h EXCEPT !.hdr[it].nbyte = n]
           m == item_rewrite(h, it, n)
<1>1. h \in HeapType /\ h.hdr \in [Item -> ItemHdr]
  BY DEF Sound, HeapOK, HeapType
<1>2. m.item_lruq = h.item_lruq /\ g.hdr = [h.hdr EXCEPT ![it].nbyte = n]
  BY <1>1 DEF item_rewrite, item_next_cas, HeapType
<1>3. m.hdr = g.hdr \/ m.hdr = [g.hdr EXCEPT ![it].cas = h.cas_id + 1]
  BY <1>1 DEF item_rewrite, item_next_cas, HeapType
<1> HIDE DEF g, m
<1>4. \A x \in Item : m.hdr[x].atime = h.hdr[x].atime
  BY <1>1, <1>2, <1>3 DEF ItemHdr
<1>5. Tidy(h, m)
  BY <1>2, <1>4, OffTidy
<1> QED
  BY <1>5 DEF m
-----------------------------------------------------------------------------
\* slab_get: the items of the slab that it takes are in no lruq any more.
LEMMA SlabGetTidy ==
    ASSUME NEW h, Sound(h, {}), CountsOK(h), NEW id \in Class, h.free_item[id] = NoItem,
           NEW f \in BOOLEAN, NEW e \in Env(h, f)
    PROVE  Tidy(h, slab_get(h, id, e))
<1> DEFINE ok == h.free_item[id] = NoItem /\ h.free_itemq[id] = << >>
           h0 == Check(h, ok, "slab_get")
           m == slab_get(h, id, e)
<1>1. \/ \E p : m = Check(h0, p, "slab_table_rand")
      \/ /\ h.nslab < max_nslab
         /\ m = slab_add_one([h0 EXCEPT !.nslab = h.nslab + 1, !.utime[h.nslab + 1] = e.junk],
                             h.nslab + 1, id)
      \/ \E t \in 1..h.nslab : m = slab_add_one(slab_evict_one(h0, t), t, id)
  BY SlabGetCases DEF Sound
<1>2. Sound(m, {})
  BY SlabGetSound
<1> HIDE DEF ok, m
<1>3. HeapOK(h0) /\ Same(h, h0) /\ h0 \in HeapType
  BY CheckSame DEF AssertName, Sound, HeapOK
<1> HIDE DEF h0
<1>4. ASSUME NEW g, g \in HeapType, NEW s \in Slab, m = slab_add_one(g, s, id), g.hdr = h.hdr,
             \A c \in Class : \/ g.item_lruq[c] = h.item_lruq[c]
                              \/ \E R : g.item_lruq[c] = Without(h.item_lruq[c], R)
      PROVE  Tidy(h, m)
  <2>1. Added(g, m, s, id)
    BY <1>4, AddFields
  <2>2. m.item_lruq = g.item_lruq
    BY <2>1 DEF Added
  <2>3. h.item_lruq \in [Class -> Seq(Item)] /\ m.item_lruq \in [Class -> Seq(Item)]
    BY <1>2 DEF Sound, HeapOK, HeapType
  <2>4. ASSUME NEW c \in Class, NEW x \in Elems(m.item_lruq[c])
        PROVE  m.hdr[x].atime = h.hdr[x].atime
    <3>1. x \in Item
      BY <2>3 DEF Elems
    <3>2. item_is_linked(m, x)
      BY <1>2, <3>1, SoundQueues
    <3>3. m.flags[x] # {}
      BY <3>2 DEF item_is_linked
    <3>4. m.hdr[x] = g.hdr[x]
      BY <1>4, <3>1, <3>3 DEF slab_add_one, HeapType
    <3> QED
      BY <1>4, <3>4
  <2>5. \A c \in Class : \/ m.item_lruq[c] = h.item_lruq[c]
                         \/ \E R : m.item_lruq[c] = Without(h.item_lruq[c], R)
    BY <1>4, <2>2
  <2> QED
    BY <2>3, <2>4, <2>5, ThinTidy
<1>5. CASE \E p : m = Check(h0, p, "slab_table_rand")
  <2>1. PICK p : m = Check(h0, p, "slab_table_rand")
    BY <1>5
  <2>2. Same(h0, m)
    BY <1>3, <2>1, CheckSame DEF AssertName
  <2>3. m.item_lruq = h.item_lruq /\ m.hdr = h.hdr
    BY <1>3, <2>2 DEF Same
  <2>4. h.item_lruq \in [Class -> Seq(Item)]
    BY DEF Sound, HeapOK, HeapType
  <2> QED
    BY <2>3, <2>4, SameTidy DEF m
<1>6. CASE /\ h.nslab < max_nslab
           /\ m = slab_add_one([h0 EXCEPT !.nslab = h.nslab + 1, !.utime[h.nslab + 1] = e.junk],
                               h.nslab + 1, id)
  <2> DEFINE s == h.nslab + 1
             g == [h0 EXCEPT !.nslab = s, !.utime[s] = e.junk]
  <2>0. e.junk \in Nat
    BY SlabAssumption DEF Env
  <2>1. e.junk \in Nat /\ h.nslab \in Nat /\ max_nslab \in Nat
    BY <2>0, SlabAssumption DEF Sound, HeapOK, HeapType
  <2>2. s \in Slab
    BY <1>6, <2>1 DEF Slab
  <2>3. g \in HeapType /\ g.hdr = h.hdr /\ g.item_lruq = h.item_lruq
    <3>1. s \in 0..max_nslab
      BY <2>2, SlabAssumption DEF Slab
    <3>2. [h0.utime EXCEPT ![s] = e.junk] \in [Slab -> Nat]
      BY <1>3, <2>1 DEF HeapType
    <3> HIDE DEF s
    <3> QED
      BY <1>3, <3>1, <3>2 DEF HeapType, Same
  <2>4. m = slab_add_one(g, s, id)
    BY <1>6
  <2> HIDE DEF g, s
  <2> QED
    BY <1>4, <2>2, <2>3, <2>4 DEF m
<1>7. CASE \E t \in 1..h.nslab : m = slab_add_one(slab_evict_one(h0, t), t, id)
  <2>1. PICK t \in 1..h.nslab : m = slab_add_one(slab_evict_one(h0, t), t, id)
    BY <1>7
  <2>2. t \in Slab /\ t \in 1..h0.nslab
    BY <1>3, LiveItems DEF Sound, Same
  <2> DEFINE g == slab_evict_one(h0, t)
             linked == {it \in slab_items(h0, t) : item_is_linked(h0, it)}
  <2>3. g \in HeapType
    BY <1>3, <2>2, EvictQuiet DEF Quiet, HeapOK
  <2>4. /\ g.hdr = h0.hdr
        /\ g.item_lruq = [h0.item_lruq EXCEPT ![h0.slab_class[t]] = Without(@, linked)]
    BY <1>3 DEF slab_evict_one, Check, HeapType
  <2> HIDE DEF g, linked
  <2>5. \A c \in Class : \/ g.item_lruq[c] = h.item_lruq[c]
                         \/ \E R : g.item_lruq[c] = Without(h.item_lruq[c], R)
    BY <1>3, <2>4 DEF Same, HeapType
  <2> QED
    BY <1>3, <1>4, <2>1, <2>2, <2>3, <2>4, <2>5 DEF Same, g, m
<1> QED
  BY <1>1, <1>5, <1>6, <1>7

\* slab_get_item: handing an item out does not touch the lruqs.
LEMMA SlabItemTidy ==
    ASSUME NEW h, Sound(h, {}), CountsOK(h), NEW id \in Class, NEW f \in BOOLEAN, NEW e \in Env(h, f)
    PROVE  Tidy(h, slab_get_item(h, id, e).mem)
<1> DEFINE m == slab_get_item(h, id, e).mem
<1>1. HeapOK(h)
  BY DEF Sound
<1>2. CASE use_freeq /\ h.free_itemq[id] # << >>
  <2>1. m = slab_get_item_from_freeq(h, id).mem
    BY <1>2 DEF slab_get_item
  <2>2. m.item_lruq = h.item_lruq /\ m.hdr = h.hdr
    BY <1>1, <2>1 DEF slab_get_item_from_freeq, Check, HeapOK, HeapType
  <2>3. h.item_lruq \in [Class -> Seq(Item)]
    BY <1>1 DEF HeapOK, HeapType
  <2> QED
    BY <2>2, <2>3, SameTidy
<1>3. CASE ~(use_freeq /\ h.free_itemq[id] # << >>)
  <2> DEFINE g == IF h.free_item[id] = NoItem THEN slab_get(h, id, e) ELSE h
  <2>1. m = slab_next_item(g, id).mem
    BY <1>3 DEF slab_get_item
  <2>2. Tidy(h, g) /\ Sound(g, {})
    <3>1. CASE h.free_item[id] = NoItem
      BY <3>1, SlabGetTidy, SlabGetSound
    <3>2. CASE h.free_item[id] # NoItem
      BY <3>2 DEF Tidy
    <3> QED
      BY <3>1, <3>2
  <2> HIDE DEF g
  <2>3. m.item_lruq = g.item_lruq /\ m.hdr = g.hdr
    BY <2>1, <2>2 DEF slab_next_item, Sound, HeapOK, HeapType
  <2>4. g.item_lruq \in [Class -> Seq(Item)]
    BY <2>2 DEF Sound, HeapOK, HeapType
  <2> HIDE DEF m
  <2>5. Tidy(g, m)
    BY <2>3, <2>4, SameTidy
  <2> QED
    BY <2>2, <2>5, TidyTrans DEF m
<1> QED
  BY <1>2, <1>3

\* item_obtain: what it takes out of the lruqs leaves the rest in order.
LEMMA ObtainTidy ==
    ASSUME NEW h, Sound(h, {}), CountsOK(h), NEW id \in Class, NEW f \in BOOLEAN, NEW e \in Env(h, f)
    PROVE  Tidy(h, item_obtain(h, id, e).mem)
<1> DEFINE lit == item_get_from_lruq(h, id)
           sg  == slab_get_item(h, id, e)
           r   == item_obtain(h, id, e)
<1>1. lit # NoItem => lit \in Item /\ item_is_linked(h, lit) /\ h.refcount[lit] = 0
  BY LruqFinds
<1>2. Handed(h, sg, id) /\ (sg.it = NoItem => Same(h, sg.mem)) /\ Tidy(h, sg.mem)
  BY SlabItemSound, SlabItemTidy
<1>3. \/ r.mem = sg.mem
      \/ lit # NoItem /\ r.mem = item_reuse(h, lit)
      \/ lit # NoItem /\ sg.it = NoItem /\ r.mem = item_reuse(sg.mem, lit)
  BY DEF item_obtain, item_choose
<1> HIDE DEF lit, sg, r
<1>4. lit # NoItem => Tidy(h, item_reuse(h, lit))
  BY <1>1, ReuseTidy
<1>5. ASSUME lit # NoItem, sg.it = NoItem
      PROVE  Tidy(sg.mem, item_reuse(sg.mem, lit))
  <2>1. Same(h, sg.mem) /\ Sound(sg.mem, {})
    BY <1>2, <1>5 DEF Handed
  <2>2. lit \in Item /\ item_is_linked(sg.mem, lit) /\ sg.mem.refcount[lit] = 0
    BY <1>1, <1>5, <2>1 DEF Same, item_is_linked
  <2> QED
    BY <2>1, <2>2, ReuseTidy
<1>6. Tidy(h, r.mem)
  BY <1>2, <1>3, <1>4, <1>5, TidyTrans
<1> QED
  BY <1>6 DEF r

\* item_alloc: the item it returns, whose header it resets, is in no lruq.
LEMMA AllocTidy ==
    ASSUME NEW h, Sound(h, {}), CountsOK(h), NEW id \in Class, NEW key, NEW exptime, NEW nbyte,
           NEW f \in BOOLEAN, NEW e \in Env(h, f)
    PROVE  Tidy(h, item_alloc(h, id, key, exptime, nbyte, e).mem)
<1> DEFINE got == item_obtain(h, id, e)
           it  == got.it
           g   == got.mem
           r   == item_alloc(h, id, key, exptime, nbyte, e)
<1>1. Handed(h, got, id) /\ Tidy(h, g)
  BY ObtainSound, ObtainTidy
<1>2. r = item_init(got, id, key, exptime, nbyte)
  BY DEF item_alloc
<1> HIDE DEF got, r
<1>3. CASE it = NoItem
  <2>1. r = got
    BY <1>2, <1>3 DEF item_init
  <2> QED
    BY <1>1, <2>1 DEF r
<1>4. CASE it # NoItem
  <2> DEFINE ok == /\ item_id(g, it) = id
                   /\ ~item_is_linked(g, it)
                   /\ ~item_is_slabbed(g, it)
                   /\ g.refcount[it] = 0
             x  == [key |-> key, nbyte |-> nbyte, exptime |-> exptime,
                    atime |-> 0, cas |-> 0]
             a  == item_acquire_refcount(Check(g, ok, "item_alloc"), it)
             m  == [a EXCEPT !.flags[it] = {}, !.hdr[it] = x]
  <2>1. it \in Item /\ Sound(g, {it})
    BY <1>1, <1>4 DEF Handed
  <2>2. ~item_is_linked(g, it) /\ g \in HeapType
    BY <2>1 DEF Sound, Whereabouts, HeapOK
  <2>3. r.mem = m
    BY <1>2, <1>4 DEF item_init
  <2> HIDE DEF ok, x
  <2>4. a.item_lruq = g.item_lruq /\ a.hdr = g.hdr
    BY <2>2 DEF item_acquire_refcount, slab_acquire_refcount, Check, HeapType
  <2>5. m.item_lruq = a.item_lruq /\ m.hdr = [a.hdr EXCEPT ![it] = x]
    BY <2>2 DEF item_acquire_refcount, slab_acquire_refcount, Check, HeapType
  <2> HIDE DEF a, m, g, it
  <2>6. g.hdr \in [Item -> ItemHdr]
    BY <2>2 DEF HeapType
  <2>7. m.item_lruq = g.item_lruq /\ \A y \in Item : y # it => m.hdr[y].atime = g.hdr[y].atime
    BY <2>4, <2>5, <2>6
  <2>8. Tidy(g, m)
    BY <2>1, <2>2, <2>7, OffTidy
  <2> QED
    BY <1>1, <2>3, <2>8, TidyTrans DEF r, g
<1> QED
  BY <1>3, <1>4

-----------------------------------------------------------------------------
\* item_relink.
LEMMA RelinkTidy ==
    ASSUME NEW h, Sound(h, {}), now \in Nat,
           NEW it \in Item, item_is_linked(h, it), h.refcount[it] > 0,
           NEW nit \in Item, ~item_is_linked(h, nit), h.refcount[nit] > 0
    PROVE  Tidy(h, item_relink(h, it, nit))
<1> DEFINE ok == ~item_is_slabbed(h, it) /\ ~item_is_slabbed(h, nit)
           g == item_unlink(h, it)
           m == item_relink(h, it, nit)
<1>1. HeapOK(h) /\ ok /\ nit # it
  BY InUse, CountTypes DEF Sound, ItemOK
<1>2. Check(h, ok, "item_relink") = h
  BY <1>1, CheckSame DEF AssertName
<1>3. m = item_link(g, nit)
  BY <1>2 DEF item_relink
<1> HIDE DEF m
<1>4. Sound(g, {}) /\ g.refcount = h.refcount /\ Apart(h, g, it) /\ Tidy(h, g)
  BY UnlinkSound, UnlinkTidy
<1> HIDE DEF g
<1>5. g.refcount[nit] > 0 /\ ~item_is_linked(g, nit)
  BY <1>1, <1>4 DEF Apart, item_is_linked
<1>6. Tidy(g, m)
  BY <1>3, <1>4, <1>5, LinkTidy
<1> QED
  BY <1>4, <1>6, TidyTrans DEF m

\* A found item is replaced by another and released.
LEMMA SupplantTidy ==
    ASSUME NEW g, Sound(g.mem, {}), now \in Nat,
           g.it \in Item, item_is_linked(g.mem, g.it), g.mem.refcount[g.it] > 0,
           NEW it \in Item, ~item_is_linked(g.mem, it), g.mem.refcount[it] > 0,
           g.mem.hdr[it].key = g.mem.hdr[g.it].key
    PROVE  Tidy(g.mem, item_supplant(g, it))
<1> DEFINE h == g.mem
           a == item_relink(h, g.it, it)
           m == item_supplant(g, it)
<1>1. Sound(a, {}) /\ Tidy(h, a)
  BY RelinkSound, RelinkTidy
<1>2. m = item_remove(a, g.it)
  BY DEF item_supplant
<1> HIDE DEF a, m
<1>3. Tidy(a, m)
  BY <1>1, <1>2, RemoveTidy
<1>4. Tidy(h, m)
  BY <1>1, <1>3, TidyTrans
<1> QED
  BY <1>4 DEF m, h

\* set, add, replace and cas.
LEMMA StoreTidy ==
    ASSUME NEW h, Sound(h, {}), Ready(h), NEW it \in Item,
           h.refcount[it] > 0, ~item_is_linked(h, it)
    PROVE  /\ Tidy(h, item_set(h, it)) /\ Tidy(h, item_cas(h, it))
           /\ Tidy(h, item_add(h, it)) /\ Tidy(h, item_replace(h, it))
<1> DEFINE k == h.hdr[it].key
           g == item_get(h, k)
           r == g.mem
<1>1. k \in Key /\ now \in Nat
  BY DEF Sound, ItemOK, Ready
<1>2. /\ item_set(h, it) = IF g.it = NoItem THEN item_link(r, it) ELSE item_supplant(g, it)
      /\ item_cas(h, it) \in IF g.it = NoItem THEN {r}
                              ELSE {item_remove(r, g.it), item_supplant(g, it)}
      /\ item_add(h, it) = IF g.it = NoItem THEN item_link(r, it) ELSE item_remove(r, g.it)
      /\ item_replace(h, it) = IF g.it = NoItem THEN r ELSE item_supplant(g, it)
  BY DEF item_set, item_cas, item_add, item_replace
<1>3. /\ Good(h, r, {}) /\ r.refcount[it] > 0 /\ ~item_is_linked(r, it)
      /\ r.hdr[it].key = k
      /\ g.it # NoItem => /\ g.it \in Item /\ item_is_linked(r, g.it)
                          /\ r.hdr[g.it].key = k /\ r.refcount[g.it] > 0
  <2> HIDE DEF k
  <2>1. h.hdr[it].key = k
    BY DEF k
  <2> QED
    BY <1>1, <2>1, LookupSound
<1>4. Tidy(h, r)
  <2> HIDE DEF k
  <2> QED
    BY <1>1, GetTidy
<1> HIDE DEF k, g
<1>5. Sound(r, {})
  BY <1>3 DEF Good
<1>6. Tidy(h, item_link(r, it))
  <2> HIDE DEF r
  <2>1. Tidy(r, item_link(r, it))
    BY <1>1, <1>3, <1>5, LinkTidy
  <2> QED
    BY <1>4, <2>1, TidyTrans
<1>7. g.it # NoItem => Tidy(h, item_supplant(g, it)) /\ Tidy(h, item_remove(r, g.it))
  <2> SUFFICES ASSUME g.it # NoItem
               PROVE  Tidy(h, item_supplant(g, it)) /\ Tidy(h, item_remove(r, g.it))
    OBVIOUS
  <2>1. Tidy(r, item_supplant(g, it))
    BY <1>1, <1>3, <1>5, SupplantTidy
  <2>2. Tidy(r, item_remove(r, g.it))
    BY <1>3, <1>5, RemoveTidy
  <2> HIDE DEF r
  <2> QED
    BY <1>4, <2>1, <2>2, TidyTrans
<1> QED
  BY <1>2, <1>4, <1>6, <1>7

\* An item found by a lookup, rewritten in place or not, is released.
LEMMA ReleaseTidy ==
    ASSUME NEW g, Sound(g, {}), NEW it \in Item, g.refcount[it] > 0, NEW n \in Nat
    PROVE  Tidy(g, item_remove(g, it)) /\ Tidy(g, item_remove(item_rewrite(g, it, n), it))
<1> DEFINE a == item_rewrite(g, it, n)
<1>1. Sound(a, {}) /\ Tidy(g, a)
  BY RewriteSound, RewriteTidy
<1> HIDE DEF a
<1>2. Tidy(a, item_remove(a, it)) /\ Tidy(g, item_remove(g, it))
  BY <1>1, RemoveTidy
<1>3. Tidy(g, item_remove(a, it))
  BY <1>1, <1>2, TidyTrans
<1> QED
  BY <1>2, <1>3 DEF a

\* A value moved to a new item.
LEMMA RegrowTidy ==
    ASSUME NEW h, Ready(h), NEW g, NEW oit, Plus(h, g, oit), Room(g, 1),
           Sound(g, {}), item_is_linked(g, oit),
           NEW id \in Class, NEW nbyte \in Nat, NEW flags \in SUBSET {"RALIGN"},
           NEW f \in BOOLEAN, NEW e \in Env(g, f)
    PROVE  Tidy(g, item_regrow(g, oit, id, nbyte, flags, e))
<1> DEFINE k  == g.hdr[oit].key
           x  == g.hdr[oit].exptime
           a  == item_alloc(g, id, k, x, nbyte, e)
           nit == a.it
           b  == a.mem
           c  == [b EXCEPT !.flags[nit] = @ \cup flags]
           d  == item_relink(c, oit, nit)
           d1 == item_remove(d, oit)
           r  == item_regrow(g, oit, id, nbyte, flags, e)
<1>1. /\ HeapOK(h) /\ now \in Nat /\ HeapOK(g) /\ CountsOK(g)
      /\ oit \in Live(g) /\ oit \in Item /\ g.refcount[oit] > 0
  BY PlusFacts DEF Ready
<1>2. k \in Key /\ k \in MaybeKey /\ x \in Nat
  BY <1>1, HdrFields, 0 \in Nat DEF Sound, HashOK, MaybeKey
<1>3. r = IF nit = NoItem THEN item_remove(b, oit) ELSE item_remove(d1, nit)
  BY DEF item_regrow, item_swap
<1>4. Got(g, a)
  BY <1>1, <1>2, AllocGot
<1>5. /\ Sound(b, {}) /\ Spares(g, b) /\ Tidy(g, b)
      /\ nit # NoItem => /\ nit \in Item /\ g.refcount[nit] = 0
                         /\ b.flags[nit] = {} /\ b.hdr[nit].key = k
  <2> HIDE DEF k, x
  <2> QED
    BY <1>1, <1>2, AllocSound, AllocTidy
<1> HIDE DEF a, r
<1>6. /\ item_is_linked(b, oit) /\ b.hdr[oit].key = k
  BY <1>1, <1>5 DEF Spares, item_is_linked
<1>7. CASE nit = NoItem
  <2> HIDE DEF b, nit
  <2>1. Tidy(b, r)
    BY <1>1, <1>3, <1>5, <1>7, RemoveTidy
  <2> QED
    BY <1>5, <2>1, TidyTrans DEF r
<1>8. CASE nit # NoItem
  <2>1. Plus(g, b, nit)
    BY <1>4, <1>8 DEF Got
  <2>2. HeapOK(b) /\ CountsOK(b) /\ nit \in Live(b) /\ nit \in Item /\ b.refcount[nit] > 0
    BY <1>1, <2>1, PlusFacts
  <2>3. b.refcount[oit] = g.refcount[oit] /\ oit # nit
    BY <1>1, <1>5, <1>8, <2>1, CountTypes DEF Plus
  <2> HIDE DEF b, nit, d1
  <2>4. ~item_is_linked(b, nit)
    BY <1>5, <1>8 DEF item_is_linked
  <2>5. /\ Good(b, c, {nit}) /\ Quiet(b, c) /\ c.hdr = b.hdr
        /\ ~item_is_linked(c, nit)
        /\ \A y \in Item : y # nit => c.flags[y] = b.flags[y]
    <3>1. Marked(b, c, nit)
      BY DEF Marked
    <3>2. Sound(b, {}) /\ nit \in Item /\ b.refcount[nit] > 0
      BY <1>5, <2>2
    <3> HIDE DEF c, a, k, x, r
    <3> QED
      BY <2>4, <3>1, <3>2, RalignSound
  <2>6. c.item_lruq = b.item_lruq
    BY <2>2 DEF HeapOK, HeapType
  <2> HIDE DEF c
  <2>7. Tidy(b, c)
    BY <1>5, <2>2, <2>5, <2>6, OffTidy
  <2>8. /\ c.refcount = b.refcount /\ item_is_linked(c, oit)
        /\ c.hdr[nit].key = c.hdr[oit].key
    BY <1>1, <1>5, <1>6, <1>8, <2>3, <2>5 DEF Quiet, item_is_linked
  <2>9. Sound(c, {}) /\ c.refcount[oit] > 0 /\ c.refcount[nit] > 0
    BY <1>1, <2>2, <2>3, <2>5, <2>8 DEF Good
  <2>10. Tidy(c, d) /\ Sound(d, {})
    BY <1>1, <2>2, <2>5, <2>8, <2>9, RelinkSound, RelinkTidy
  <2>11. Quiet(c, d) /\ HeapOK(c)
    BY <1>1, <2>2, <2>5, <2>8, <2>9, RelinkSound DEF Sound
  <2> HIDE DEF d
  <2>12. d.refcount = b.refcount /\ HeapOK(d)
    BY <2>8, <2>10, <2>11 DEF Quiet, Sound
  <2>13. Plus(g, d, nit)
    BY <1>1, <2>1, <2>2, <2>5, <2>11, PlusQuiet
  <2>14. CountsOK(d) /\ d.refcount[oit] > 0
    BY <1>1, <2>3, <2>12, <2>13, PlusFacts
  <2>15. Tidy(d, d1) /\ Sound(d1, {})
    BY <1>1, <2>10, <2>14, RemoveSound, RemoveTidy DEF d1
  <2>16. Tidy(d1, r)
    BY <1>3, <1>8, <2>2, <2>15, RemoveTidy
  <2>17. Tidy(g, c) /\ Tidy(c, d1)
    BY <1>5, <2>7, <2>10, <2>15, TidyTrans
  <2> QED
    BY <2>16, <2>17, TidyTrans DEF r
<1> QED
  BY <1>7, <1>8

\* append and prepend.
LEMMA AnnexTidy ==
    ASSUME NEW h, Sound(h, {}), Ready(h), NEW it \in Item, h.refcount[it] > 0,
           NEW append \in BOOLEAN, NEW f \in BOOLEAN, NEW e \in Env(h, f)
    PROVE  Tidy(h, item_annex(h, it, append, e))
<1> DEFINE k     == h.hdr[it].key
           g     == item_get(h, k)
           m     == g.mem
           oit   == g.it
           total == m.hdr[oit].nbyte + m.hdr[it].nbyte
           id    == item_slabid(total)
           flags == IF append THEN {} ELSE {"RALIGN"}
           r     == item_annex(h, it, append, e)
<1>1. HeapOK(h) /\ k \in Key
  BY CountTypes DEF Ready, Sound, ItemOK
<1>2. IF oit = NoItem THEN r = m
      ELSE \/ r = item_remove(m, oit)
           \/ id # 0 /\ r = item_remove(item_rewrite(m, oit, total), oit)
           \/ id # 0 /\ r = item_regrow(m, oit, id, total, flags, e)
  BY DEF item_annex
<1>3. /\ Good(h, m, {}) /\ HeapOK(m)
      /\ oit # NoItem => /\ oit \in Item /\ item_is_linked(m, oit)
                         /\ m.refcount[oit] > 0 /\ item_is_linked(h, oit)
                         /\ Plus(h, m, oit) /\ Room(m, 1)
  <2> HIDE DEF k
  <2> QED
    BY <1>1, LookupSound
<1>4. Tidy(h, m)
  <2> HIDE DEF k
  <2> QED
    BY <1>1, GetTidy
<1> HIDE DEF k, r, g
<1>5. CASE oit = NoItem
  BY <1>2, <1>4, <1>5 DEF r
<1>6. CASE oit # NoItem
  <2> HIDE DEF m, oit
  <2>1. total \in Nat
    <3>1. m.hdr[oit].nbyte \in Nat /\ m.hdr[it].nbyte \in Nat
      BY <1>3, <1>6, HdrFields, 0 \in Nat
    <3> QED
      BY <3>1
  <2>2. id # 0 => id \in Class
    BY <2>1, SlabidClass
  <2>3. flags \in SUBSET {"RALIGN"}
    OBVIOUS
  <2>4. e \in Env(m, f)
    <3>1. oit \in Live(h)
      BY <1>3, <1>6, InUse
    <3> QED
      BY <1>1, <1>3, <1>6, <3>1, EnvGrows DEF Plus
  <2> HIDE DEF total, id, flags
  <2>5. Sound(m, {})
    BY <1>3 DEF Good
  <2>6. Tidy(m, item_remove(m, oit)) /\ Tidy(m, item_remove(item_rewrite(m, oit, total), oit))
    BY <1>3, <1>6, <2>1, <2>5, ReleaseTidy
  <2>7. id # 0 => Tidy(m, item_regrow(m, oit, id, total, flags, e))
    BY <1>3, <1>6, <2>1, <2>2, <2>3, <2>4, <2>5, RegrowTidy
  <2>8. Tidy(m, r)
    BY <1>2, <1>6, <2>6, <2>7
  <2> QED
    BY <1>4, <2>8, TidyTrans DEF r
<1> QED
  BY <1>5, <1>6

\* incr and decr.
LEMMA DeltaTidy ==
    ASSUME NEW h, Sound(h, {}), Ready(h), NEW k \in Key, NEW numeric \in BOOLEAN, NEW res \in Nat,
           item_slabid(res) # 0, NEW f \in BOOLEAN, NEW e \in Env(h, f)
    PROVE  Tidy(h, item_delta(h, k, numeric, res, e))
<1> DEFINE g  == item_get(h, k)
           m  == g.mem
           it == g.it
           id == item_slabid(res)
           r  == item_delta(h, k, numeric, res, e)
<1>1. HeapOK(h)
  BY DEF Ready
<1>2. /\ Good(h, m, {}) /\ HeapOK(m)
      /\ it # NoItem => /\ it \in Item /\ item_is_linked(m, it)
                        /\ m.refcount[it] > 0 /\ item_is_linked(h, it)
                        /\ Plus(h, m, it) /\ Room(m, 1)
  BY LookupSound
<1>3. Check(m, id # 0, "item_delta") = m
  BY <1>2, CheckSame DEF AssertName
<1>4. IF it = NoItem THEN r = m
      ELSE \/ r = item_remove(m, it)
           \/ r = item_regrow(m, it, id, res, {}, e)
           \/ r = item_remove(item_rewrite(m, it, res), it)
  <2>1. IF it = NoItem THEN r = m
        ELSE \/ r = item_remove(m, it)
             \/ r = item_regrow(Check(m, id # 0, "item_delta"), it, id, res, {}, e)
             \/ r = item_remove(item_rewrite(m, it, res), it)
    BY DEF item_delta
  <2> HIDE DEF r, g, id
  <2> QED
    BY <1>3, <2>1
<1>5. Tidy(h, m)
  BY GetTidy
<1> HIDE DEF g, r
<1>6. CASE it = NoItem
  BY <1>4, <1>5, <1>6 DEF r
<1>7. CASE it # NoItem
  <2> HIDE DEF m, it
  <2>1. id \in Class
    BY SlabidClass
  <2>2. {} \in SUBSET {"RALIGN"}
    OBVIOUS
  <2>3. e \in Env(m, f)
    <3>1. it \in Live(h)
      BY <1>2, <1>7, InUse
    <3> QED
      BY <1>1, <1>2, <1>7, <3>1, EnvGrows DEF Plus
  <2> HIDE DEF id
  <2>4. Sound(m, {})
    BY <1>2 DEF Good
  <2>5. Tidy(m, item_remove(m, it)) /\ Tidy(m, item_remove(item_rewrite(m, it, res), it))
    BY <1>2, <1>7, <2>4, ReleaseTidy
  <2>6. Tidy(m, item_regrow(m, it, id, res, {}, e))
    BY <1>2, <1>7, <2>1, <2>2, <2>3, <2>4, RegrowTidy
  <2>7. Tidy(m, r)
    BY <1>4, <1>7, <2>5, <2>6
  <2> QED
    BY <1>5, <2>7, TidyTrans DEF r
<1> QED
  BY <1>6, <1>7

\* delete.
LEMMA DeleteTidy ==
    ASSUME NEW h, Sound(h, {}), Ready(h), NEW k \in Key
    PROVE  Tidy(h, item_delete(h, k))
<1> DEFINE g == item_get(h, k)
           m == g.mem
           it == g.it
           a == item_unlink(m, it)
           r == item_delete(h, k)
<1>1. r = IF it = NoItem THEN m ELSE item_remove(a, it)
  BY DEF item_delete
<1>2. /\ Good(h, m, {})
      /\ it # NoItem => it \in Item /\ item_is_linked(m, it) /\ m.refcount[it] > 0
  BY LookupSound
<1>3. Tidy(h, m)
  BY GetTidy
<1> HIDE DEF g, r
<1>4. CASE it = NoItem
  BY <1>1, <1>3, <1>4 DEF r
<1>5. CASE it # NoItem
  <2> HIDE DEF m, it
  <2>1. Sound(m, {})
    BY <1>2 DEF Good
  <2>2. Sound(a, {}) /\ Tidy(m, a)
    BY <1>2, <1>5, <2>1, UnlinkSound, UnlinkTidy
  <2> HIDE DEF a
  <2>3. Tidy(a, r)
    BY <1>1, <1>2, <1>5, <2>2, RemoveTidy
  <2> QED
    BY <1>3, <2>2, <2>3, TidyTrans DEF r
<1> QED
  BY <1>4, <1>5

\* A flush takes items out of the lruqs, and resets only the headers of those.
LEMMA FlushTidy ==
    ASSUME NEW h, Sound(h, {})
    PROVE  Tidy(h, item_flush_expired(h))
<1> DEFINE m == item_flush_expired(h)
<1>1. CASE m = h
  BY <1>1 DEF Tidy
<1>2. CASE m # h
  <2>1. HeapOK(h) /\ h.item_lruq \in [Class -> Seq(Item)]
    BY DEF Sound, HeapOK, HeapType
  <2> HIDE DEF m
  <2>2. PICK all, freed : freed = {x \in all : h.refcount[x] = 0} /\ Flushed(h, m, all, freed)
    BY <1>2, <2>1, FlushFields DEF m
  <2>3. \A id \in Class : \/ m.item_lruq[id] = h.item_lruq[id]
                          \/ \E R : m.item_lruq[id] = Without(h.item_lruq[id], R)
    BY <2>2 DEF Flushed
  <2>4. ASSUME NEW id \in Class, NEW x \in Elems(m.item_lruq[id])
        PROVE  m.hdr[x].atime = h.hdr[x].atime
    <3>1. h.item_lruq[id] \in Seq(Item) /\ x \in Elems(Without(h.item_lruq[id], all))
      BY <2>1, <2>2 DEF Flushed
    <3>2. x \in Item /\ x \notin all
      <4>1. x \in Elems(h.item_lruq[id]) /\ x \notin all
        BY <3>1, WithoutProperties
      <4> QED
        BY <3>1, <4>1 DEF Elems
    <3> QED
      BY <2>2, <3>2 DEF Flushed
  <2> QED
    BY <2>1, <2>3, <2>4, ThinTidy DEF m
<1> QED
  BY <1>1, <1>2

-----------------------------------------------------------------------------
(***************************************************************************)
(* The steps of the connections keep the order.                            *)
(***************************************************************************)

\* The start of a storage command.
LEMMA StartTidy ==
    ASSUME Consistent, NEW c \in Conn, asc_process_update(c) \/ asc_process_annex(c)
    PROVE  Tidy(mem, mem')
<1> DEFINE f == "malloc" \in Faults
<1>1. CountsOK(mem) /\ Room(mem, 1) /\ Sound(mem, {}) /\ now \in Nat
  BY InvFacts, RoomAfter DEF Consistent, Ready
<1>2. CASE asc_process_update(c)
  <2>1. PICK k \in Key, n \in NByte, x \in Ttl, e \in MemEnv,
             q \in Request \ {"append", "prepend"}, v \in 0..mem.cas_id :
          /\ item_slabid(n) # 0
          /\ LET a == item_alloc(mem, item_slabid(n), k, time_reltime(now, x), n, e)
             IN  mem' = IF a.it # NoItem /\ q = "cas" /\ UseCas
                        THEN [a.mem EXCEPT !.hdr[a.it].cas = v] ELSE a.mem
    BY <1>2 DEF asc_process_update
  <2> DEFINE id == item_slabid(n)
             t == time_reltime(now, x)
             a == item_alloc(mem, id, k, t, n, e)
  <2>2. n \in Nat /\ id \in Class /\ t \in Nat
    <3>1. n \in Nat /\ x \in Int /\ x + TimeMod >= 0
      BY CacheAssumption
    <3> QED
      BY <1>1, <2>1, <3>1, SlabidClass, ReltimeNat
  <2>3. e \in Env(mem, f) /\ f \in BOOLEAN
    BY DEF MemEnv
  <2>4. mem' = a.mem \/ (a.it # NoItem /\ mem' = [a.mem EXCEPT !.hdr[a.it].cas = v])
    BY <2>1
  <2> HIDE DEF f, id, t
  <2>5. Tidy(mem, a.mem)
    BY <1>1, <2>2, <2>3, AllocTidy
  <2>6. Sound(a.mem, {}) /\ (a.it # NoItem => a.it \in Item)
    BY <1>1, <2>2, <2>3, AllocSound
  <2> HIDE DEF a
  <2>7. CASE mem' = a.mem
    BY <2>5, <2>7
  <2>8. CASE a.it # NoItem /\ mem' = [a.mem EXCEPT !.hdr[a.it].cas = v]
    <3> DEFINE h == a.mem
               it == a.it
    <3>1. it \in Item /\ Sound(h, {}) /\ mem' = [h EXCEPT !.hdr[it].cas = v]
      BY <2>6, <2>8
    <3> HIDE DEF h, it
    <3>2. mem'.item_lruq = h.item_lruq /\ mem'.hdr = [h.hdr EXCEPT ![it].cas = v]
      BY <3>1 DEF Sound, HeapOK, HeapType
    <3>3. h.hdr \in [Item -> ItemHdr]
      BY <3>1 DEF Sound, HeapOK, HeapType
    <3>4. \A y \in Item : mem'.hdr[y].atime = h.hdr[y].atime
      BY <3>2, <3>3 DEF ItemHdr
    <3>5. Sound(h, {}) /\ it \in Item
      BY <3>1
    <3> DEFINE m == mem'
    <3>6. m.item_lruq = h.item_lruq
      BY <3>2
    <3>7. \A y \in Item : ~(y = it /\ ~item_is_linked(h, it)) => m.hdr[y].atime = h.hdr[y].atime
      BY <3>4
    <3> HIDE DEF m
    <3>8. Tidy(h, m)
      BY <3>5, <3>6, <3>7, OffTidy
    <3> QED
      BY <2>5, <3>8, TidyTrans DEF h, m
  <2> QED
    BY <2>4, <2>7, <2>8
<1>3. CASE asc_process_annex(c)
  <2>1. PICK k \in Key, n \in NByte, e \in MemEnv :
          /\ item_slabid(n) # 0
          /\ mem' = item_alloc(mem, item_slabid(n), k, 0, n, e).mem
    BY <1>3 DEF asc_process_annex
  <2>2. n \in Nat
    BY CacheAssumption
  <2>3. item_slabid(n) \in Class
    BY <2>1, <2>2, SlabidClass
  <2>4. e \in Env(mem, f) /\ f \in BOOLEAN
    BY DEF MemEnv
  <2> HIDE DEF f
  <2> QED
    BY <1>1, <2>1, <2>3, <2>4, AllocTidy
<1> QED
  BY <1>2, <1>3

\* The end of a storage command.
LEMMA CompleteTidy ==
    ASSUME Consistent, NEW c \in Conn, asc_complete_nread(c)
    PROVE  Tidy(mem, mem')
<1> DEFINE it == hold[c][0]
           f  == "malloc" \in Faults
<1>1. Inv /\ Ready(mem) /\ 0 \in Slot /\ Sound(mem, {})
  BY InvFacts DEF Consistent
<1>2. it # NoItem /\ ~item_is_linked(mem, it)
  BY DEF asc_complete_nread, Consistent, NreadPrivate, item_is_linked
<1>3. it \in Item /\ mem.refcount[it] > 0
  BY <1>1, <1>2, InvFacts
<1>4. \/ mem' \in {item_set(mem, it), item_cas(mem, it), item_add(mem, it),
                    item_replace(mem, it), mem}
      \/ \E e \in MemEnv, append \in BOOLEAN : mem' = item_annex(mem, it, append, e)
  BY DEF asc_complete_nread
<1> HIDE DEF it
<1>5. ASSUME NEW e \in MemEnv, NEW append \in BOOLEAN, mem' = item_annex(mem, it, append, e)
      PROVE  Tidy(mem, mem')
  <2>1. e \in Env(mem, f) /\ f \in BOOLEAN
    BY DEF MemEnv
  <2> HIDE DEF f
  <2> QED
    BY <1>1, <1>3, <1>5, <2>1, AnnexTidy
<1>6. CASE mem' \in {item_set(mem, it), item_cas(mem, it), item_add(mem, it),
                     item_replace(mem, it)}
  BY <1>1, <1>2, <1>3, <1>6, StoreTidy
<1>7. CASE mem' = mem
  BY <1>7 DEF Tidy
<1> QED
  BY <1>4, <1>5, <1>6, <1>7

\* incr and decr, delete, and the deletion after a failed allocation.
LEMMA ChangeTidy ==
    ASSUME Consistent, NEW c \in Conn,
           asc_process_delta(c) \/ asc_process_delete(c) \/ oom_delete(c)
    PROVE  Tidy(mem, mem')
<1>1. Ready(mem) /\ Sound(mem, {})
  BY InvFacts DEF Consistent
<1>2. CASE asc_process_delta(c)
  <2>1. PICK k \in Key, numeric \in BOOLEAN, res \in Digits, e \in MemEnv :
          mem' = item_delta(mem, k, numeric, res, e)
    BY <1>2 DEF asc_process_delta
  <2> DEFINE f == "malloc" \in Faults
  <2>2. e \in Env(mem, f) /\ f \in BOOLEAN
    BY DEF MemEnv
  <2>3. res \in Nat /\ item_slabid(res) # 0
    BY CacheAssumption
  <2> HIDE DEF f
  <2> QED
    BY <1>1, <2>1, <2>2, <2>3, DeltaTidy
<1>3. CASE asc_process_delete(c)
  <2>1. PICK k \in Key : mem' = item_delete(mem, k)
    BY <1>3 DEF asc_process_delete
  <2> QED
    BY <1>1, <2>1, DeleteTidy
<1>4. CASE oom_delete(c)
  <2>1. conn[c].key \in Key /\ mem' = item_delete(mem, conn[c].key)
    BY <1>4 DEF oom_delete, Consistent, OomKeys
  <2> QED
    BY <1>1, <2>1, DeleteTidy
<1> QED
  BY <1>2, <1>3, <1>4

\* Lookups and touches.
LEMMA ReadTidy ==
    ASSUME Consistent, NEW c \in Conn, read_key(c) \/ read_hit(c)
    PROVE  Tidy(mem, mem')
<1>1. Inv /\ Sound(mem, {}) /\ 0 \in Slot /\ now \in Nat
  BY InvFacts DEF Consistent
<1>2. CASE read_key(c)
  <2>1. PICK k \in Key : mem' = item_get(mem, k).mem
    BY <1>2 DEF read_key
  <2> QED
    BY <1>1, <2>1, GetTidy
<1>3. CASE read_hit(c)
  <2>1. conn[c].state = "touch" /\ mem' = item_touch(mem, hold[c][0])
    BY <1>3 DEF read_hit
  <2>2. hold[c][0] # NoItem
    BY <1>1, <2>1, InvFacts DEF PhaseOK
  <2>3. hold[c][0] \in Item /\ mem.refcount[hold[c][0]] > 0
    BY <1>1, <2>2, InvFacts
  <2> QED
    BY <1>1, <2>1, <2>3, TouchTidy
<1> QED
  BY <1>2, <1>3

\* Releasing a reference.
LEMMA LetGoTidy ==
    ASSUME Consistent, NEW c \in Conn, nread_done(c) \/ read_no_iov(c) \/ release_next(c)
    PROVE  Tidy(mem, mem')
<1>1. Inv /\ Sound(mem, {}) /\ 0 \in Slot /\ hold \in Holds
  BY InvFacts DEF Consistent
<1>2. ASSUME NEW i \in Slot, hold[c][i] # NoItem, mem' = item_remove(mem, hold[c][i])
      PROVE  Tidy(mem, mem')
  BY <1>1, <1>2, InvFacts, RemoveTidy
<1>3. CASE nread_done(c) \/ read_no_iov(c)
  <2>1. conn[c].state \in {"stored", "touch"} /\ mem' = item_remove(mem, hold[c][0])
    BY <1>3 DEF nread_done, read_no_iov
  <2>2. hold[c][0] # NoItem
    BY <1>1, <2>1, InvFacts DEF PhaseOK
  <2> QED
    BY <1>1, <1>2, <2>1, <2>2
<1>4. CASE release_next(c)
  <2> DEFINE held == Held(c, Slot)
             i == CHOOSE j \in held : \A k \in held : j <= k
  <2>1. conn[c].state = "release" /\ mem' = item_remove(mem, hold[c][i])
    BY <1>4 DEF release_next
  <2>2. \E j \in Slot : hold[c][j] # NoItem
    BY <1>1, <2>1, InvFacts DEF PhaseOK
  <2>3. held \in SUBSET Nat /\ held # {}
    BY <2>2, CacheAssumption DEF Held, Slot
  <2>4. i \in held
    BY <2>3, LeastNat
  <2> HIDE DEF i
  <2>5. i \in Slot /\ hold[c][i] # NoItem
    BY <2>4 DEF Held
  <2> QED
    BY <1>2, <2>1, <2>5
<1> QED
  BY <1>3, <1>4

\* No step disturbs the order.
LEMMA StepTidy ==
    ASSUME Consistent, [Next]_vars
    PROVE  Tidy(mem, mem')
<1>1. CASE mem' = mem
  BY <1>1 DEF Tidy
<1>2. ASSUME NEW c \in Conn,
               \/ asc_process_update(c)   \/ asc_process_annex(c)
               \/ oom_delete(c)           \/ asc_complete_nread(c)
               \/ nread_done(c)           \/ asc_process_delta(c)
               \/ asc_process_delete(c)   \/ read_key(c)
               \/ read_hit(c)             \/ read_no_iov(c)
               \/ read_overlong(c)        \/ read_end(c)
               \/ transmit_complete(c)    \/ transmit_udp_error(c)
               \/ conn_close(c)           \/ release_next(c)
               \/ asc_process_flushall(c) \/ flush_expired(c)
               \/ asc_process_evict(c)
      PROVE  Tidy(mem, mem')
  <2>1. CASE asc_process_update(c) \/ asc_process_annex(c)
    BY <2>1, StartTidy
  <2>2. CASE \/ asc_complete_nread(c) \/ asc_process_delta(c) \/ asc_process_delete(c)
             \/ oom_delete(c)
    BY <2>2, CompleteTidy, ChangeTidy
  <2>3. CASE \/ read_key(c) \/ read_hit(c) \/ nread_done(c) \/ read_no_iov(c)
             \/ release_next(c)
    BY <2>3, ReadTidy, LetGoTidy
  <2>4. CASE \/ read_overlong(c) \/ read_end(c) \/ transmit_complete(c)
             \/ transmit_udp_error(c) \/ conn_close(c) \/ asc_process_flushall(c)
             \/ asc_process_evict(c)
    <3>1. mem' = mem
      BY <2>4 DEF read_overlong, read_end, transmit_complete, transmit_udp_error, conn_close,
                  asc_process_flushall, asc_process_evict
    <3> QED
      BY <1>1, <3>1
  <2>5. CASE flush_expired(c)
    BY <2>5, FlushTidy DEF flush_expired, Consistent
  <2> QED
    BY <1>2, <2>1, <2>2, <2>3, <2>4, <2>5
<1>3. CASE time_update \/ UNCHANGED vars
  <2>1. mem' = mem
    BY <1>3 DEF time_update, vars
  <2> QED
    BY <1>1, <2>1
<1> QED
  BY <1>2, <1>3 DEF Next

-----------------------------------------------------------------------------
(***************************************************************************)
(* The order is kept, and flush_all relies on it.                          *)
(***************************************************************************)

\* Sorted memory stays sorted by a step that does not set the clock back.
LEMMA SortedNext ==
    ASSUME Consistent, Consistent', Sorted(mem), [Next]_vars, now <= now'
    PROVE  Sorted(mem)'
<1>1. Sorted(mem')
  BY StepTidy DEF Tidy
<1>2. now \in Nat /\ now' \in Nat
  BY DEF Consistent, Inv, TypeOK
<1>3. mem'.hdr \in [Item -> ItemHdr]
  BY DEF Consistent, Sound, HeapOK, HeapType
<1> SUFFICES ASSUME NEW id \in Class, NEW x \in Item, NEW y \in Item,
                    Ahead(mem'.item_lruq[id], x, y)
             PROVE  mem'.hdr[x].atime <= mem'.hdr[y].atime /\ mem'.hdr[y].atime <= now'
  BY DEF Sorted
<1>4. mem'.hdr[x].atime <= mem'.hdr[y].atime /\ mem'.hdr[y].atime <= now
  BY <1>1 DEF Sorted
<1>5. mem'.hdr[y].atime \in Nat
  BY <1>3 DEF ItemHdr
<1> QED
  BY <1>2, <1>4, <1>5

\* Only a clock that is set back takes the lruqs out of "ascending time order"
\* (mc_items.c): every item is appended with the latest time, and nothing else
\* changes the access time of an item in a queue.
THEOREM LruqKeepsOrder == Spec => LruqKept
<1>1. Consistent /\ Consistent' /\ [Next]_vars =>
        [LruqOrdered /\ now <= now' => LruqOrdered']_vars
  <2> SUFFICES ASSUME Consistent, Consistent', [Next]_vars, LruqOrdered, now <= now'
               PROVE  LruqOrdered'
    OBVIOUS
  <2>1. \A id \in Class : mem.item_lruq[id] \in Seq(Item) /\ mem'.item_lruq[id] \in Seq(Item)
    BY DEF Consistent, Sound, HeapOK, HeapType
  <2>2. Sorted(mem)
    <3> SUFFICES ASSUME NEW id \in Class, NEW x \in Item, NEW y \in Item,
                        Ahead(mem.item_lruq[id], x, y)
                 PROVE  mem.hdr[x].atime <= mem.hdr[y].atime /\ mem.hdr[y].atime <= now
      BY DEF Sorted
    <3> DEFINE q == mem.item_lruq[id]
    <3>1. PICK i \in DOMAIN q, j \in DOMAIN q : i <= j /\ q[i] = x /\ q[j] = y
      BY DEF Ahead
    <3>2. y \in Elems(q)
      BY <3>1 DEF Elems
    <3> QED
      BY <3>1, <3>2 DEF LruqOrdered, LruqSorted
  <2>3. Sorted(mem)'
    BY <2>2, SortedNext
  <2>4. ASSUME NEW id \in Class, NEW i \in DOMAIN mem'.item_lruq[id],
               NEW j \in DOMAIN mem'.item_lruq[id], i <= j
        PROVE  /\ mem'.hdr[mem'.item_lruq[id][i]].atime <= mem'.hdr[mem'.item_lruq[id][j]].atime
               /\ mem'.hdr[mem'.item_lruq[id][j]].atime <= now'
    <3> DEFINE q == mem'.item_lruq[id]
    <3>1. q[i] \in Item /\ q[j] \in Item
      BY <2>1
    <3>2. Ahead(q, q[i], q[j])
      BY <2>4 DEF Ahead
    <3> QED
      BY <2>3, <3>1, <3>2 DEF Sorted
  <2>5. ASSUME NEW id \in Class, NEW it \in Elems(mem'.item_lruq[id])
        PROVE  mem'.hdr[it].atime <= now'
    <3>1. PICK i \in DOMAIN mem'.item_lruq[id] : it = mem'.item_lruq[id][i]
      BY DEF Elems
    <3>2. i <= i
      BY <2>1
    <3> QED
      BY <2>4, <3>1, <3>2
  <2> QED
    BY <2>4, <2>5 DEF LruqOrdered, LruqSorted
<1> QED
  BY <1>1, AlwaysConsistent, PTL DEF Spec, LruqKept

\* LruqSorted as a property of the memory.
InOrder(h) ==
    \A c \in Class : \A i, j \in DOMAIN h.item_lruq[c] :
        i <= j => h.hdr[h.item_lruq[c][i]].atime <= h.hdr[h.item_lruq[c][j]].atime

\* What item_flush_expired leaves in a sorted lruq is older than the horizon.
LEMMA FlushLeaves ==
    ASSUME NEW h, Sound(h, {}), InOrder(h), oldest_live \in Nat, oldest_live # 0,
           NEW m, m = item_flush_expired(h), NEW id \in Class, NEW x \in Elems(m.item_lruq[id])
    PROVE  m.hdr[x].atime < oldest_live
<1> DEFINE recent(q)  == {i \in DOMAIN q : \A j \in i..Len(q) :
                                              h.hdr[q[j]].atime >= oldest_live}
           flushed(c) == {h.item_lruq[c][i] : i \in recent(h.item_lruq[c])}
           all   == UNION {flushed(c) : c \in Class}
           freed == {it \in all : h.refcount[it] = 0}
           q     == h.item_lruq[id]
<1>1. h \in HeapType /\ q \in Seq(Item) /\ h.hdr \in [Item -> ItemHdr]
  BY DEF Sound, HeapOK, HeapType
<1>2. /\ m.item_lruq[id] = Without(q, all)
      /\ m.hdr = [it \in Item |-> IF it \in freed THEN Blank ELSE h.hdr[it]]
  <2> HIDE DEF q
  <2> QED
    BY <1>1 DEF item_flush_expired, Check, HeapType, q
<1> HIDE DEF freed
<1>3. x \in Elems(q) /\ x \notin all
  <2> HIDE DEF all, q
  <2> QED
    BY <1>1, <1>2, WithoutProperties
<1>4. PICK i \in DOMAIN q : q[i] = x
  BY <1>3 DEF Elems
<1>5. i \notin recent(q)
  BY <1>3, <1>4
<1>6. PICK j \in i..Len(q) : ~(h.hdr[q[j]].atime >= oldest_live)
  BY <1>5
<1> HIDE DEF recent
<1>7. j \in DOMAIN q /\ i <= j /\ x \in Item /\ q[j] \in Item
  BY <1>1, <1>4, LenProperties
<1>8. h.hdr[x].atime <= h.hdr[q[j]].atime
  BY <1>4, <1>7 DEF InOrder
<1>9. h.hdr[x].atime \in Nat /\ h.hdr[q[j]].atime \in Nat
  BY <1>1, <1>7 DEF ItemHdr
<1>10. x \notin freed
  BY <1>3 DEF freed
<1> QED
  BY <1>2, <1>6, <1>7, <1>8, <1>9, <1>10

\* A connection leaves flush_all only by walking the lruqs.
LEMMA FlushEnds ==
    ASSUME NEW c \in Conn, conn \in [Conn -> ConnType], conn[c].state = "flush", Next,
           conn'[c].state # "flush"
    PROVE  flush_expired(c)
<1>1. CASE time_update
  BY <1>1 DEF time_update
<1>2. ASSUME NEW d \in Conn,
               \/ asc_process_update(d)   \/ asc_process_annex(d)
               \/ oom_delete(d)           \/ asc_complete_nread(d)
               \/ nread_done(d)           \/ asc_process_delta(d)
               \/ asc_process_delete(d)   \/ read_key(d)
               \/ read_hit(d)             \/ read_no_iov(d)
               \/ read_overlong(d)        \/ read_end(d)
               \/ transmit_complete(d)    \/ transmit_udp_error(d)
               \/ conn_close(d)           \/ release_next(d)
               \/ asc_process_flushall(d) \/ flush_expired(d)
               \/ asc_process_evict(d)
      PROVE  flush_expired(c)
  <2>1. CASE asc_process_update(d)
    <3>1. conn[d].state = "NEW_CMD" /\ \A b \in Conn : b # d => conn'[b] = conn[b]
      BY <2>1 DEF asc_process_update, start_nread
    <3> QED
      BY <3>1
  <2>2. CASE asc_process_annex(d)
    <3>1. conn[d].state = "NEW_CMD" /\ \A b \in Conn : b # d => conn'[b] = conn[b]
      BY <2>2 DEF asc_process_annex, start_nread
    <3> QED
      BY <3>1
  <2>3. CASE \/ asc_process_delta(d) \/ asc_process_delete(d) \/ asc_process_evict(d)
    BY <2>3 DEF asc_process_delta, asc_process_delete, asc_process_evict
  <2>4. CASE \/ oom_delete(d) \/ asc_complete_nread(d) \/ nread_done(d) \/ release_next(d)
    <3>1. conn[d].state # "flush" /\ \A b \in Conn : b # d => conn'[b] = conn[b]
      BY <2>4 DEF oom_delete, asc_complete_nread, nread_done, release_next, Goto
    <3> QED
      BY <3>1
  <2>5. CASE \/ read_key(d) \/ read_hit(d) \/ read_no_iov(d) \/ read_overlong(d) \/ read_end(d)
    <3>1. conn[d].state # "flush" /\ \A b \in Conn : b # d => conn'[b] = conn[b]
      BY <2>5 DEF read_key, read_hit, read_no_iov, read_overlong, read_end, Goto
    <3> QED
      BY <3>1
  <2>6. CASE \/ transmit_complete(d) \/ transmit_udp_error(d) \/ conn_close(d)
             \/ asc_process_flushall(d)
    <3>1. conn[d].state # "flush" /\ \A b \in Conn : b # d => conn'[b] = conn[b]
      BY <2>6 DEF transmit_complete, transmit_udp_error, conn_close, asc_process_flushall, Goto
    <3> QED
      BY <3>1
  <2>7. CASE flush_expired(d)
    <3>1. \A b \in Conn : b # d => conn'[b] = conn[b]
      BY <2>7 DEF flush_expired, Goto
    <3> QED
      BY <2>7, <3>1
  <2> QED
    BY <1>2, <2>1, <2>2, <2>3, <2>4, <2>5, <2>6, <2>7
<1> QED
  BY <1>1, <1>2 DEF Next

\* When flush_all returns, nothing that was in the cache is alive if its
\* horizon has come: the walk from the tail of each lruq may stop at the
\* first older item, because everything ahead of that one is older still.  A
\* lruq that a clock set back has left unsorted is the exception.
THEOREM FlushIsComplete == Spec => FlushComplete
<1> DEFINE Step == \A c \in Conn :
                      /\ conn[c].state = "flush" /\ conn'[c].state # "flush"
                      /\ 0 < oldest_live /\ oldest_live <= now
                      /\ LruqSorted
                      => \A k \in Key : mem'.hash[k] # NoItem => item_dead(mem', mem'.hash[k])
<1>1. Consistent /\ Consistent' /\ [Next]_vars => [Step]_vars
  <2> SUFFICES ASSUME Consistent, Consistent', LruqSorted, Next, NEW c \in Conn,
                      conn[c].state = "flush", conn'[c].state # "flush",
                      0 < oldest_live, oldest_live <= now, NEW k \in Key, mem'.hash[k] # NoItem
               PROVE  item_dead(mem', mem'.hash[k])
    OBVIOUS
  <2> DEFINE x == mem'.hash[k]
             id == item_id(mem', x)
  <2>1. flush_expired(c)
    BY FlushEnds, InvFacts DEF Consistent
  <2>2. mem' = item_flush_expired(mem) /\ oldest_live' = oldest_live /\ now' = now
    BY <2>1 DEF flush_expired
  <2>3. Sound(mem, {}) /\ Sound(mem', {}) /\ oldest_live \in Nat
    BY DEF Consistent, Inv, TypeOK
  <2>4. x \in Item /\ item_is_linked(mem', x)
    BY <2>3 DEF Sound, HashOK, HeapOK, HeapType, MaybeItem, MaybeKey
  <2>5. id \in Class /\ x \in Elems(mem'.item_lruq[id])
    BY <2>3, <2>4, SoundQueues, InUse
  <2> HIDE DEF x, id
  <2>6. mem'.hdr[x].atime < oldest_live
    <3>1. InOrder(mem)
      BY DEF LruqSorted, InOrder
    <3> QED
      BY <2>2, <2>3, <2>5, <3>1, FlushLeaves
  <2>7. mem'.hdr[x].atime \in Nat
    BY <2>3, <2>4 DEF Sound, HeapOK, HeapType, ItemHdr
  <2>8. item_dead(mem', x)
    BY <2>3, <2>6, <2>7 DEF item_dead
  <2> QED
    BY <2>8 DEF x
<1> QED
  BY <1>1, AlwaysConsistent, PTL DEF Spec, FlushComplete

-----------------------------------------------------------------------------
(***************************************************************************)
(* Out of memory: what an allocation that fails has tried.                 *)
(***************************************************************************)

\* slab_get fails to set the current slab of class id only if pool and slab
\* eviction have nothing.
LEMMA SlabGetDry ==
    ASSUME Sound(mem, {}), NEW id \in Class, NEW e \in MemEnv,
           slab_get(mem, id, e).free_item[id] = NoItem
    PROVE  PoolDry /\ SlabsInUse
<1> DEFINE h0 == Check(mem, mem.free_item[id] = NoItem /\ mem.free_itemq[id] = << >>, "slab_get")
           lru == evict_opt \cap {"CS", "AS"} # {} /\ LruSlabs(mem) # {}
           rand == "RS" \in evict_opt /\ RandSlabs(mem, e) # {}
<1>1. /\ mem.free_item \in [Class -> MaybeItem] /\ mem.nslab \in 0..max_nslab
      /\ mem.slab_lruq \in Seq(Slab) /\ mem.slab_refcount \in [Slab -> Nat]
      /\ mem.slab_class \in [Slab -> Class \cup {0}]
      /\ mem \in HeapType
  BY DEF Sound, HeapOK, HeapType
<1>2. ASSUME NEW h, NEW s \in Slab, h.free_item \in [Class -> MaybeItem]
      PROVE  slab_add_one(h, s, id).free_item[id] # NoItem
  <2>1. <<s, 1>> \in Item
    BY SlabAssumption DEF Item, Class
  <2>2. slab_add_one(h, s, id).free_item = [h.free_item EXCEPT ![id] = <<s, 1>>]
    BY DEF slab_add_one
  <2> QED
    BY <1>2, <2>1, <2>2, SlabAssumption
<1>3. h0.free_item = mem.free_item /\ h0.slab_class = mem.slab_class
  BY <1>1 DEF Check, HeapType
<1> HIDE DEF h0
<1>4. ASSUME NEW s \in Slab
      PROVE  slab_evict_one(h0, s).free_item \in [Class -> MaybeItem]
  <2> DEFINE c == h0.slab_class[s]
  <2>1. slab_evict_one(h0, s).free_item =
          [h0.free_item EXCEPT ![c] = IF @ # NoItem /\ item_2_slab(@) = s THEN NoItem ELSE @]
    BY DEF slab_evict_one, Check
  <2> DEFINE f == h0.free_item
             y == IF f[c] # NoItem /\ item_2_slab(f[c]) = s THEN NoItem ELSE f[c]
  <2>2. slab_evict_one(h0, s).free_item = [f EXCEPT ![c] = y]
    BY <2>1
  <2>3. f \in [Class -> MaybeItem] /\ (c \in Class => y \in MaybeItem)
    BY <1>1, <1>3 DEF MaybeItem
  <2> HIDE DEF f, y, c
  <2> QED
    BY <2>2, <2>3
<1>5. ~(mem.nslab < max_nslab /\ e.malloc)
  <2> SUFFICES ASSUME mem.nslab < max_nslab, e.malloc PROVE FALSE
    OBVIOUS
  <2> DEFINE s == mem.nslab + 1
             h == [h0 EXCEPT !.nslab = s, !.utime[s] = e.junk]
  <2>1. slab_get(mem, id, e) = slab_add_one(h, s, id)
    BY DEF slab_get, h0
  <2>2. s \in Slab
    BY <1>1, SlabAssumption DEF Slab
  <2>3. h.free_item = mem.free_item
    BY <1>3
  <2> HIDE DEF h, s
  <2> QED
    BY <1>1, <1>2, <2>1, <2>2, <2>3
<1>6. ~lru
  <2> SUFFICES ASSUME lru PROVE FALSE
    OBVIOUS
  <2> DEFINE s == FirstAt(mem.slab_lruq, LruSlabs(mem))
  <2>1. slab_get(mem, id, e) = slab_add_one(slab_evict_one(h0, s), s, id)
    BY <1>5 DEF slab_get, h0
  <2>2. s \in Slab
    <3>1. LruSlabs(mem) \in SUBSET (DOMAIN mem.slab_lruq) /\ LruSlabs(mem) # {}
      BY DEF LruSlabs
    <3> QED
      BY <1>1, <3>1, FirstAtProperties
  <2> HIDE DEF s
  <2> QED
    BY <1>2, <1>4, <2>1, <2>2
<1>7. ~rand
  <2> SUFFICES ASSUME rand PROVE FALSE
    OBVIOUS
  <2> DEFINE s == e.rand
  <2>1. slab_get(mem, id, e) = slab_add_one(slab_evict_one(h0, s), s, id)
    BY <1>5, <1>6 DEF slab_get, h0
  <2>2. s # 0 /\ s \in (IF mem.nslab = 0 THEN {0} ELSE 1..mem.nslab)
    BY DEF RandSlabs, MemEnv, Env
  <2>3. s \in Slab
    BY <1>1, <2>2, SlabAssumption DEF Slab
  <2> HIDE DEF s
  <2> QED
    BY <1>2, <1>4, <2>1, <2>3
<1>8. PoolDry
  <2>1. ~e.malloc => "malloc" \in Faults
    BY DEF MemEnv, Env
  <2>2. ~(mem.nslab < max_nslab) => mem.nslab = max_nslab
    BY <1>1, SlabAssumption
  <2> QED
    BY <1>5, <2>1, <2>2 DEF PoolDry
<1>9. ASSUME evict_opt \cap {"AS", "CS"} # {}, NEW i \in DOMAIN mem.slab_lruq,
             i <= SLAB_LRU_MAX_TRIES
      PROVE  mem.slab_refcount[mem.slab_lruq[i]] > 0
  <2>1. i \notin LruSlabs(mem)
    BY <1>6, <1>9
  <2>2. mem.slab_refcount[mem.slab_lruq[i]] # 0
    BY <1>9, <2>1 DEF LruSlabs
  <2>3. mem.slab_refcount[mem.slab_lruq[i]] \in Nat
    BY <1>1
  <2> QED
    BY <2>2, <2>3
<1>10. ASSUME "RS" \in evict_opt, mem.nslab # 0
       PROVE  \E s \in 1..mem.nslab : mem.slab_refcount[s] > 0
  <2>1. e.rand \in 1..mem.nslab
    BY <1>10 DEF MemEnv, Env
  <2>2. e.rand \in Slab /\ e.rand # 0
    BY <1>1, <2>1, SlabAssumption DEF Slab
  <2>3. mem.slab_refcount[e.rand] # 0
    BY <1>7, <1>10, <2>2 DEF RandSlabs
  <2> QED
    BY <1>1, <2>1, <2>2, <2>3
<1> QED
  BY <1>8, <1>9, <1>10 DEF SlabsInUse

\* The search of the lruq comes back with nothing, or with an item that is
\* neither expired nor wanted, only if there is none to take.
LEMMA LruqDry ==
    ASSUME Sound(mem, {}), NEW id \in Class, NEW lit, lit = item_get_from_lruq(mem, id),
           lit = NoItem \/ ("LRU" \notin evict_opt /\ ~item_expired(mem, lit))
    PROVE  ItemsInUse(id)
<1> DEFINE q == mem.item_lruq[id]
           unused  == {i \in DOMAIN q : /\ i <= ITEM_LRUQ_MAX_TRIES
                                        /\ mem.refcount[q[i]] = 0}
           expired == {i \in unused : item_expired(mem, q[i])}
<1> SUFFICES ASSUME use_lruq, NEW i \in DOMAIN q, i <= ITEM_LRUQ_MAX_TRIES,
                    ~(mem.refcount[q[i]] > 0)
             PROVE  "LRU" \notin evict_opt /\ ~item_expired(mem, q[i])
  BY DEF ItemsInUse
<1>1. q \in Seq(Item) /\ mem.refcount \in [Item -> Nat] /\ NoItem \notin Item
  BY SlabAssumption DEF Sound, HeapOK, HeapType
<1>2. i \in unused
  <2>1. mem.refcount[q[i]] \in Nat
    BY <1>1
  <2> QED
    BY <2>1
<1>3. lit = IF expired # {} THEN FirstAt(q, expired) ELSE FirstAt(q, unused)
  BY <1>2 DEF item_get_from_lruq
<1>4. ASSUME NEW I \in SUBSET (DOMAIN q), I # {}
      PROVE  \E j \in I : FirstAt(q, I) = q[j] /\ q[j] \in Item
  BY <1>1, <1>4, FirstAtProperties
<1>5. unused \in SUBSET (DOMAIN q) /\ expired \in SUBSET (DOMAIN q)
  OBVIOUS
<1>6. CASE expired # {}
  <2>1. PICK j \in expired : lit = q[j] /\ q[j] \in Item
    BY <1>3, <1>4, <1>5, <1>6
  <2>2. lit # NoItem /\ item_expired(mem, lit)
    BY <1>1, <2>1
  <2> QED
    BY <2>2
<1>7. CASE expired = {}
  <2>1. PICK j \in unused : lit = q[j] /\ q[j] \in Item
    BY <1>2, <1>3, <1>4, <1>5, <1>7
  <2> QED
    BY <1>1, <1>2, <1>7, <2>1
<1> QED
  BY <1>6, <1>7

\* What an allocation that fails has found of class id.
Dry(id) ==
    /\ PoolDry /\ SlabsInUse
    /\ use_freeq => mem.free_itemq[id] = << >>
    /\ mem.free_item[id] = NoItem
    /\ ItemsInUse(id)

LEMMA AllocDry ==
    ASSUME Sound(mem, {}), NEW id \in Class, NEW e \in MemEnv, NEW key, NEW exptime, NEW nbyte,
           item_alloc(mem, id, key, exptime, nbyte, e).it = NoItem
    PROVE  Dry(id)
<1> DEFINE lit == item_get_from_lruq(mem, id)
           sg  == slab_get_item(mem, id, e)
           got == item_obtain(mem, id, e)
<1>1. got.it = NoItem
  BY DEF item_alloc, item_init
<1>2. got = item_choose(mem, lit, sg)
  BY DEF item_obtain
<1> HIDE DEF got, sg, lit
<1>3. sg.it = NoItem /\ (lit = NoItem \/ ("LRU" \notin evict_opt /\ ~item_expired(mem, lit)))
  BY <1>1, <1>2 DEF item_choose
<1>4. ItemsInUse(id)
  BY <1>3, LruqDry DEF lit
<1>5. ~(use_freeq /\ mem.free_itemq[id] # << >>)
  <2> SUFFICES ASSUME use_freeq, mem.free_itemq[id] # << >> PROVE FALSE
    OBVIOUS
  <2>1. sg.it = Head(mem.free_itemq[id])
    BY DEF sg, slab_get_item, slab_get_item_from_freeq
  <2>2. mem.free_itemq[id] \in Seq(Item)
    BY DEF Sound, HeapOK, HeapType
  <2>3. Head(mem.free_itemq[id]) \in Item
    BY <2>2
  <2> QED
    BY <1>3, <2>1, <2>3, SlabAssumption
<1> DEFINE x == IF mem.free_item[id] = NoItem THEN slab_get(mem, id, e) ELSE mem
<1>6. x.free_item[id] = NoItem
  <2>1. sg = slab_next_item(x, id)
    BY <1>5 DEF sg, slab_get_item
  <2> HIDE DEF x
  <2>2. sg.it = x.free_item[id]
    BY <2>1 DEF slab_next_item
  <2> QED
    BY <1>3, <2>2
<1>7. mem.free_item[id] = NoItem
  BY <1>6
<1>8. slab_get(mem, id, e).free_item[id] = NoItem
  BY <1>6, <1>7
<1>9. PoolDry /\ SlabsInUse
  BY <1>8, SlabGetDry
<1> QED
  BY <1>4, <1>5, <1>7, <1>9 DEF Dry

\* A storage command reports out of memory only when free queue, current slab
\* and pool have nothing and every slab and item that eviction may try, within
\* its try limits, is in use: item_alloc gives up no earlier.
THEOREM OomIsJustified == Spec => OomJustified
<1> DEFINE Step == \A c \in Conn :
                      conn[c].state # "oom" /\ conn'[c].state = "oom" =>
                         /\ PoolDry /\ SlabsInUse
                         /\ \E id \in Class :
                               /\ use_freeq => mem.free_itemq[id] = << >>
                               /\ mem.free_item[id] = NoItem
                               /\ ItemsInUse(id)
<1>1. Consistent /\ [Next]_vars => [Step]_vars
  <2> SUFFICES ASSUME Consistent, Next, NEW c \in Conn,
                      conn[c].state # "oom", conn'[c].state = "oom"
               PROVE  \E id \in Class : Dry(id)
    BY DEF Dry
  <2>1. Sound(mem, {}) /\ conn \in [Conn -> ConnType]
    BY InvFacts DEF Consistent
  <2>2. ASSUME NEW id \in Class, NEW e \in MemEnv, NEW d \in Conn, NEW k, NEW r, NEW t, NEW n,
               start_nread(d, k, r, item_alloc(mem, id, k, t, n, e))
        PROVE  \E i \in Class : Dry(i)
    <3> DEFINE a == item_alloc(mem, id, k, t, n, e)
    <3>1. a.it = NoItem
      <4> SUFFICES ASSUME a.it # NoItem PROVE FALSE
        OBVIOUS
      <4>1. conn' = [conn EXCEPT ![d].state = "NREAD", ![d].req = r]
        BY <2>2 DEF start_nread
      <4> QED
        BY <2>1, <4>1
    <3> QED
      BY <2>1, <3>1, AllocDry
  <2>3. ASSUME NEW d \in Conn, asc_process_update(d)
        PROVE  \E id \in Class : Dry(id)
    <3>1. PICK k \in Key, n \in NByte, x \in Ttl, e \in MemEnv,
               r \in Request \ {"append", "prepend"}, v \in 0..mem.cas_id :
            /\ item_slabid(n) # 0
            /\ start_nread(d, k, r, item_alloc(mem, item_slabid(n), k, time_reltime(now, x), n, e))
      BY <2>3 DEF asc_process_update
    <3>2. item_slabid(n) \in Class
      BY <3>1, CacheAssumption, SlabidClass
    <3> QED
      BY <2>2, <3>1, <3>2
  <2>4. ASSUME NEW d \in Conn, asc_process_annex(d)
        PROVE  \E id \in Class : Dry(id)
    <3>1. PICK k \in Key, n \in NByte, e \in MemEnv, r \in Request \cap {"append", "prepend"} :
            /\ item_slabid(n) # 0
            /\ start_nread(d, k, r, item_alloc(mem, item_slabid(n), k, 0, n, e))
      BY <2>4 DEF asc_process_annex
    <3>2. item_slabid(n) \in Class
      BY <3>1, CacheAssumption, SlabidClass
    <3> QED
      BY <2>2, <3>1, <3>2
  <2>5. ASSUME NEW d \in Conn,
                 \/ oom_delete(d)           \/ asc_complete_nread(d)
                 \/ nread_done(d)           \/ asc_process_delta(d)
                 \/ asc_process_delete(d)   \/ read_key(d)
                 \/ read_hit(d)             \/ read_no_iov(d)
                 \/ read_overlong(d)        \/ read_end(d)
                 \/ transmit_complete(d)    \/ transmit_udp_error(d)
                 \/ conn_close(d)           \/ release_next(d)
                 \/ asc_process_flushall(d) \/ flush_expired(d)
                 \/ asc_process_evict(d)
        PROVE  FALSE
    <3>1. CASE \/ asc_process_delta(d) \/ asc_process_delete(d) \/ asc_process_evict(d)
      BY <3>1 DEF asc_process_delta, asc_process_delete, asc_process_evict
    <3>2. CASE oom_delete(d)
      BY <2>1, <3>2 DEF oom_delete
    <3>3. CASE asc_complete_nread(d)
      <4>1. conn' = [conn EXCEPT ![d].state = "stored", ![d].req = "none"]
        BY <3>3 DEF asc_complete_nread
      <4> QED
        BY <2>1, <4>1
    <3>4. ASSUME NEW st, st # "oom", conn' = [conn EXCEPT ![d].state = st]
          PROVE  FALSE
      BY <2>1, <3>4
    <3>5. CASE nread_done(d) \/ read_key(d) \/ read_no_iov(d)
      <4>1. PICK st \in {"NEW_CMD", "read", "touch"} : conn' = [conn EXCEPT ![d].state = st]
        BY <3>5 DEF nread_done, read_key, read_no_iov, Goto
      <4> QED
        BY <3>4, <4>1
    <3>6. CASE read_hit(d) \/ read_overlong(d)
      <4>1. \E n \in Nat, st \in {"read", "NEW_CMD"} :
               conn' = [conn EXCEPT ![d].state = st, ![d].nhit = n]
        <5>1. conn[d].nhit + 1 \in Nat
          BY <2>1, CacheAssumption DEF ConnType
        <5> QED
          BY <3>6, <5>1 DEF read_hit, read_overlong
      <4> QED
        BY <2>1, <4>1
    <3>7. CASE read_end(d)
      BY <2>1, <3>7 DEF read_end
    <3>8. CASE \/ transmit_complete(d) \/ transmit_udp_error(d) \/ asc_process_flushall(d)
               \/ flush_expired(d)
      <4>1. PICK st \in {"NEW_CMD", "release", "flush"} : conn' = [conn EXCEPT ![d].state = st]
        BY <3>8 DEF transmit_complete, transmit_udp_error, asc_process_flushall,
                    flush_expired, Goto
      <4> QED
        BY <3>4, <4>1
    <3>9. CASE conn_close(d)
      <4>1. conn' = [conn EXCEPT ![d].state = "release", ![d].req = "none"]
        BY <3>9 DEF conn_close
      <4> QED
        BY <2>1, <4>1
    <3>10. CASE release_next(d)
      <4>1. conn' = [conn EXCEPT ![d] = Idle] \/ conn' = conn
        BY <3>10 DEF release_next
      <4> QED
        BY <2>1, <4>1 DEF Idle
    <3> QED
      BY <2>5, <3>1, <3>2, <3>3, <3>5, <3>6, <3>7, <3>8, <3>9, <3>10
  <2>6. ~time_update
    BY DEF time_update
  <2> QED
    BY <2>3, <2>4, <2>5, <2>6 DEF Next
<1> QED
  BY <1>1, AlwaysConsistent, PTL DEF Spec, OomJustified
=============================================================================
