---------------------------- MODULE HotkeyProofs ----------------------------
(***************************************************************************)
(* The hot key detector, for any number of threads, set of keys, hash      *)
(* function and parameters: samples find a window and a table that fit,    *)
(* the counters are those of the window, and a signal is justified.        *)
(***************************************************************************)
EXTENDS Hotkey, FiniteSetTheorems, FunctionTheorems, TLAPS

-----------------------------------------------------------------------------
(***************************************************************************)
(* Numbers and occurrences.                                                *)
(***************************************************************************)

\* A nonempty set of numbers has a least one.
LEMMA Least ==
    ASSUME NEW I \in SUBSET Nat, I # {}
    PROVE  \E i \in I : \A j \in I : i <= j
<1>1. IsWellFoundedOn(OpToRel(<, Nat), Nat)
  BY NatLessThanWellFounded
<1>2. PICK i \in I : \A j \in I : <<j, i>> \notin OpToRel(<, Nat)
  BY <1>1, WFMin
<1>3. \A j \in I : ~(j < i)
  BY <1>2 DEF OpToRel
<1>4. \A j \in I : i <= j
  BY <1>3
<1> QED
  BY <1>4

\* Remainders.
LEMMA Mod ==
    ASSUME NEW n \in Nat, n > 0
    PROVE  /\ \A a \in Int : a % n \in 0..(n - 1)
           /\ \A a \in Int : 0 <= a /\ a < n => a % n = a
           /\ \A a \in Int : n <= a /\ a < 2 * n => a % n = a - n
<1>1. ASSUME NEW a \in Int
      PROVE  a % n \in 0..(n - 1)
  OBVIOUS
<1>2. ASSUME NEW a \in Int, 0 <= a, a < n
      PROVE  a % n = a
  BY <1>2
<1>3. ASSUME NEW a \in Int, n <= a, a < 2 * n
      PROVE  a % n = a - n
  BY <1>3
<1> QED
  BY <1>1, <1>2, <1>3

At(s, n, x) == {i \in 1..n : s[i] = x}

\* The places of x in a sequence are finitely many.
LEMMA AtFinite ==
    ASSUME NEW n \in Nat, NEW s, NEW x
    PROVE  /\ IsFiniteSet(At(s, n, x))
           /\ Cardinality(At(s, n, x)) \in Nat
           /\ Cardinality(At(s, n, x)) <= n
           /\ Cardinality(At(s, n, x)) = 0 <=> \A i \in 1..n : s[i] # x
<1>1. IsFiniteSet(1..n) /\ Cardinality(1..n) = n
  <2>1. 1 \in Int /\ n \in Int
    OBVIOUS
  <2>2. IsFiniteSet(1..n) /\ Cardinality(1..n) = IF 1 > n THEN 0 ELSE n - 1 + 1
    BY <2>1, FS_Interval
  <2> QED
    BY <2>2
<1>2. At(s, n, x) \subseteq 1..n
  BY DEF At
<1>3. IsFiniteSet(At(s, n, x)) /\ Cardinality(At(s, n, x)) <= n
  BY <1>1, <1>2, FS_Subset
<1>4. Cardinality(At(s, n, x)) \in Nat
  BY <1>3, FS_CardinalityType
<1>5. Cardinality(At(s, n, x)) = 0 <=> At(s, n, x) = {}
  BY <1>3, FS_EmptySet
<1> QED
  BY <1>3, <1>4, <1>5 DEF At

\* s2 is s with x at its end; s2 is s without its first element.
Longer(s, s2, n, x) == s2[n + 1] = x /\ \A i \in 1..n : s2[i] = s[i]
Shorter(s, s2, n) == \A i \in 1..(n - 1) : s2[i] = s[i + 1]

\* One more element is one more place of it, ...
LEMMA AtLonger ==
    ASSUME NEW n \in Nat, NEW s, NEW s2, NEW x, Longer(s, s2, n, x), NEW y
    PROVE  Cardinality(At(s2, n + 1, y)) = Cardinality(At(s, n, y)) + (IF y = x THEN 1 ELSE 0)
<1>1. IsFiniteSet(At(s, n, y)) /\ Cardinality(At(s, n, y)) \in Nat
  BY AtFinite
<1>2. \A i \in 1..(n + 1) : i \in 1..n \/ i = n + 1
  OBVIOUS
<1>3. n + 1 \notin 1..n /\ n + 1 \in 1..(n + 1) /\ \A i \in 1..n : i \in 1..(n + 1)
  OBVIOUS
<1>4. CASE y = x
  <2>1. At(s2, n + 1, y) = At(s, n, y) \cup {n + 1} /\ n + 1 \notin At(s, n, y)
    BY <1>2, <1>3, <1>4 DEF At, Longer
  <2> QED
    BY <1>1, <1>4, <2>1, FS_AddElement
<1>5. CASE y # x
  <2>1. At(s2, n + 1, y) = At(s, n, y)
    BY <1>2, <1>3, <1>5 DEF At, Longer
  <2> QED
    BY <1>1, <1>5, <2>1
<1> QED
  BY <1>4, <1>5

\* ... and one element less is one place less.
LEMMA AtShorter ==
    ASSUME NEW n \in Nat, n > 0, NEW s, NEW s2, Shorter(s, s2, n), NEW y
    PROVE  Cardinality(At(s2, n - 1, y)) = Cardinality(At(s, n, y)) - (IF y = s[1] THEN 1 ELSE 0)
<1> DEFINE A == At(s, n, y) \ {1}
           B == At(s2, n - 1, y)
           f == [i \in B |-> i + 1]
<1>1. IsFiniteSet(At(s, n, y)) /\ Cardinality(At(s, n, y)) \in Nat
  BY AtFinite
<1>2. Cardinality(A) = Cardinality(At(s, n, y)) - (IF y = s[1] THEN 1 ELSE 0) /\ IsFiniteSet(A)
  <2>1. 1 \in At(s, n, y) <=> y = s[1]
    BY DEF At
  <2>2. /\ IsFiniteSet(A)
        /\ Cardinality(A) = IF 1 \in At(s, n, y) THEN Cardinality(At(s, n, y)) - 1
                            ELSE Cardinality(At(s, n, y))
    BY <1>1, FS_RemoveElement
  <2> QED
    BY <1>1, <2>1, <2>2
<1>3. \A i \in B : i + 1 \in A
  BY DEF At, Shorter
<1>4. \A j \in A : j - 1 \in B /\ (j - 1) + 1 = j
  <2> SUFFICES ASSUME NEW j \in A
               PROVE  j - 1 \in B /\ (j - 1) + 1 = j
    OBVIOUS
  <2>1. j \in 1..n /\ j # 1 /\ s[j] = y
    BY DEF At
  <2>2. j - 1 \in 1..(n - 1) /\ (j - 1) + 1 = j
    BY <2>1
  <2>3. s2[j - 1] = s[(j - 1) + 1]
    BY <2>2 DEF Shorter
  <2> QED
    BY <2>1, <2>2, <2>3 DEF At
<1>5. B \subseteq Int
  BY DEF At
<1> HIDE DEF A, B
<1>6. f \in Bijection(B, A)
  <2>1. f \in [B -> A]
    BY <1>3
  <2>2. \A a, b \in B : f[a] = f[b] => a = b
    BY <1>5
  <2>3. \A j \in A : \E i \in B : f[i] = j
    BY <1>4
  <2> HIDE DEF f
  <2> QED
    BY <2>1, <2>2, <2>3, Fun_IsBij
<1>7. IsFiniteSet(B)
  BY AtFinite DEF B
<1>8. Cardinality(A) = Cardinality(B)
  BY <1>6, <1>7, FS_Bijection DEF ExistsBijection
<1> QED
  BY <1>2, <1>8 DEF B

-----------------------------------------------------------------------------
(***************************************************************************)
(* The table.                                                              *)
(***************************************************************************)
Entry == [key : Key \cup {NoKey}, count : Nat]
Table(m) == [0..(m - 1) -> Entry]

home(key, m) == hash[key] % m

\* Of the n samples in the window the i-th was of key r[i], and is counted in
\* entry s[i] of the table.
Window(tbl, m, s, r, n) ==
    /\ \A i \in 1..n : s[i] \in 0..(m - 1) /\ r[i] \in Key /\ tbl[s[i]].key = r[i]
    /\ \A e \in 0..(m - 1) : tbl[e].count = Cardinality(At(s, n, e))

\* No two keys have the same home; then every key in the table is at home.
Distinct(m) == \A k1, k2 \in Key : home(k1, m) = home(k2, m) => k1 = k2

Homed(tbl, m) ==
    \A e \in 0..(m - 1) :
        Distinct(m) /\ tbl[e].count > 0 => tbl[e].key \in Key /\ home(tbl[e].key, m) = e

\* As many homes as keys: no two are the same.
LEMMA HomesDistinct ==
    ASSUME NEW m, Cardinality(Homes(m)) = Cardinality(Key)
    PROVE  Distinct(m)
<1> DEFINE f == [k \in Key |-> home(k, m)]
<1>1. f \in [Key -> Homes(m)]
  BY DEF Homes, home
<1>2. \A h \in Homes(m) : \E k \in Key : f[k] = h
  BY DEF Homes, home
<1>3. f \in Surjection(Key, Homes(m))
  <2> HIDE DEF f
  <2> QED
    BY <1>1, <1>2, Fun_IsSurj
<1>4. IsFiniteSet(Key)
  BY HotkeyAssumption
<1>5. f \in Injection(Key, Homes(m))
  <2> HIDE DEF f
  <2> QED
    BY <1>3, <1>4, FS_SurjSameCardinalityImpliesInj
<1>6. \A a, b \in Key : f[a] = f[b] => a = b
  <2> HIDE DEF f
  <2> QED
    BY <1>5, Fun_InjectionProperties
<1> QED
  BY <1>6 DEF Distinct

\* The table has as many entries as it was made with.
LEMMA TableSize ==
    ASSUME NEW m \in Nat, NEW tbl \in Table(m)
    PROVE  DOMAIN tbl = 0..(m - 1) /\ Cardinality(DOMAIN tbl) = m
<1>1. DOMAIN tbl = 0..(m - 1)
  BY DEF Table
<1>2. 0 \in Int /\ m - 1 \in Int
  OBVIOUS
<1>3. Cardinality(0..(m - 1)) = IF 0 > m - 1 THEN 0 ELSE (m - 1) - 0 + 1
  BY <1>2, FS_Interval
<1> QED
  BY <1>1, <1>3

\* Fewer samples than entries leave one free.
LEMMA FreeEntry ==
    ASSUME NEW m \in Nat, NEW tbl \in Table(m), NEW n \in Nat, n < m, NEW s, NEW r,
           Window(tbl, m, s, r, n)
    PROVE  \E e \in 0..(m - 1) : tbl[e].count = 0
<1> SUFFICES ASSUME \A e \in 0..(m - 1) : tbl[e].count # 0
             PROVE  FALSE
  OBVIOUS
<1>1. \A e \in 0..(m - 1) : \E i \in 1..n : s[i] = e
  <2> SUFFICES ASSUME NEW e \in 0..(m - 1), \A i \in 1..n : s[i] # e
               PROVE  FALSE
    OBVIOUS
  <2>1. Cardinality(At(s, n, e)) = 0
    BY AtFinite
  <2> QED
    BY <2>1 DEF Window
<1> DEFINE f == [i \in 1..n |-> s[i]]
<1>2. f \in [1..n -> 0..(m - 1)]
  BY DEF Window
<1>3. \A e \in 0..(m - 1) : \E i \in 1..n : f[i] = e
  BY <1>1
<1>4. f \in Surjection(1..n, 0..(m - 1))
  <2> HIDE DEF f
  <2> QED
    BY <1>2, <1>3, Fun_IsSurj
<1>5. IsFiniteSet(1..n) /\ Cardinality(1..n) = n
  <2>1. 1 \in Int /\ n \in Int
    OBVIOUS
  <2>2. IsFiniteSet(1..n) /\ Cardinality(1..n) = IF 1 > n THEN 0 ELSE n - 1 + 1
    BY <2>1, FS_Interval
  <2> QED
    BY <2>2
<1>6. Cardinality(0..(m - 1)) <= n
  <2> HIDE DEF f
  <2> QED
    BY <1>4, <1>5, FS_Surjection
<1>7. Cardinality(0..(m - 1)) = m
  BY TableSize
<1> QED
  BY <1>6, <1>7

\* The probe ends at an entry for the key, and without collisions at its home.
LEMMA FindFacts ==
    ASSUME NEW m \in Nat, m > 0, NEW tbl \in Table(m), NEW key \in Key,
           \E e \in 0..(m - 1) : tbl[e].count = 0
    PROVE  /\ kc_map_find(tbl, key) \in 0..(m - 1)
           /\ kc_map_match(tbl, kc_map_find(tbl, key), key)
           /\ Homed(tbl, m) /\ Distinct(m) => kc_map_find(tbl, key) = home(key, m)
<1> DEFINE h == home(key, m)
           P(n) == /\ kc_map_match(tbl, (h + n) % m, key)
                   /\ \A j \in 0..(n - 1) : ~kc_map_match(tbl, (h + j) % m, key)
           c == CHOOSE n \in 0..(m - 1) : P(n)
           I == {n \in 0..(m - 1) : kc_map_match(tbl, (h + n) % m, key)}
<1>1. h \in 0..(m - 1) /\ h \in Nat
  <2>1. hash[key] \in Int
    BY HotkeyAssumption
  <2> QED
    BY <2>1, Mod DEF home
<1>2. kc_map_find(tbl, key) = (h + c) % m
  BY TableSize DEF kc_map_find, home
<1> HIDE DEF h
<1>3. I # {}
  <2>1. PICK e \in 0..(m - 1) : tbl[e].count = 0
    OBVIOUS
  <2>2. CASE h <= e
    <3>1. e - h \in 0..(m - 1) /\ h + (e - h) = e /\ e % m = e
      BY <1>1, <2>2, Mod
    <3>2. (h + (e - h)) % m = e
      BY <3>1
    <3>3. kc_map_match(tbl, (h + (e - h)) % m, key)
      BY <2>1, <3>2 DEF kc_map_match
    <3> QED
      BY <3>1, <3>3
  <2>3. CASE e < h
    <3>1. (e + m) - h \in 0..(m - 1) /\ h + ((e + m) - h) = e + m
      BY <1>1, <2>3
    <3>2. (e + m) % m = e
      <4>1. e + m \in Int /\ m <= e + m /\ e + m < 2 * m /\ (e + m) - m = e
        OBVIOUS
      <4> QED
        BY <4>1, Mod
    <3>3. kc_map_match(tbl, (h + ((e + m) - h)) % m, key)
      BY <2>1, <3>1, <3>2 DEF kc_map_match
    <3> QED
      BY <3>1, <3>3
  <2> QED
    BY <1>1, <2>2, <2>3
<1>4. PICK n \in I : \A j \in I : n <= j
  <2>1. I \in SUBSET Nat
    OBVIOUS
  <2> HIDE DEF I
  <2> QED
    BY <1>3, <2>1, Least
<1>5. n \in 0..(m - 1) /\ P(n)
  <2>1. ASSUME NEW j \in 0..(n - 1)
        PROVE  ~kc_map_match(tbl, (h + j) % m, key)
    <3>1. j \in 0..(m - 1) /\ ~(n <= j)
      OBVIOUS
    <3> QED
      BY <1>4, <3>1
  <2> QED
    BY <2>1
<1>6. c \in 0..(m - 1) /\ P(c)
  <2> HIDE DEF P
  <2> QED
    BY <1>5
<1> HIDE DEF c, I
<1>7. (h + c) % m \in 0..(m - 1)
  <2>1. h + c \in Int
    BY <1>1, <1>6
  <2> QED
    BY <2>1, Mod
<1>8. ASSUME Homed(tbl, m), Distinct(m)
      PROVE  (h + c) % m = h
  <2>1. kc_map_match(tbl, h, key)
    <3>1. CASE tbl[h].count = 0
      BY <3>1 DEF kc_map_match
    <3>2. CASE tbl[h].count > 0
      <4>1. tbl[h].key \in Key /\ home(tbl[h].key, m) = h
        BY <1>1, <1>8, <3>2 DEF Homed
      <4>2. tbl[h].key = key
        BY <1>8, <4>1 DEF Distinct, h
      <4> QED
        BY <4>2 DEF kc_map_match
    <3>3. tbl[h].count \in Nat
      BY <1>1 DEF Table, Entry
    <3> QED
      BY <3>1, <3>2, <3>3
  <2>2. (h + 0) % m = h
    BY <1>1, Mod
  <2>3. c = 0
    <3> SUFFICES ASSUME c # 0
                 PROVE  FALSE
      OBVIOUS
    <3>1. 0 \in 0..(c - 1)
      BY <1>6
    <3>2. ~kc_map_match(tbl, (h + 0) % m, key)
      BY <1>6, <3>1
    <3> QED
      BY <2>1, <2>2, <3>2
  <2> QED
    BY <2>2, <2>3
<1> QED
  BY <1>2, <1>6, <1>7, <1>8 DEF h

\* A sample counted in an entry for its key: the window is longer by it.
LEMMA IncrWindow ==
    ASSUME NEW m \in Nat, NEW tbl \in Table(m), NEW n \in Nat, NEW s, NEW r,
           Window(tbl, m, s, r, n),
           NEW key \in Key, NEW i \in 0..(m - 1), kc_map_match(tbl, i, key),
           NEW s2, NEW r2, Longer(s, s2, n, i), Longer(r, r2, n, key)
    PROVE  LET tbl2 == kc_map_incr(tbl, i, key)
           IN  /\ tbl2 \in Table(m)
               /\ Window(tbl2, m, s2, r2, n + 1)
               /\ tbl2[i].key = key /\ tbl2[i].count > 0
               /\ Homed(tbl, m) /\ (Distinct(m) => i = home(key, m)) => Homed(tbl2, m)
<1> DEFINE tbl2 == kc_map_incr(tbl, i, key)
<1>1. tbl[i] \in Entry /\ tbl[i].count \in Nat
  BY DEF Table, Entry
<1>2. /\ tbl2[i] \in Entry /\ tbl2[i].key = key /\ tbl2[i].count = tbl[i].count + 1
      /\ \A e \in 0..(m - 1) : e # i => tbl2[e] = tbl[e]
      /\ tbl2 \in Table(m)
  <2> DEFINE v == [key |-> IF tbl[i].count = 0 THEN key ELSE tbl[i].key, count |-> tbl[i].count + 1]
  <2>1. tbl2 = [tbl EXCEPT ![i] = v]
    BY DEF kc_map_incr
  <2>2. v = [key |-> key, count |-> tbl[i].count + 1]
    BY DEF kc_map_match
  <2> HIDE DEF v
  <2>3. v \in Entry
    BY <1>1, <2>2 DEF Entry
  <2>4. tbl2[i] = v /\ \A e \in 0..(m - 1) : e # i => tbl2[e] = tbl[e]
    BY <2>1 DEF Table
  <2> HIDE DEF tbl2
  <2>5. tbl2 \in Table(m)
    BY <2>1, <2>3 DEF Table
  <2>6. v.key = key /\ v.count = tbl[i].count + 1
    BY <2>2
  <2> QED
    BY <2>3, <2>4, <2>5, <2>6
<1>3. tbl2 \in Table(m)
  BY <1>2
<1>4. tbl2[i].count > 0
  BY <1>1, <1>2
<1> HIDE DEF tbl2
<1>5. \A j \in 1..(n + 1) : j \in 1..n \/ j = n + 1
  OBVIOUS
<1>6. ASSUME NEW j \in 1..(n + 1)
      PROVE  s2[j] \in 0..(m - 1) /\ r2[j] \in Key /\ tbl2[s2[j]].key = r2[j]
  <2>1. CASE j = n + 1
    BY <1>2, <2>1 DEF Longer
  <2>2. CASE j \in 1..n
    <3>1. s2[j] = s[j] /\ r2[j] = r[j] /\ s[j] \in 0..(m - 1) /\ r[j] \in Key /\ tbl[s[j]].key = r[j]
      BY <2>2 DEF Longer, Window
    <3>2. CASE s[j] # i
      BY <1>2, <3>1, <3>2
    <3>3. CASE s[j] = i
      <4>1. tbl[i].count # 0
        <5>1. Cardinality(At(s, n, i)) # 0
          BY <2>2, <3>3, AtFinite
        <5> QED
          BY <5>1 DEF Window
      <4>2. r[j] = key
        BY <3>1, <3>3, <4>1 DEF kc_map_match
      <4> QED
        BY <1>2, <3>1, <3>3, <4>2
    <3> QED
      BY <3>2, <3>3
  <2> QED
    BY <1>5, <2>1, <2>2
<1>7. ASSUME NEW e \in 0..(m - 1)
      PROVE  tbl2[e].count = Cardinality(At(s2, n + 1, e))
  <2>1. Cardinality(At(s2, n + 1, e)) = Cardinality(At(s, n, e)) + (IF e = i THEN 1 ELSE 0)
    BY AtLonger
  <2>2. tbl[e].count = Cardinality(At(s, n, e)) /\ Cardinality(At(s, n, e)) \in Nat
    BY AtFinite DEF Window
  <2>3. tbl2[e].count = tbl[e].count + (IF e = i THEN 1 ELSE 0)
    BY <1>2, <2>2
  <2> QED
    BY <2>1, <2>2, <2>3
<1>8. Window(tbl2, m, s2, r2, n + 1)
  BY <1>6, <1>7 DEF Window
<1>9. ASSUME Homed(tbl, m), Distinct(m) => i = home(key, m)
      PROVE  Homed(tbl2, m)
  BY <1>2, <1>9 DEF Homed
<1> QED
  BY <1>2, <1>3, <1>4, <1>8, <1>9 DEF tbl2

\* The oldest sample leaves the window, and its counter.
LEMMA DecrWindow ==
    ASSUME NEW m \in Nat, NEW tbl \in Table(m), NEW n \in Nat, n > 0, NEW s, NEW r,
           Window(tbl, m, s, r, n),
           NEW s2, NEW r2, Shorter(s, s2, n), Shorter(r, r2, n)
    PROVE  LET tbl2 == kc_map_decr(tbl, s[1])
           IN  /\ tbl2 \in Table(m)
               /\ Window(tbl2, m, s2, r2, n - 1)
               /\ Homed(tbl, m) => Homed(tbl2, m)
<1> DEFINE i == s[1]
           tbl2 == kc_map_decr(tbl, i)
<1>1. i \in 0..(m - 1) /\ 1 \in 1..n
  BY DEF Window
<1>2. tbl[i] \in Entry /\ tbl[i].count \in Nat /\ tbl[i].count = Cardinality(At(s, n, i))
  BY <1>1 DEF Table, Entry, Window
<1>3. tbl[i].count > 0
  <2>1. Cardinality(At(s, n, i)) # 0
    BY <1>1, AtFinite
  <2> QED
    BY <1>2, <2>1
<1> HIDE DEF i
<1>4. /\ tbl2[i] \in Entry /\ tbl2[i].count = tbl[i].count - 1
      /\ tbl[i].count > 1 => tbl2[i].key = tbl[i].key
      /\ \A e \in 0..(m - 1) : e # i => tbl2[e] = tbl[e]
      /\ tbl2 \in Table(m)
  <2> DEFINE v == IF tbl[i].count = 1 THEN kc_map_entry_reset
                  ELSE [key |-> tbl[i].key, count |-> tbl[i].count - 1]
  <2>1. tbl2 = [tbl EXCEPT ![i] = v]
    BY DEF kc_map_decr
  <2>2. PICK k \in Key \cup {NoKey}, c \in Nat : tbl[i].key = k /\ tbl[i].count = c
    BY <1>2 DEF Entry
  <2>3. v = [key |-> IF c = 1 THEN NoKey ELSE k, count |-> c - 1]
    BY <2>2 DEF kc_map_entry_reset
  <2> HIDE DEF v
  <2>4. v \in Entry
    BY <1>3, <2>2, <2>3 DEF Entry
  <2>5. tbl2[i] = v /\ \A e \in 0..(m - 1) : e # i => tbl2[e] = tbl[e]
    BY <1>1, <2>1 DEF Table
  <2> HIDE DEF tbl2
  <2>6. tbl2 \in Table(m)
    BY <2>1, <2>4 DEF Table
  <2>7. v.count = c - 1 /\ (c > 1 => v.key = k)
    BY <2>3
  <2> QED
    BY <2>2, <2>4, <2>5, <2>6, <2>7
<1>5. tbl2 \in Table(m)
  BY <1>4
<1> HIDE DEF tbl2
<1>6. ASSUME NEW e \in 0..(m - 1)
      PROVE  tbl2[e].count = Cardinality(At(s2, n - 1, e))
  <2>1. Cardinality(At(s2, n - 1, e)) = Cardinality(At(s, n, e)) - (IF e = i THEN 1 ELSE 0)
    BY AtShorter DEF i
  <2>2. tbl[e].count = Cardinality(At(s, n, e)) /\ Cardinality(At(s, n, e)) \in Nat
    BY AtFinite DEF Window
  <2> QED
    BY <1>4, <2>1, <2>2
<1>7. ASSUME NEW j \in 1..(n - 1)
      PROVE  s2[j] \in 0..(m - 1) /\ r2[j] \in Key /\ tbl2[s2[j]].key = r2[j]
  <2>1. j + 1 \in 1..n /\ s2[j] = s[j + 1] /\ r2[j] = r[j + 1]
    BY DEF Shorter
  <2>2. s[j + 1] \in 0..(m - 1) /\ r[j + 1] \in Key /\ tbl[s[j + 1]].key = r[j + 1]
    BY <2>1 DEF Window
  <2>3. CASE s[j + 1] # i
    BY <1>4, <2>1, <2>2, <2>3
  <2>4. CASE s[j + 1] = i
    <3>1. Cardinality(At(s2, n - 1, i)) # 0
      <4>1. s2[j] = i /\ n - 1 \in Nat
        BY <2>1, <2>4
      <4> QED
        BY <4>1, AtFinite
    <3>2. tbl2[i].count # 0 /\ tbl2[i].count \in Nat
      BY <1>1, <1>4, <1>6, <3>1 DEF Entry
    <3>3. tbl[i].count > 1
      BY <1>2, <1>4, <3>2
    <3> QED
      BY <1>4, <2>1, <2>2, <2>4, <3>3
  <2> QED
    BY <2>3, <2>4
<1>8. Window(tbl2, m, s2, r2, n - 1)
  BY <1>6, <1>7 DEF Window
<1>9. ASSUME Homed(tbl, m), Distinct(m), NEW e \in 0..(m - 1), tbl2[e].count > 0
      PROVE  tbl2[e].key \in Key /\ home(tbl2[e].key, m) = e
  <2>1. CASE e # i
    BY <1>4, <1>9, <2>1 DEF Homed
  <2>2. CASE e = i
    <3>1. tbl[i].count > 1
      BY <1>2, <1>4, <1>9, <2>2
    <3> QED
      BY <1>3, <1>4, <1>9, <2>2, <3>1 DEF Homed
  <2> QED
    BY <2>1, <2>2
<1> QED
  BY <1>5, <1>8, <1>9 DEF Homed, tbl2, i

\* A counter counts samples of its key, and without collisions all of them.
LEMMA CountsOwn ==
    ASSUME NEW m \in Nat, NEW tbl \in Table(m), NEW n \in Nat, NEW s, NEW r,
           Window(tbl, m, s, r, n),
           NEW key \in Key, NEW i \in 0..(m - 1), tbl[i].key = key, tbl[i].count > 0
    PROVE  /\ tbl[i].count <= Cardinality(At(r, n, key))
           /\ Homed(tbl, m) /\ Distinct(m) => tbl[i].count = Cardinality(At(r, n, key))
<1>1. tbl[i].count = Cardinality(At(s, n, i))
  BY DEF Window
<1>2. At(s, n, i) \subseteq At(r, n, key)
  BY DEF At, Window
<1>3. IsFiniteSet(At(r, n, key))
  BY AtFinite
<1>4. Cardinality(At(s, n, i)) <= Cardinality(At(r, n, key))
  BY <1>2, <1>3, FS_Subset
<1>5. ASSUME Homed(tbl, m), Distinct(m)
      PROVE  At(r, n, key) = At(s, n, i)
  <2>1. home(key, m) = i
    BY <1>5 DEF Homed
  <2>2. ASSUME NEW j \in At(r, n, key)
        PROVE  s[j] = i
    <3>1. j \in 1..n /\ r[j] = key /\ s[j] \in 0..(m - 1) /\ tbl[s[j]].key = key
      BY DEF At, Window
    <3>2. Cardinality(At(s, n, s[j])) # 0 /\ Cardinality(At(s, n, s[j])) \in Nat
      BY <3>1, AtFinite
    <3>3. tbl[s[j]].count > 0
      BY <3>1, <3>2 DEF Window
    <3> QED
      BY <1>5, <2>1, <3>1, <3>3 DEF Homed
  <2>3. At(r, n, key) \subseteq At(s, n, i)
    BY <2>2 DEF At
  <2> QED
    BY <1>2, <2>3
<1> QED
  BY <1>1, <1>4, <1>5

-----------------------------------------------------------------------------
(***************************************************************************)
(* The ring.                                                               *)
(***************************************************************************)
Ring(w) == [cap : {w}, rpos : 0..w, wpos : 0..w, data : [0..w -> Nat]]

\* Places are counted from rpos on, around the end.
LEMMA RingFacts ==
    ASSUME NEW w \in Nat, NEW arr \in Ring(w)
    PROVE  /\ ring_array_nelem(arr) \in 0..w
           /\ DOMAIN Elements(arr) = 1..ring_array_nelem(arr)
           /\ \A i \in 1..ring_array_nelem(arr) :
                 /\ Elements(arr)[i] = arr.data[IF arr.rpos + i - 1 <= w THEN arr.rpos + i - 1
                                                ELSE arr.rpos + i - 1 - (w + 1)]
                 /\ Elements(arr)[i] \in Nat
           /\ Elements(arr) \in Seq(Nat) /\ Len(Elements(arr)) = ring_array_nelem(arr)
<1> DEFINE L == ring_array_nelem(arr)
<1>1. arr.cap = w /\ arr.rpos \in 0..w /\ arr.wpos \in 0..w /\ arr.data \in [0..w -> Nat]
  BY DEF Ring
<1>2. L \in 0..w
  BY <1>1 DEF ring_array_nelem
<1> HIDE DEF L
<1>3. DOMAIN Elements(arr) = 1..L
  BY DEF Elements, L
<1>4. ASSUME NEW i \in 1..L
      PROVE  /\ Elements(arr)[i] = arr.data[IF arr.rpos + i - 1 <= w THEN arr.rpos + i - 1
                                            ELSE arr.rpos + i - 1 - (w + 1)]
             /\ Elements(arr)[i] \in Nat
  <2>0. PICK p \in 0..w : p = arr.rpos
    BY <1>1
  <2>1. Elements(arr)[i] = arr.data[(p + i - 1) % (w + 1)]
    BY <1>1, <2>0 DEF Elements, L
  <2>2. w + 1 \in Nat /\ w + 1 > 0 /\ p + i - 1 \in Int /\ 0 <= p + i - 1
        /\ p + i - 1 < 2 * (w + 1)
    BY <1>2
  <2>3. CASE p + i - 1 <= w
    <3>1. (p + i - 1) % (w + 1) = p + i - 1 /\ p + i - 1 \in 0..w
      BY <2>2, <2>3, Mod
    <3> QED
      BY <1>1, <2>0, <2>1, <2>3, <3>1
  <2>4. CASE ~(p + i - 1 <= w)
    <3>1. (p + i - 1) % (w + 1) = p + i - 1 - (w + 1)
      BY <2>2, <2>4, Mod
    <3>2. p + i - 1 - (w + 1) \in 0..w
      BY <1>2, <2>2, <2>4
    <3> QED
      BY <1>1, <2>0, <2>1, <2>4, <3>1, <3>2
  <2> QED
    BY <2>3, <2>4
<1>5. Elements(arr) = [i \in 1..L |-> Elements(arr)[i]]
  BY DEF Elements, L
<1>6. Elements(arr) \in [1..L -> Nat]
  BY <1>4, <1>5
<1>7. Elements(arr) \in Seq(Nat) /\ Len(Elements(arr)) = L
  <2> HIDE DEF Elements
  <2> QED
    BY <1>2, <1>6
<1> QED
  BY <1>2, <1>3, <1>4, <1>7 DEF L

\* The next place.
LEMMA NextPlace ==
    ASSUME NEW w \in Nat, NEW p \in 0..w
    PROVE  (p + 1) % (w + 1) = IF p = w THEN 0 ELSE p + 1
<1>1. w + 1 \in Nat /\ w + 1 > 0 /\ p + 1 \in Int
  OBVIOUS
<1>2. CASE p = w
  <2>1. w + 1 <= p + 1 /\ p + 1 < 2 * (w + 1) /\ (p + 1) - (w + 1) = 0
    BY <1>2
  <2> QED
    BY <1>1, <1>2, <2>1, Mod
<1>3. CASE p # w
  <2>1. 0 <= p + 1 /\ p + 1 < w + 1
    BY <1>3
  <2> QED
    BY <1>1, <1>3, <2>1, Mod
<1> QED
  BY <1>2, <1>3

\* An element pushed is the last one.
LEMMA PushFacts ==
    ASSUME NEW w \in Nat, NEW arr \in Ring(w), NEW e \in Nat, ring_array_nelem(arr) < w
    PROVE  LET arr2 == ring_array_push(arr, e)
           IN  /\ arr2 \in Ring(w)
               /\ ring_array_nelem(arr2) = ring_array_nelem(arr) + 1
               /\ Longer(Elements(arr), Elements(arr2), ring_array_nelem(arr), e)
<1> DEFINE arr2 == ring_array_push(arr, e)
           L == ring_array_nelem(arr)
<1>1. PICK rp \in 0..w, wp \in 0..w, d \in [0..w -> Nat] :
         arr = [cap |-> w, rpos |-> rp, wpos |-> wp, data |-> d]
  BY DEF Ring
<1>2. /\ L = IF rp <= wp THEN wp - rp ELSE wp + (w - rp + 1)
      /\ L \in Nat /\ L < w
  BY <1>1 DEF ring_array_nelem
<1>3. (wp + 1) % (w + 1) = IF wp = w THEN 0 ELSE wp + 1
  BY NextPlace
<1> DEFINE wp2 == IF wp = w THEN 0 ELSE wp + 1
           d2 == [d EXCEPT ![wp] = e]
<1>4. arr2 = [cap |-> w, rpos |-> rp, wpos |-> wp2, data |-> d2]
  <2>1. ring_array_nelem(arr) # arr.cap
    BY <1>1, <1>2
  <2>2. arr2 = [arr EXCEPT !.data[arr.wpos] = e, !.wpos = (arr.wpos + 1) % (arr.cap + 1)]
    BY <2>1 DEF ring_array_push
  <2>3. arr2 = [cap |-> w, rpos |-> rp, wpos |-> (wp + 1) % (w + 1), data |-> d2]
    BY <1>1, <2>2
  <2> QED
    BY <1>3, <2>3
<1>5. wp2 \in 0..w /\ d2 \in [0..w -> Nat]
  OBVIOUS
<1> HIDE DEF arr2
<1>6. arr2 \in Ring(w)
  BY <1>4, <1>5 DEF Ring
<1>7. ring_array_nelem(arr2) = L + 1
  <2>1. ring_array_nelem(arr2) = IF rp <= wp2 THEN wp2 - rp ELSE wp2 + (w - rp + 1)
    BY <1>4 DEF ring_array_nelem
  <2> QED
    BY <1>2, <2>1
<1> HIDE DEF L
<1>8. ASSUME NEW i \in 1..L
      PROVE  Elements(arr2)[i] = Elements(arr)[i]
  <2> DEFINE pl == IF rp + i - 1 <= w THEN rp + i - 1 ELSE rp + i - 1 - (w + 1)
  <2>1. Elements(arr)[i] = d[pl]
    BY <1>1, RingFacts DEF L
  <2>2. i \in 1..(L + 1)
    BY <1>2
  <2>3. Elements(arr2)[i] = d2[pl]
    <3>1. i \in 1..ring_array_nelem(arr2)
      BY <1>7, <2>2
    <3>2. Elements(arr2)[i] = arr2.data[IF arr2.rpos + i - 1 <= w THEN arr2.rpos + i - 1
                                        ELSE arr2.rpos + i - 1 - (w + 1)]
      BY <1>6, <3>1, RingFacts
    <3>3. arr2.data = d2 /\ arr2.rpos = rp
      BY <1>4
    <3> QED
      BY <3>2, <3>3
  <2>4. pl \in 0..w /\ pl # wp
    BY <1>2
  <2> HIDE DEF pl
  <2> QED
    BY <2>1, <2>3, <2>4
<1>9. Elements(arr2)[L + 1] = e
  <2> DEFINE pl == IF rp + (L + 1) - 1 <= w THEN rp + (L + 1) - 1 ELSE rp + (L + 1) - 1 - (w + 1)
  <2>1. L + 1 \in 1..(L + 1)
    BY <1>2
  <2>2. Elements(arr2)[L + 1] = d2[pl]
    <3>1. L + 1 \in 1..ring_array_nelem(arr2)
      BY <1>7, <2>1
    <3>2. Elements(arr2)[L + 1] = arr2.data[IF arr2.rpos + (L + 1) - 1 <= w THEN arr2.rpos + (L + 1) - 1
                                        ELSE arr2.rpos + (L + 1) - 1 - (w + 1)]
      BY <1>6, <3>1, RingFacts
    <3>3. arr2.data = d2 /\ arr2.rpos = rp
      BY <1>4
    <3> QED
      BY <3>2, <3>3
  <2>3. pl = wp
    BY <1>2
  <2> HIDE DEF pl
  <2> QED
    BY <2>2, <2>3
<1> QED
  BY <1>6, <1>7, <1>8, <1>9 DEF arr2, L, Longer

\* An element popped was the first one.
LEMMA PopFacts ==
    ASSUME NEW w \in Nat, NEW arr \in Ring(w), ring_array_nelem(arr) > 0
    PROVE  LET arr2 == ring_array_pop(arr)
           IN  /\ arr2 \in Ring(w)
               /\ ring_array_nelem(arr2) = ring_array_nelem(arr) - 1
               /\ Shorter(Elements(arr), Elements(arr2), ring_array_nelem(arr))
               /\ arr.data[arr.rpos] = Elements(arr)[1]
<1> DEFINE arr2 == ring_array_pop(arr)
           L == ring_array_nelem(arr)
<1>1. PICK rp \in 0..w, wp \in 0..w, d \in [0..w -> Nat] :
         arr = [cap |-> w, rpos |-> rp, wpos |-> wp, data |-> d]
  BY DEF Ring
<1>2. /\ L = IF rp <= wp THEN wp - rp ELSE wp + (w - rp + 1)
      /\ L \in Nat /\ L > 0 /\ L <= w
  BY <1>1 DEF ring_array_nelem
<1>3. (rp + 1) % (w + 1) = IF rp = w THEN 0 ELSE rp + 1
  BY NextPlace
<1> DEFINE rp2 == IF rp = w THEN 0 ELSE rp + 1
           d2 == [d EXCEPT ![rp] = 0]
<1>4. arr2 = [cap |-> w, rpos |-> rp2, wpos |-> wp, data |-> d2]
  <2>1. arr2 = [arr EXCEPT !.rpos = (arr.rpos + 1) % (arr.cap + 1), !.data[arr.rpos] = 0]
    BY DEF ring_array_pop
  <2>2. arr2 = [cap |-> w, rpos |-> (rp + 1) % (w + 1), wpos |-> wp, data |-> d2]
    BY <1>1, <2>1
  <2> QED
    BY <1>3, <2>2
<1>5. rp2 \in 0..w /\ d2 \in [0..w -> Nat]
  OBVIOUS
<1> HIDE DEF arr2
<1>6. arr2 \in Ring(w)
  BY <1>4, <1>5 DEF Ring
<1>7. ring_array_nelem(arr2) = L - 1
  <2>1. ring_array_nelem(arr2) = IF rp2 <= wp THEN wp - rp2 ELSE wp + (w - rp2 + 1)
    BY <1>4 DEF ring_array_nelem
  <2> QED
    BY <1>2, <2>1
<1> HIDE DEF L
<1>8. ASSUME NEW i \in 1..(L - 1)
      PROVE  Elements(arr2)[i] = Elements(arr)[i + 1]
  <2> DEFINE pl == IF rp + (i + 1) - 1 <= w THEN rp + (i + 1) - 1 ELSE rp + (i + 1) - 1 - (w + 1)
             pl2 == IF rp2 + i - 1 <= w THEN rp2 + i - 1 ELSE rp2 + i - 1 - (w + 1)
  <2>1. i + 1 \in 1..L
    BY <1>2
  <2>2. Elements(arr)[i + 1] = d[pl]
    BY <1>1, <2>1, RingFacts DEF L
  <2>3. Elements(arr2)[i] = d2[pl2]
    <3>1. i \in 1..ring_array_nelem(arr2)
      BY <1>7
    <3>2. Elements(arr2)[i] = arr2.data[IF arr2.rpos + i - 1 <= w THEN arr2.rpos + i - 1
                                        ELSE arr2.rpos + i - 1 - (w + 1)]
      BY <1>6, <3>1, RingFacts
    <3>3. arr2.data = d2 /\ arr2.rpos = rp2
      BY <1>4
    <3> QED
      BY <3>2, <3>3
  <2>4. pl = pl2 /\ pl \in 0..w /\ pl # rp
    BY <1>2
  <2> HIDE DEF pl, pl2
  <2> QED
    BY <2>2, <2>3, <2>4
<1>9. arr.data[arr.rpos] = Elements(arr)[1]
  <2>1. 1 \in 1..L
    BY <1>2
  <2>2. Elements(arr)[1] = d[IF rp + 1 - 1 <= w THEN rp + 1 - 1 ELSE rp + 1 - 1 - (w + 1)]
    BY <1>1, <2>1, RingFacts DEF L
  <2> QED
    BY <1>1, <2>2
<1> QED
  BY <1>6, <1>7, <1>8, <1>9 DEF arr2, L, Shorter

-----------------------------------------------------------------------------
(***************************************************************************)
(* The inductive invariant.                                                *)
(***************************************************************************)
Doing ==
    {Idle, [do |-> "enable"], [do |-> "realloc"]}
    \cup [do : {"sample"}, key : Key]
    \cup [do : {"update"}, name : {"redline"}, value : Redline]
    \cup [do : {"update"}, name : {"rate"}, value : Rate]

\* The types of all variables but those of window and table, which may be
\* missing.
Types ==
    /\ opt \in [redline : Redline, rate : Rate, share : Share, bw : Bw,
                window : Nat, threshold : Nat]
    /\ enable \in BOOLEAN /\ realloc \in BOOLEAN
    /\ counter \in 0..(CounterMod - 1)
    /\ recent \in Seq(Key)
    /\ at \in [Thread -> Doing]
    /\ fate \in {"ok", "race", "crash"}

\* While the flag is up nobody samples, enables or is about to; only one thread
\* reallocates, with the flag up.
Control ==
    fate = "ok" =>
        /\ realloc => /\ ~enable /\ verdict = Null
                      /\ \A t \in Thread : at[t].do \notin {"sample", "enable"}
        /\ \A t \in Thread : at[t].do = "realloc" =>
              realloc /\ \A u \in Thread : u # t => at[u].do # "realloc"

\* Ring q, key_window kw and table tbl are those of a window of w samples, of
\* which those in r have been taken; it is not full.
Fits(q, kw, tbl, r, w) ==
    /\ q \in Ring(w)
    /\ kw = [size |-> Len(r), max |-> w]
    /\ tbl \in Table(2 * w)
    /\ ring_array_nelem(q) = Len(r)
    /\ Window(tbl, 2 * w, Elements(q), r, Len(r))
    /\ Homed(tbl, 2 * w)
    /\ Len(r) <= w
    /\ w > 0 => Len(r) < w

\* While it is down, window and table fit the parameters and each other.
Filled ==
    fate = "ok" /\ ~realloc =>
        /\ opt.window = window_size(opt.redline, opt.rate)
        /\ Fits(queue, key_window, table, recent, opt.window)

Crashed == fate = "crash" => opt.redline < opt.rate

IInv == Types /\ Control /\ Filled /\ Crashed /\ SignalJustified

\* Sizes of windows.
LEMMA SizeFacts ==
    ASSUME NEW redline \in Redline, NEW rate \in Rate
    PROVE  /\ window_size(redline, rate) \in Nat
           /\ window_size(redline, rate) = 0 => redline < rate
<1>1. redline \in Nat /\ rate \in Nat /\ rate > 0
  BY HotkeyAssumption
<1>2. redline \div rate \in Nat
  BY <1>1
<1>3. redline \div rate = 0 => redline < rate
  BY <1>1
<1> QED
  BY <1>2, <1>3 DEF window_size

\* A share of a window.
LEMMA ShareFacts ==
    ASSUME NEW share \in Share, NEW w \in Nat
    PROVE  (share * w) \div 100 \in Nat
<1>1. share \in Nat
  BY HotkeyAssumption
<1>2. share * w \in Nat
  BY <1>1
<1> QED
  BY <1>2

\* A new window and a new table have nothing in them.
LEMMA FreshFacts ==
    ASSUME NEW w \in Nat
    PROVE  /\ ring_array_create(w) \in Ring(w)
           /\ ring_array_nelem(ring_array_create(w)) = 0
           /\ kc_map_init(w) \in Table(2 * w)
           /\ \A s, r : Window(kc_map_init(w), 2 * w, s, r, 0)
           /\ Homed(kc_map_init(w), 2 * w)
<1>1. ring_array_create(w) \in Ring(w)
  BY DEF ring_array_create, Ring
<1>2. ring_array_nelem(ring_array_create(w)) = 0
  BY DEF ring_array_create, ring_array_nelem
<1>3. kc_map_init(w) \in Table(2 * w)
  BY DEF kc_map_init, kc_map_entry_reset, Table, Entry
<1>4. \A e \in 0..(2 * w - 1) : kc_map_init(w)[e].count = 0
  BY DEF kc_map_init, kc_map_entry_reset
<1>5. ASSUME NEW s, NEW r
      PROVE  Window(kc_map_init(w), 2 * w, s, r, 0)
  <2>1. \A e : Cardinality(At(s, 0, e)) = 0
    <3> SUFFICES ASSUME NEW e
                 PROVE  Cardinality(At(s, 0, e)) = 0
      OBVIOUS
    <3>1. 0 \in Nat /\ \A i \in 1..0 : s[i] # e
      OBVIOUS
    <3> QED
      BY <3>1, AtFinite
  <2> QED
    BY <1>4, <2>1 DEF Window
<1>6. Homed(kc_map_init(w), 2 * w)
  BY <1>4 DEF Homed
<1> QED
  BY <1>1, <1>2, <1>3, <1>5, <1>6

LEMMA FreshFits ==
    ASSUME NEW w \in Nat
    PROVE  Fits(ring_array_create(w), [size |-> 0, max |-> w], kc_map_init(w), << >>, w)
<1>1. Len(<< >>) = 0 /\ 0 <= w
  OBVIOUS
<1>2. Window(kc_map_init(w), 2 * w, Elements(ring_array_create(w)), << >>, 0)
  BY FreshFacts
<1> QED
  BY <1>1, <1>2, FreshFacts DEF Fits

\* What at[t] can be.
LEMMA DoingFacts ==
    ASSUME NEW a \in Doing
    PROVE  /\ a.do \in {"idle", "sample", "enable", "update", "realloc"}
           /\ a.do = "sample" => a.key \in Key
           /\ a.do = "update" => \/ a.name = "redline" /\ a.value \in Redline
                                 \/ a.name = "rate" /\ a.value \in Rate
           /\ a = Idle => a.do = "idle"
BY DEF Doing, Idle

\* At first the window is empty.
LEMMA InitIInv ==
    ASSUME Init
    PROVE  IInv
<1>1. PICK redline \in Redline, rate \in Rate, share \in Share, bw \in Bw :
         LET size == window_size(redline, rate)
         IN  /\ opt = [redline |-> redline, rate |-> rate, share |-> share, bw |-> bw,
                       window |-> size, threshold |-> (share * size) \div 100]
             /\ queue = ring_array_create(size)
             /\ key_window = [size |-> 0, max |-> size]
             /\ table = kc_map_init(size)
  BY DEF Init
<1> DEFINE size == window_size(redline, rate)
<1>2. size \in Nat
  BY SizeFacts
<1>3. (share * size) \div 100 \in Nat
  BY <1>2, ShareFacts
<1> HIDE DEF size
<1>4. opt = [redline |-> redline, rate |-> rate, share |-> share, bw |-> bw,
             window |-> size, threshold |-> (share * size) \div 100]
  BY <1>1 DEF size
<1>5. /\ enable \in BOOLEAN /\ realloc = FALSE /\ counter = 0 /\ recent = << >>
      /\ at = [t \in Thread |-> Idle] /\ verdict = Null /\ fate = "ok"
  BY DEF Init
<1>6. Types
  <2>1. opt \in [redline : Redline, rate : Rate, share : Share, bw : Bw,
                 window : Nat, threshold : Nat]
    BY <1>2, <1>3, <1>4
  <2>2. at \in [Thread -> Doing]
    BY <1>5 DEF Doing
  <2>3. counter \in 0..(CounterMod - 1) /\ recent \in Seq(Key)
    BY <1>5, HotkeyAssumption
  <2> QED
    BY <1>5, <2>1, <2>2, <2>3 DEF Types
<1>7. Control
  BY <1>5 DEF Control, Idle
<1>8. Filled
  <2>1. opt.window = size /\ opt.window = window_size(opt.redline, opt.rate)
    BY <1>4 DEF size
  <2>2. /\ queue = ring_array_create(size) /\ key_window = [size |-> 0, max |-> size]
        /\ table = kc_map_init(size) /\ recent = << >>
    BY <1>1, <1>5 DEF size
  <2>3. Fits(queue, key_window, table, recent, opt.window)
    BY <1>2, <2>1, <2>2, FreshFits
  <2> QED
    BY <2>1, <2>3 DEF Filled
<1>9. Crashed /\ SignalJustified
  BY <1>5 DEF Crashed, SignalJustified
<1> QED
  BY <1>6, <1>7, <1>8, <1>9 DEF IInv

\* Steps that change no more than where a thread is and whether the detector is
\* enabled.
LEMMA ControlSteps ==
    ASSUME IInv, NEW t \in Thread,
           \/ \E key \in Key : item_get(t, key)
           \/ asc_process_hk_enable(t) \/ hk_enable_store(t) \/ hk_disable(t)
           \/ \E redline \in Redline : asc_process_hk_resize(t, "redline", redline)
           \/ \E rate \in Rate : asc_process_hk_resize(t, "rate", rate)
    PROVE  IInv'
<1>1. /\ UNCHANGED <<opt, realloc, counter, queue, key_window, table, recent, fate>>
      /\ fate = "ok" /\ (verdict' = verdict \/ verdict' = Null)
      /\ enable' \in BOOLEAN
  BY DEF item_get, asc_process_hk_enable, hk_enable_store, hk_disable, asc_process_hk_resize,
         IInv, Types
<1>2. at[t].do \in {"idle", "enable"}
  BY DEF item_get, asc_process_hk_enable, hk_enable_store, hk_disable, asc_process_hk_resize, Idle
<1> DEFINE To(a) == /\ at' = [at EXCEPT ![t] = a] /\ a.do # "realloc"
                    /\ realloc => a.do \notin {"sample", "enable"}
<1>3. Idle \in Doing /\ Idle.do = "idle"
  BY DEF Doing, Idle
<1>4. PICK a \in Doing : To(a)
  <2>1. ASSUME NEW key \in Key, item_get(t, key)
        PROVE  \E a \in Doing : To(a)
    <3>1. ~realloc
      BY <1>1, <2>1 DEF item_get, IInv, Control, Types
    <3>2. [do |-> "sample", key |-> key] \in Doing
      BY DEF Doing
    <3> QED
      BY <2>1, <3>1, <3>2 DEF item_get
  <2>2. CASE asc_process_hk_enable(t)
    <3>1. [do |-> "enable"] \in Doing
      BY DEF Doing
    <3> QED
      BY <2>2, <3>1 DEF asc_process_hk_enable
  <2>3. CASE hk_enable_store(t)
    <3>1. at' = [at EXCEPT ![t] = Idle]
      BY <2>3 DEF hk_enable_store
    <3> QED
      BY <1>3, <3>1
  <2>4. CASE hk_disable(t)
    <3>1. at' = at /\ at[t] = Idle
      BY <2>4 DEF hk_disable
    <3>2. at' = [at EXCEPT ![t] = Idle]
      BY <3>1 DEF IInv, Types
    <3> QED
      BY <1>3, <3>2
  <2>5. ASSUME NEW redline \in Redline, asc_process_hk_resize(t, "redline", redline)
        PROVE  \E a \in Doing : To(a)
    <3>1. [do |-> "update", name |-> "redline", value |-> redline] \in Doing
      BY DEF Doing
    <3> QED
      BY <2>5, <3>1 DEF asc_process_hk_resize
  <2>6. ASSUME NEW rate \in Rate, asc_process_hk_resize(t, "rate", rate)
        PROVE  \E a \in Doing : To(a)
    <3>1. [do |-> "update", name |-> "rate", value |-> rate] \in Doing
      BY DEF Doing
    <3> QED
      BY <2>6, <3>1 DEF asc_process_hk_resize
  <2> HIDE DEF To
  <2> QED
    BY <2>1, <2>2, <2>3, <2>4, <2>5, <2>6
<1>5. at \in [Thread -> Doing] /\ at' \in [Thread -> Doing] /\ at'[t] = a
      /\ \A u \in Thread : u # t => at'[u] = at[u]
  BY <1>4 DEF IInv, Types
<1>6. realloc => ~enable'
  <2> SUFFICES ASSUME realloc
               PROVE  ~enable'
    OBVIOUS
  <2>1. ~enable /\ at[t].do # "enable"
    BY <1>1 DEF IInv, Control
  <2>2. enable' = enable \/ enable' = FALSE
    BY <1>1, <2>1 DEF item_get, asc_process_hk_enable, hk_enable_store, hk_disable, asc_process_hk_resize
  <2> QED
    BY <2>1, <2>2
<1>7. Types'
  BY <1>1, <1>5 DEF IInv, Types
<1>8. Control'
  <2>1. /\ realloc => /\ ~enable /\ verdict = Null
                      /\ \A u \in Thread : at[u].do \notin {"sample", "enable"}
        /\ \A u \in Thread : at[u].do = "realloc" =>
              realloc /\ \A v \in Thread : v # u => at[v].do # "realloc"
    BY <1>1 DEF IInv, Control
  <2>2. realloc => \A u \in Thread : at'[u].do \notin {"sample", "enable"}
    BY <1>4, <1>5, <2>1
  <2>3. ASSUME NEW u \in Thread, at'[u].do = "realloc"
        PROVE  realloc /\ \A v \in Thread : v # u => at'[v].do # "realloc"
    <3>1. u # t /\ at[u].do = "realloc"
      BY <1>4, <1>5, <2>3
    <3> QED
      BY <1>4, <1>5, <2>1, <3>1
  <2> QED
    BY <1>1, <1>6, <2>1, <2>2, <2>3 DEF Control
<1>9. Filled' /\ Crashed'
  BY <1>1 DEF IInv, Filled, Crashed
<1>10. SignalJustified'
  BY <1>1 DEF IInv, SignalJustified
<1> QED
  BY <1>7, <1>8, <1>9, <1>10 DEF IInv

\* The thresholds are set.
LEMMA ThresholdSteps ==
    ASSUME IInv, NEW t \in Thread,
           \/ \E share \in Share : hotkey_update_qps_threshold(t, share)
           \/ \E bw \in Bw : hotkey_update_bw_threshold(t, bw)
    PROVE  IInv'
<1>1. UNCHANGED <<enable, realloc, counter, queue, key_window, table, at, recent, verdict, fate>>
  BY DEF hotkey_update_qps_threshold, hotkey_update_bw_threshold
<1>2. /\ opt' \in [redline : Redline, rate : Rate, share : Share, bw : Bw,
                   window : Nat, threshold : Nat]
      /\ opt'.window = opt.window /\ opt'.redline = opt.redline /\ opt'.rate = opt.rate
  <2>1. opt \in [redline : Redline, rate : Rate, share : Share, bw : Bw,
                 window : Nat, threshold : Nat]
    BY DEF IInv, Types
  <2>2. ASSUME NEW share \in Share, hotkey_update_qps_threshold(t, share)
        PROVE  /\ opt' \in [redline : Redline, rate : Rate, share : Share, bw : Bw,
                            window : Nat, threshold : Nat]
               /\ opt'.window = opt.window /\ opt'.redline = opt.redline /\ opt'.rate = opt.rate
    <3>1. (share * opt.window) \div 100 \in Nat
      BY <2>1, ShareFacts
    <3>2. PICK n \in Nat : n = (share * opt.window) \div 100
      BY <3>1
    <3>3. opt' = [opt EXCEPT !.share = share, !.threshold = n]
      BY <2>2, <3>2 DEF hotkey_update_qps_threshold
    <3> QED
      BY <2>1, <3>3
  <2>3. ASSUME NEW bw \in Bw, hotkey_update_bw_threshold(t, bw)
        PROVE  /\ opt' \in [redline : Redline, rate : Rate, share : Share, bw : Bw,
                            window : Nat, threshold : Nat]
               /\ opt'.window = opt.window /\ opt'.redline = opt.redline /\ opt'.rate = opt.rate
    <3>1. opt' = [opt EXCEPT !.bw = bw]
      BY <2>3 DEF hotkey_update_bw_threshold
    <3> QED
      BY <2>1, <3>1
  <2> QED
    BY <2>2, <2>3
<1>3. Types' /\ Control'
  BY <1>1, <1>2 DEF IInv, Types, Control
<1>4. Filled' /\ Crashed' /\ SignalJustified'
  BY <1>1, <1>2 DEF IInv, Filled, Crashed, SignalJustified
<1> QED
  BY <1>3, <1>4 DEF IInv

\* A new redline or rate: another thread at work, or the detector enabled, is a
\* race; otherwise this thread is the only one to reallocate.
LEMMA UpdateStep ==
    ASSUME IInv, NEW t \in Thread, hotkey_update(t)
    PROVE  IInv'
<1>1. /\ UNCHANGED <<enable, counter, queue, key_window, table, recent>>
      /\ fate = "ok" /\ at[t].do = "update" /\ verdict' = Null
  BY DEF hotkey_update
<1>2. at \in [Thread -> Doing]
  BY DEF IInv, Types
<1>3. Idle \in Doing /\ Idle.do = "idle"
  BY DEF Doing, Idle
<1>4. SignalJustified'
  BY <1>1 DEF SignalJustified
<1>5. CASE at' = [at EXCEPT ![t] = Idle] /\ UNCHANGED <<opt, realloc, fate>>
  <2>1. /\ at' \in [Thread -> Doing]
        /\ at'[t] = Idle /\ \A u \in Thread : u # t => at'[u] = at[u]
    BY <1>2, <1>3, <1>5
  <2>2. Types'
    BY <1>1, <1>5, <2>1 DEF IInv, Types
  <2>3. \A u \in Thread : at'[u].do = at[u].do \/ at'[u].do = "idle"
    BY <1>3, <2>1
  <2>4. Control'
    BY <1>1, <1>5, <2>3 DEF IInv, Control
  <2>5. Filled' /\ Crashed'
    BY <1>1, <1>5 DEF IInv, Filled, Crashed
  <2> QED
    BY <1>4, <2>2, <2>4, <2>5 DEF IInv
<1>6. CASE /\ realloc' = TRUE
           /\ opt' = [opt EXCEPT ![at[t].name] = at[t].value]
           /\ at' = [at EXCEPT ![t] = [do |-> "realloc"]]
           /\ fate' = IF Alone(t) /\ ~enable THEN "ok" ELSE "race"
  <2>1. [do |-> "realloc"] \in Doing /\ [do |-> "realloc"].do = "realloc"
    BY DEF Doing
  <2>2. /\ at' \in [Thread -> Doing]
        /\ at'[t].do = "realloc" /\ \A u \in Thread : u # t => at'[u] = at[u]
    BY <1>2, <1>6, <2>1
  <2>3. opt' \in [redline : Redline, rate : Rate, share : Share, bw : Bw,
                  window : Nat, threshold : Nat]
    <3>1. opt \in [redline : Redline, rate : Rate, share : Share, bw : Bw,
                   window : Nat, threshold : Nat]
      BY DEF IInv, Types
    <3>2. at[t] \in Doing
      BY <1>2
    <3>3. CASE at[t].name = "redline" /\ at[t].value \in Redline
      <4>1. PICK v \in Redline : v = at[t].value
        BY <3>3
      <4>2. opt' = [opt EXCEPT !.redline = v]
        BY <1>6, <3>3, <4>1
      <4> QED
        BY <3>1, <4>2
    <3>4. CASE at[t].name = "rate" /\ at[t].value \in Rate
      <4>1. PICK v \in Rate : v = at[t].value
        BY <3>4
      <4>2. opt' = [opt EXCEPT !.rate = v]
        BY <1>6, <3>4, <4>1
      <4> QED
        BY <3>1, <4>2
    <3> QED
      BY <1>1, <3>2, <3>3, <3>4, DoingFacts
  <2>4. fate' = "race" \/ (fate' = "ok" /\ Alone(t) /\ ~enable)
    BY <1>6
  <2>5. Types'
    BY <1>1, <1>6, <2>2, <2>3, <2>4 DEF IInv, Types
  <2>6. Control'
    <3> SUFFICES ASSUME fate' = "ok"
                 PROVE  /\ ~enable' /\ verdict' = Null
                        /\ \A u \in Thread : at'[u].do \notin {"sample", "enable"}
                        /\ \A u \in Thread : at'[u].do = "realloc" =>
                              \A v \in Thread : v # u => at'[v].do # "realloc"
      BY <1>6 DEF Control
    <3>1. \A u \in Thread : u # t => at'[u].do = "idle"
      BY <1>3, <2>2, <2>4 DEF Alone
    <3> QED
      BY <1>1, <2>2, <2>4, <3>1
  <2>7. Filled' /\ Crashed'
    BY <1>6, <2>4 DEF Filled, Crashed
  <2> QED
    BY <1>4, <2>5, <2>6, <2>7 DEF IInv
<1> QED
  BY <1>5, <1>6 DEF hotkey_update

\* The window and the table are made anew, or the flag stays up.
LEMMA ReallocStep ==
    ASSUME IInv, NEW t \in Thread, NEW fails \in {"none", "window", "map"},
           hotkey_realloc(t, fails)
    PROVE  IInv'
<1> DEFINE w == window_size(opt.redline, opt.rate)
<1>1. /\ UNCHANGED <<enable, counter, verdict, fate>>
      /\ fate = "ok" /\ at[t].do = "realloc"
      /\ opt' = [opt EXCEPT !.window = w] /\ realloc' = (fails # "none")
      /\ recent' = << >> /\ at' = [at EXCEPT ![t] = Idle]
  BY DEF hotkey_realloc
<1>2. fails = "none" => /\ queue' = ring_array_create(w) /\ key_window' = [size |-> 0, max |-> w]
                        /\ table' = kc_map_init(w)
  BY DEF hotkey_realloc
<1>3. at \in [Thread -> Doing] /\ Idle \in Doing /\ Idle.do = "idle"
  BY DEF IInv, Types, Doing, Idle
<1>4. /\ at' \in [Thread -> Doing]
      /\ at'[t] = Idle /\ \A u \in Thread : u # t => at'[u] = at[u]
  BY <1>1, <1>3
<1>5. opt \in [redline : Redline, rate : Rate, share : Share, bw : Bw,
               window : Nat, threshold : Nat]
  BY DEF IInv, Types
<1>6. w \in Nat
  BY <1>5, SizeFacts
<1>7. /\ opt' \in [redline : Redline, rate : Rate, share : Share, bw : Bw,
                   window : Nat, threshold : Nat]
      /\ opt'.window = w /\ opt'.redline = opt.redline /\ opt'.rate = opt.rate
  <2> HIDE DEF w
  <2> QED
    BY <1>1, <1>5, <1>6
<1>8. /\ realloc /\ ~enable /\ verdict = Null
      /\ \A u \in Thread : at[u].do \notin {"sample", "enable"}
      /\ \A u \in Thread : u # t => at[u].do # "realloc"
  BY <1>1 DEF IInv, Control
<1>9. << >> \in Seq(Key) /\ (fails # "none") \in BOOLEAN
  OBVIOUS
<1>10. Types'
  BY <1>1, <1>4, <1>7, <1>9 DEF IInv, Types
<1>11. Control'
  BY <1>1, <1>3, <1>4, <1>8 DEF Control
<1>12. Filled'
  <2> SUFFICES ASSUME ~realloc'
               PROVE  /\ opt'.window = window_size(opt'.redline, opt'.rate)
                      /\ Fits(queue', key_window', table', recent', opt'.window)
    BY DEF Filled
  <2>1. opt'.window = window_size(opt'.redline, opt'.rate)
    BY <1>7
  <2>2. fails = "none"
    BY <1>1
  <2>3. Fits(ring_array_create(w), [size |-> 0, max |-> w], kc_map_init(w), << >>, w)
    BY <1>6, FreshFits
  <2> HIDE DEF w
  <2> QED
    BY <1>1, <1>2, <1>7, <2>1, <2>2, <2>3
<1>13. Crashed' /\ SignalJustified'
  BY <1>1, <1>8 DEF Crashed, SignalJustified
<1> QED
  BY <1>10, <1>11, <1>12, <1>13 DEF IInv

\* A sample: the window and the table still fit each other, and the counter it
\* was counted in is at most what the key has in the window.
LEMMA PushFits ==
    ASSUME NEW w \in Nat, w > 0, NEW q, NEW kw, NEW tbl, NEW r \in Seq(Key), NEW key \in Key,
           Fits(q, kw, tbl, r, w)
    PROVE  LET i == kc_map_find(tbl, key)
               tbl2 == kc_map_incr(tbl, i, key)
               q2 == ring_array_push(q, i)
               now == Append(r, key)
           IN  /\ Len(r) + 1 # w =>
                     Fits(q2, [size |-> Len(r) + 1, max |-> w], tbl2, now, w)
               /\ Len(r) + 1 = w =>
                     Fits(ring_array_pop(q2), [size |-> Len(r), max |-> w],
                          kc_map_decr(tbl2, q2.data[q2.rpos]), Tail(now), w)
               /\ tbl2[i].count \in Nat /\ Occurrences(now, key) \in Nat
               /\ tbl2[i].count <= Occurrences(now, key)
               /\ Distinct(2 * w) => tbl2[i].count = Occurrences(now, key)
<1> DEFINE m == 2 * w
           n == Len(r)
           i == kc_map_find(tbl, key)
           tbl2 == kc_map_incr(tbl, i, key)
           q2 == ring_array_push(q, i)
           now == Append(r, key)
<1>1. n \in Nat /\ m \in Nat /\ m > 0 /\ n < w /\ n < m
  BY DEF Fits
<1>2. /\ q \in Ring(w) /\ tbl \in Table(m) /\ ring_array_nelem(q) = n
      /\ Window(tbl, m, Elements(q), r, n) /\ Homed(tbl, m)
  BY DEF Fits
<1>3. now \in Seq(Key) /\ Len(now) = n + 1 /\ Longer(r, now, n, key)
  BY DEF Longer
<1>4. Tail(now) \in Seq(Key) /\ Len(Tail(now)) = n /\ Shorter(now, Tail(now), n + 1)
  <2>1. now \in Seq(Key) /\ Len(now) = n + 1 /\ n + 1 > 0
    BY <1>1, <1>3
  <2> HIDE DEF now
  <2>2. now # << >>
    BY <2>1
  <2>3. Tail(now) \in Seq(Key) /\ Len(Tail(now)) = n
    BY <1>1, <2>1, <2>2
  <2>4. \A j \in 1..n : Tail(now)[j] = now[j + 1]
    BY <1>1, <2>1, <2>2
  <2> QED
    BY <1>1, <2>3, <2>4 DEF Shorter
<1>5. Occurrences(now, key) = Cardinality(At(now, n + 1, key))
  <2>1. DOMAIN now = 1..(n + 1)
    BY <1>1, <1>3
  <2> QED
    BY <2>1 DEF Occurrences, At
<1> HIDE DEF m, n, now
<1>6. \E e \in 0..(m - 1) : tbl[e].count = 0
  BY <1>1, <1>2, FreeEntry
<1>7. /\ i \in 0..(m - 1) /\ i \in Nat /\ kc_map_match(tbl, i, key)
      /\ Distinct(m) => i = home(key, m)
  BY <1>1, <1>2, <1>6, FindFacts
<1> HIDE DEF i
<1>8. /\ q2 \in Ring(w) /\ ring_array_nelem(q2) = n + 1
      /\ Longer(Elements(q), Elements(q2), n, i)
  BY <1>1, <1>2, <1>7, PushFacts
<1>9. /\ tbl2 \in Table(m) /\ Window(tbl2, m, Elements(q2), now, n + 1)
      /\ tbl2[i].key = key /\ tbl2[i].count > 0 /\ Homed(tbl2, m)
  BY <1>1, <1>2, <1>3, <1>7, <1>8, IncrWindow
<1> HIDE DEF tbl2, q2
<1>10. tbl2[i].count \in Nat
  BY <1>7, <1>9 DEF Table, Entry
<1>11. n + 1 \in Nat /\ n + 1 > 0 /\ (n + 1) - 1 = n /\ ring_array_nelem(q2) > 0
  BY <1>1, <1>8
<1>12. /\ Occurrences(now, key) \in Nat
       /\ tbl2[i].count <= Occurrences(now, key)
       /\ Distinct(m) => tbl2[i].count = Occurrences(now, key)
  <2>1. Occurrences(now, key) \in Nat
    BY <1>5, <1>11, AtFinite
  <2>2. /\ tbl2[i].count <= Cardinality(At(now, n + 1, key))
        /\ Homed(tbl2, m) /\ Distinct(m) => tbl2[i].count = Cardinality(At(now, n + 1, key))
    BY <1>1, <1>7, <1>9, <1>11, CountsOwn
  <2> QED
    BY <1>5, <1>9, <2>1, <2>2
<1>13. ASSUME n + 1 # w
       PROVE  Fits(q2, [size |-> n + 1, max |-> w], tbl2, now, w)
  <2>1. n + 1 < w
    BY <1>1, <1>13
  <2> QED
    BY <1>3, <1>8, <1>9, <2>1 DEF Fits, m
<1>14. ASSUME n + 1 = w
       PROVE  Fits(ring_array_pop(q2), [size |-> n, max |-> w],
                   kc_map_decr(tbl2, q2.data[q2.rpos]), Tail(now), w)
  <2> DEFINE q3 == ring_array_pop(q2)
             tbl3 == kc_map_decr(tbl2, q2.data[q2.rpos])
  <2>1. /\ q3 \in Ring(w) /\ ring_array_nelem(q3) = n
        /\ Shorter(Elements(q2), Elements(q3), n + 1)
        /\ q2.data[q2.rpos] = Elements(q2)[1]
    BY <1>8, <1>11, PopFacts
  <2>2. tbl3 = kc_map_decr(tbl2, Elements(q2)[1])
    BY <2>1
  <2> HIDE DEF q3, tbl3
  <2>3. /\ tbl3 \in Table(m) /\ Window(tbl3, m, Elements(q3), Tail(now), (n + 1) - 1)
        /\ Homed(tbl3, m)
    BY <1>1, <1>4, <1>9, <1>11, <2>1, <2>2, DecrWindow
  <2>4. Fits(q3, [size |-> n, max |-> w], tbl3, Tail(now), w)
    BY <1>1, <1>4, <1>11, <2>1, <2>3 DEF Fits, m
  <2> QED
    BY <2>4 DEF q3, tbl3
<1> QED
  BY <1>10, <1>12, <1>13, <1>14 DEF m, n, i, tbl2, q2, now

\* A signal for the frequency means a count at the threshold.
LEMMA SignalFacts ==
    ASSUME NEW count, NEW size, NEW elapsed, Signal(count, size, elapsed) = "qps"
    PROVE  count >= opt.threshold
BY DEF Signal

\* A sample is taken, skipped, or finds no room.
LEMMA SampleStep ==
    ASSUME IInv, NEW t \in Thread, NEW size \in Size, NEW elapsed \in Elapsed,
           hotkey_sample(t, size, elapsed)
    PROVE  IInv'
<1>1. /\ UNCHANGED <<opt, enable, realloc>> /\ fate = "ok" /\ at[t].do = "sample"
      /\ counter' = (counter + 1) % CounterMod /\ at' = [at EXCEPT ![t] = Idle]
  BY DEF hotkey_sample
<1>2. at \in [Thread -> Doing] /\ Idle \in Doing /\ Idle.do = "idle"
  BY DEF IInv, Types, Doing, Idle
<1>3. /\ at' \in [Thread -> Doing]
      /\ at'[t] = Idle /\ \A u \in Thread : u # t => at'[u] = at[u]
  BY <1>1, <1>2
<1>4. ~realloc
  BY <1>1 DEF IInv, Control
<1>5. at[t].key \in Key
  BY <1>1, <1>2, DoingFacts
<1>6. counter' \in 0..(CounterMod - 1)
  <2>1. counter + 1 \in Int /\ CounterMod \in Nat /\ CounterMod > 0
    BY HotkeyAssumption DEF IInv, Types
  <2> QED
    BY <1>1, <2>1, Mod
<1> DEFINE w == opt.window
           key == at[t].key
<1>7. /\ w \in Nat /\ w = window_size(opt.redline, opt.rate)
      /\ opt.redline \in Redline /\ opt.rate \in Rate /\ opt.threshold \in Nat
      /\ recent \in Seq(Key)
      /\ Fits(queue, key_window, table, recent, w)
  BY <1>1, <1>4 DEF IInv, Types, Filled
<1>8. Control'
  <2>1. \A u \in Thread : at'[u].do = at[u].do \/ at'[u].do = "idle"
    BY <1>2, <1>3
  <2>2. \A u \in Thread : at[u].do # "realloc"
    BY <1>1, <1>4 DEF IInv, Control
  <2> QED
    BY <1>1, <1>4, <2>1, <2>2 DEF Control
<1>9. Cardinality(DOMAIN table) = 2 * w /\ DOMAIN table = 0..(2 * w - 1)
  <2>1. 2 * w \in Nat /\ table \in Table(2 * w)
    BY <1>7 DEF Fits
  <2> QED
    BY <2>1, TableSize
<1>10. CASE UNCHANGED <<queue, key_window, table, recent, verdict, fate>>
  <2>1. Types'
    BY <1>1, <1>3, <1>6, <1>10 DEF IInv, Types
  <2>2. Filled' /\ Crashed' /\ SignalJustified'
    BY <1>1, <1>10 DEF IInv, Filled, Crashed, SignalJustified
  <2> QED
    BY <1>8, <2>1, <2>2 DEF IInv
<1>11. CASE /\ DOMAIN table = {} /\ fate' = "crash"
            /\ UNCHANGED <<queue, key_window, table, recent, verdict>>
  <2>1. w = 0
    <3> SUFFICES ASSUME w # 0
                 PROVE  FALSE
      OBVIOUS
    <3>1. 0 \in 0..(2 * w - 1)
      BY <1>7
    <3> QED
      BY <1>9, <1>11, <3>1
  <2>2. opt.redline < opt.rate
    BY <1>7, <2>1, SizeFacts
  <2>3. Types'
    BY <1>1, <1>3, <1>6, <1>11 DEF IInv, Types
  <2>4. Filled' /\ Crashed' /\ SignalJustified'
    BY <1>1, <1>11, <2>2 DEF IInv, Filled, Crashed, SignalJustified
  <2> QED
    BY <1>8, <2>3, <2>4 DEF IInv
<1>12. CASE DOMAIN table # {} /\ hotkey_push(at[t].key, size, elapsed) /\ fate' = fate
  <2> DEFINE i == kc_map_find(table, key)
             tbl == kc_map_incr(table, i, key)
             arr == ring_array_push(queue, i)
             now == Append(recent, key)
             n == Len(recent)
             full == key_window_full(key_window.size + 1, key_window.max)
  <2>1. w > 0
    <3>1. w # 0
      BY <1>9, <1>12
    <3> QED
      BY <1>7, <3>1
  <2>2. key_window = [size |-> n, max |-> w] /\ n \in Nat
    BY <1>7 DEF Fits
  <2>3. full <=> n + 1 = w
    BY <2>2 DEF key_window_full
  <2>4. /\ n + 1 # w => Fits(arr, [size |-> n + 1, max |-> w], tbl, now, w)
        /\ n + 1 = w => Fits(ring_array_pop(arr), [size |-> n, max |-> w],
                             kc_map_decr(tbl, arr.data[arr.rpos]), Tail(now), w)
        /\ tbl[i].count \in Nat /\ Occurrences(now, key) \in Nat
        /\ tbl[i].count <= Occurrences(now, key)
        /\ Distinct(2 * w) => tbl[i].count = Occurrences(now, key)
    BY <1>5, <1>7, <2>1, PushFits
  <2>5. /\ table' = IF full THEN kc_map_decr(tbl, arr.data[arr.rpos]) ELSE tbl
        /\ queue' = IF full THEN ring_array_pop(arr) ELSE arr
        /\ key_window' = [key_window EXCEPT !.size = IF full THEN @ ELSE @ + 1]
        /\ recent' = IF full THEN Tail(now) ELSE now
        /\ verdict' = IF full
                      THEN [key |-> key, count |-> tbl[i].count, real |-> Occurrences(now, key),
                            of |-> Len(now), need |-> opt.threshold,
                            homes |-> Cardinality(DOMAIN table),
                            signal |-> Signal(tbl[i].count, size, elapsed)]
                      ELSE Null
    BY <1>12 DEF hotkey_push
  <2>6. now \in Seq(Key) /\ Len(now) = n + 1
    BY <1>5, <1>7
  <2>7. Tail(now) \in Seq(Key)
    <3>1. now # << >>
      BY <2>2, <2>6
    <3> HIDE DEF now
    <3> QED
      BY <2>6, <3>1
  <2> HIDE DEF i, tbl, arr, now, n, full, key, w
  <2>8. recent' \in Seq(Key)
    BY <2>5, <2>6, <2>7
  <2>9. Types'
    BY <1>1, <1>3, <1>6, <1>12, <2>8 DEF IInv, Types
  <2>10. Fits(queue', key_window', table', recent', w)
    <3>1. CASE full
      <4>1. key_window' = [size |-> n, max |-> w]
        BY <2>2, <2>5, <3>1
      <4> QED
        BY <2>3, <2>4, <2>5, <3>1, <4>1
    <3>2. CASE ~full
      <4>1. key_window' = [size |-> n + 1, max |-> w]
        BY <2>2, <2>5, <3>2
      <4> QED
        BY <2>3, <2>4, <2>5, <3>2, <4>1
    <3> QED
      BY <3>1, <3>2
  <2>11. Filled' /\ Crashed'
    BY <1>1, <1>7, <1>12, <2>10 DEF Filled, Crashed, w
  <2>12. SignalJustified'
    <3>1. CASE full
      <4>1. /\ verdict'.count = tbl[i].count /\ verdict'.real = Occurrences(now, key)
            /\ verdict'.of = Len(now) /\ verdict'.need = opt.threshold
            /\ verdict'.homes = Cardinality(DOMAIN table)
            /\ verdict'.signal = Signal(tbl[i].count, size, elapsed)
        BY <2>5, <3>1
      <4>2. verdict'.of = opt'.window
        BY <1>1, <2>3, <2>6, <3>1, <4>1 DEF w
      <4>3. ASSUME Cardinality(Homes(verdict'.homes)) = Cardinality(Key)
            PROVE  verdict'.count = verdict'.real
        <5>1. verdict'.homes = 2 * w
          BY <1>9, <4>1
        <5>2. Distinct(2 * w)
          BY <4>3, <5>1, HomesDistinct
        <5> QED
          BY <2>4, <4>1, <5>2
      <4>4. ASSUME verdict'.signal = "qps"
            PROVE  verdict'.real >= verdict'.need
        <5>1. tbl[i].count >= opt.threshold
          BY <4>1, <4>4, SignalFacts
        <5> QED
          BY <1>7, <2>4, <4>1, <5>1
      <4> QED
        BY <2>4, <4>1, <4>2, <4>3, <4>4 DEF SignalJustified
    <3>2. CASE ~full
      BY <2>5, <3>2 DEF SignalJustified
    <3> QED
      BY <3>1, <3>2
  <2> QED
    BY <1>8, <2>9, <2>11, <2>12 DEF IInv
<1> QED
  BY <1>10, <1>11, <1>12 DEF hotkey_sample

\* Every step preserves the invariant.
LEMMA NextIInv ==
    ASSUME IInv, [Next]_vars
    PROVE  IInv'
<1>1. CASE UNCHANGED vars
  BY <1>1 DEF vars, IInv, Types, Control, Filled, Crashed, SignalJustified
<1>2. CASE Next
  <2>1. PICK t \in Thread :
           \/ \E key \in Key : item_get(t, key)
           \/ \E size \in Size, elapsed \in Elapsed : hotkey_sample(t, size, elapsed)
           \/ asc_process_hk_enable(t) \/ hk_enable_store(t) \/ hk_disable(t)
           \/ \E redline \in Redline : asc_process_hk_resize(t, "redline", redline)
           \/ \E rate \in Rate : asc_process_hk_resize(t, "rate", rate)
           \/ hotkey_update(t)
           \/ \E fails \in {"none", "window", "map"} : hotkey_realloc(t, fails)
           \/ \E share \in Share : hotkey_update_qps_threshold(t, share)
           \/ \E bw \in Bw : hotkey_update_bw_threshold(t, bw)
    BY <1>2 DEF Next
  <2> QED
    BY <2>1, ControlSteps, SampleStep, UpdateStep, ReallocStep, ThresholdSteps
<1> QED
  BY <1>1, <1>2

LEMMA Invariance == Spec => []IInv
<1>1. Init => IInv
  BY InitIInv
<1>2. IInv /\ [Next]_vars => IInv'
  BY NextIInv
<1> QED
  BY <1>1, <1>2, PTL DEF Spec

-----------------------------------------------------------------------------
(***************************************************************************)
(* What the runs check.                                                    *)
(***************************************************************************)
\* As long as no reallocation has begun while another thread was between a check
\* and what follows it, or had enabled the detector since (fate is "race" from
\* then on, and nothing is claimed): whenever a sample may be taken (item_get,
\* hotkey_sample), no reallocation is under way, and window and table are there
\* with the sizes of the parameters, also after reallocations that failed half
\* way; and hash % 0 needs a redline below the sampling rate.
THEOREM SamplesAreSafe == Spec => []SamplesSafe
<1>1. IInv => SamplesSafe
  <2> SUFFICES ASSUME IInv
               PROVE  SamplesSafe
    OBVIOUS
  <2>1. opt \in [redline : Redline, rate : Rate, share : Share, bw : Bw,
                 window : Nat, threshold : Nat]
    BY DEF IInv, Types
  <2>2. \A t \in Thread : at[t].do \in {"idle", "sample", "enable", "update", "realloc"}
    BY DoingFacts DEF IInv, Types
  <2>3. TypeOK
    BY <2>1, <2>2 DEF IInv, Types, TypeOK
  <2>4. ASSUME fate = "ok", enable \/ Sampling
        PROVE  /\ \A t \in Thread : at[t].do # "realloc"
               /\ queue # Null /\ queue.cap = opt.window
               /\ key_window.max = opt.window
               /\ Cardinality(DOMAIN table) = 2 * opt.window
    <3>1. ~realloc /\ \A t \in Thread : at[t].do # "realloc"
      BY <2>4 DEF IInv, Control, Sampling
    <3>2. Fits(queue, key_window, table, recent, opt.window)
      BY <2>4, <3>1 DEF IInv, Filled
    <3>3. queue \in Ring(opt.window)
      BY <3>2 DEF Fits
    <3>4. queue.cap = opt.window /\ queue # Null
      <4>1. DOMAIN queue = {"cap", "rpos", "wpos", "data"} /\ queue.cap = opt.window
        BY <3>3 DEF Ring
      <4>2. DOMAIN Null = {}
        BY DEF Null
      <4> QED
        BY <4>1, <4>2
    <3>5. key_window.max = opt.window
      BY <3>2 DEF Fits
    <3>6. Cardinality(DOMAIN table) = 2 * opt.window
      <4>1. 2 * opt.window \in Nat /\ table \in Table(2 * opt.window)
        BY <2>1, <3>2 DEF Fits
      <4> QED
        BY <4>1, TableSize
    <3> QED
      BY <3>1, <3>4, <3>5, <3>6
  <2>5. fate = "crash" => opt.redline < opt.rate
    BY DEF IInv, Crashed
  <2> QED
    BY <2>3, <2>4, <2>5 DEF SamplesSafe
<1> QED
  BY <1>1, Invariance, PTL

\* Nobody raced, and a change that was let through found the detector disabled.
NoRace == fate # "race" /\ \A t \in Thread : at[t].do = "update" => ~enable

\* With one worker thread (-t 1) nothing falls between the check of
\* asc_process_hotkey and the reallocation: it never races, and samples are safe
\* without exception but that of a redline below the sampling rate.
THEOREM OneWorkerIsSafe ==
    ASSUME \A t, u \in Thread : t = u
    PROVE  Spec => [](SamplesSafe /\ fate # "race")
<1>1. Init => NoRace
  <2> SUFFICES ASSUME Init PROVE NoRace
    OBVIOUS
  <2>1. fate = "ok" /\ \A t \in Thread : at[t].do = "idle"
    BY DEF Init, Idle
  <2> QED
    BY <2>1 DEF NoRace
<1>2. IInv /\ NoRace /\ [Next]_vars => NoRace'
  <2> SUFFICES ASSUME IInv, NoRace, [Next]_vars PROVE NoRace'
    OBVIOUS
  <2>1. CASE UNCHANGED vars
    BY <2>1 DEF vars, NoRace
  <2>2. ASSUME NEW t \in Thread, NEW x, at' = [at EXCEPT ![t] = x], x.do # "update",
               fate' # "race"
        PROVE  NoRace'
    <3>1. \A u \in Thread : u = t /\ at'[u] = x
      BY <2>2 DEF IInv, Types
    <3> QED
      BY <2>2, <3>1 DEF NoRace
  <2>3. ASSUME NEW t \in Thread,
               \/ \E key \in Key : item_get(t, key)
               \/ \E size \in Size, elapsed \in Elapsed : hotkey_sample(t, size, elapsed)
               \/ asc_process_hk_enable(t) \/ hk_enable_store(t)
               \/ \E fails \in {"none", "window", "map"} : hotkey_realloc(t, fails)
        PROVE  NoRace'
    <3>1. PICK x : at' = [at EXCEPT ![t] = x] /\ x.do # "update"
      BY <2>3 DEF item_get, hotkey_sample, asc_process_hk_enable, hk_enable_store,
                  hotkey_realloc, Idle
    <3>2. fate' \in {fate, "crash"}
      BY <2>3 DEF item_get, hotkey_sample, asc_process_hk_enable, hk_enable_store, hotkey_realloc
    <3> QED
      BY <2>2, <3>1, <3>2 DEF NoRace
  <2>4. ASSUME NEW t \in Thread,
               \/ hk_disable(t)
               \/ \E share \in Share : hotkey_update_qps_threshold(t, share)
               \/ \E bw \in Bw : hotkey_update_bw_threshold(t, bw)
        PROVE  NoRace'
    <3>1. at' = at /\ fate' = fate /\ (enable' = FALSE \/ enable' = enable)
      BY <2>4 DEF hk_disable, hotkey_update_qps_threshold, hotkey_update_bw_threshold
    <3>2. ~enable => ~enable'
      BY <3>1, Zenon
    <3> QED
      BY <3>1, <3>2 DEF NoRace
  <2>5. ASSUME NEW t \in Thread,
               \/ \E redline \in Redline : asc_process_hk_resize(t, "redline", redline)
               \/ \E rate \in Rate : asc_process_hk_resize(t, "rate", rate)
        PROVE  NoRace'
    BY <2>5 DEF NoRace, asc_process_hk_resize
  <2>6. ASSUME NEW t \in Thread, hotkey_update(t)
        PROVE  NoRace'
    <3>1. Alone(t) /\ ~enable
      BY <2>6 DEF Alone, hotkey_update, NoRace
    <3>2. PICK x \in {Idle, [do |-> "realloc"]} : at' = [at EXCEPT ![t] = x]
      BY <2>6 DEF hotkey_update
    <3>3. fate' \in {fate, "ok"} /\ x.do # "update"
      BY <2>6, <3>1 DEF hotkey_update, Idle
    <3> QED
      BY <2>2, <3>2, <3>3 DEF NoRace
  <2> QED
    BY <2>1, <2>3, <2>4, <2>5, <2>6 DEF Next
<1>3. NoRace => fate # "race"
  BY DEF NoRace
<1> QED
  BY <1>1, <1>2, <1>3, Invariance, SamplesAreSafe, PTL DEF Spec

\* Between samples every element of the ring points to a counter of its own key,
\* every counter of the table (kc_map_incr, kc_map_decr) is the number of
\* elements that point to it, and a probe finds a free entry to stop at.
THEOREM EntriesAreCounted == Spec => []EntriesCounted
<1>1. IInv => EntriesCounted
  <2> SUFFICES ASSUME IInv, fate = "ok", ~realloc
               PROVE  LET elems == Elements(queue)
                      IN  /\ Len(elems) = Len(recent) /\ key_window.size = Len(recent)
                          /\ \A i \in DOMAIN elems : table[elems[i]].key = recent[i]
                          /\ \A e \in DOMAIN table :
                                table[e].count = Cardinality({i \in DOMAIN elems : elems[i] = e})
                          /\ opt.window > 0 =>
                                /\ key_window.size < key_window.max
                                /\ \E e \in DOMAIN table : table[e].count = 0
    BY DEF EntriesCounted
  <2> DEFINE w == opt.window
             elems == Elements(queue)
             n == Len(recent)
  <2>1. w \in Nat /\ 2 * w \in Nat /\ n \in Nat
    BY DEF IInv, Types
  <2>2. Fits(queue, key_window, table, recent, w)
    BY DEF IInv, Filled
  <2> HIDE DEF w
  <2>3. /\ queue \in Ring(w) /\ ring_array_nelem(queue) = n
        /\ key_window = [size |-> n, max |-> w] /\ table \in Table(2 * w)
        /\ Window(table, 2 * w, elems, recent, n) /\ (w > 0 => n < w)
    BY <2>2 DEF Fits
  <2>4. Len(elems) = n /\ DOMAIN elems = 1..n
    BY <2>1, <2>3, RingFacts
  <2>5. DOMAIN table = 0..(2 * w - 1)
    BY <2>1, <2>3, TableSize
  <2> HIDE DEF elems, n
  <2>6. \A e : {i \in DOMAIN elems : elems[i] = e} = At(elems, n, e)
    BY <2>4 DEF At
  <2>7. w > 0 => \E e \in DOMAIN table : table[e].count = 0
    <3> SUFFICES ASSUME w > 0
                 PROVE  \E e \in DOMAIN table : table[e].count = 0
      OBVIOUS
    <3>1. n < 2 * w
      BY <2>1, <2>3
    <3> QED
      BY <2>1, <2>3, <2>5, <3>1, FreeEntry
  <2>8. \A e \in DOMAIN table : table[e].count = Cardinality({i \in DOMAIN elems : elems[i] = e})
    BY <2>3, <2>5, <2>6 DEF Window
  <2>9. \A i \in DOMAIN elems : table[elems[i]].key = recent[i]
    BY <2>3, <2>4 DEF Window
  <2>10. key_window.size = n /\ (w > 0 => key_window.size < key_window.max)
    BY <2>3
  <2> QED
    BY <2>4, <2>7, <2>8, <2>9, <2>10 DEF elems, n, w
<1> QED
  BY <1>1, Invariance, PTL

\* What hotkey_sample signals for its frequency occurs at least as often in the
\* window as the threshold asks, although a key may have two counters; and the
\* count is exact when no two keys have the same home.
THEOREM SignalsAreJustified == Spec => []SignalJustified
<1>1. IInv => SignalJustified
  BY DEF IInv
<1> QED
  BY <1>1, Invariance, PTL
=============================================================================
