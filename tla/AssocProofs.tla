---------------------------- MODULE AssocProofs -----------------------------
(***************************************************************************)
(* Proofs about the hash table, for every table size, set of items and     *)
(* hash function: every item can be found in every state of an expansion,  *)
(* no signal to the maintenance thread is lost, and lookups see a map that *)
(* only insertions and deletions change.                                   *)
(***************************************************************************)
EXTENDS Assoc, FiniteSetTheorems, TLAPS

\* The items in either table.
All == Contents(primary_hashtable) \cup Contents(old_hashtable)

Slot(it) == hash[item_key[it]] % HASHSIZE(hash_power)
OldSlot(it) == hash[item_key[it]] % HASHSIZE(hash_power - 1)

\* Items are in the buckets their keys hash to; the old table has those whose
\* bucket has not been moved, the primary one the others.
Placed ==
    /\ \A b \in DOMAIN primary_hashtable : \A it \in primary_hashtable[b] :
           Slot(it) = b /\ (expanding => OldSlot(it) < expand_bucket)
    /\ expanding => \A b \in DOMAIN old_hashtable : \A it \in old_hashtable[b] :
           OldSlot(it) = b /\ b >= expand_bucket

\* No key is in the tables twice.
OneEach == \A x, y \in All : item_key[x] = item_key[y] => x = y

Counts == IsFiniteSet(All) /\ nhash_item = Cardinality(All)

Inv == TypeOK /\ NoLostWakeup /\ Placed /\ OneEach /\ Counts

-----------------------------------------------------------------------------
\* A table has at least one bucket, and a hash value selects one of them.
LEMMA HashsizeFacts ==
    ASSUME NEW n \in Nat
    PROVE  /\ HASHSIZE(n) \in Nat /\ HASHSIZE(n) > 0
           /\ \A h \in Nat : h % HASHSIZE(n) \in 0..(HASHSIZE(n) - 1)
<1>1. IsFiniteSet(1..n) /\ Cardinality(1..n) = n
  BY FS_Interval
<1>2. IsFiniteSet(SUBSET (1..n)) /\ Cardinality(SUBSET (1..n)) = 2 ^ n
  BY <1>1, FS_SUBSET
<1>3. SUBSET (1..n) # {}
  OBVIOUS
<1>4. 2 ^ n \in Nat /\ 2 ^ n # 0
  BY <1>2, <1>3, FS_CardinalityType, FS_EmptySet
<1> QED
  BY <1>4 DEF HASHSIZE

\* The powers the proofs take are those of tables that exist.
LEMMA PowerFacts ==
    ASSUME TypeOK
    PROVE  /\ hash_power \in Nat /\ hash_power - 1 \in Nat
           /\ hash_power \in 0..MaxPower /\ hash_power - 1 \in 0..MaxPower
           /\ HASHSIZE(hash_power) \in Nat /\ HASHSIZE(hash_power) > 0
           /\ HASHSIZE(hash_power - 1) \in Nat /\ HASHSIZE(hash_power - 1) > 0
           /\ \A k \in Key : /\ hash[k] % HASHSIZE(hash_power) \in DOMAIN primary_hashtable
                             /\ expanding => hash[k] % HASHSIZE(hash_power - 1) \in DOMAIN old_hashtable
           /\ primary_hashtable # NULL
           /\ old_hashtable = NULL <=> ~expanding
<1>1. hash_power \in Nat /\ hash_power >= 1 /\ hash_power <= MaxPower /\ MaxPower \in Nat
  BY AssocAssumption DEF TypeOK, InitPower
<1>2. hash_power \in Nat /\ hash_power - 1 \in Nat /\ hash_power \in 0..MaxPower /\ hash_power - 1 \in 0..MaxPower
  BY <1>1
<1>3. /\ HASHSIZE(hash_power) \in Nat /\ HASHSIZE(hash_power) > 0
      /\ \A h \in Nat : h % HASHSIZE(hash_power) \in 0..(HASHSIZE(hash_power) - 1)
  BY <1>2, HashsizeFacts
<1>4. /\ HASHSIZE(hash_power - 1) \in Nat /\ HASHSIZE(hash_power - 1) > 0
      /\ \A h \in Nat : h % HASHSIZE(hash_power - 1) \in 0..(HASHSIZE(hash_power - 1) - 1)
  BY <1>2, HashsizeFacts
<1>5. \A k \in Key : hash[k] \in Nat
  BY AssocAssumption
<1>6. primary_hashtable # NULL
  BY <1>2, AssocAssumption DEF TypeOK
<1>7. old_hashtable = NULL <=> ~expanding
  BY <1>2, AssocAssumption DEF TypeOK
<1>8. DOMAIN primary_hashtable = 0..(HASHSIZE(hash_power) - 1)
  BY DEF TypeOK
<1>9. expanding => DOMAIN old_hashtable = 0..(HASHSIZE(hash_power - 1) - 1)
  BY DEF TypeOK
<1> QED
  BY <1>2, <1>3, <1>4, <1>5, <1>6, <1>7, <1>8, <1>9

\* What the tables hold, bucket by bucket.
LEMMA AllFacts ==
    ASSUME TypeOK
    PROVE  /\ All \subseteq Item
           /\ \A it : it \in All <=>
                 \/ \E b \in DOMAIN primary_hashtable : it \in primary_hashtable[b]
                 \/ expanding /\ \E b \in DOMAIN old_hashtable : it \in old_hashtable[b]
<1>1. primary_hashtable # NULL /\ (old_hashtable = NULL <=> ~expanding)
  BY PowerFacts
<1>2. \A it : it \in All <=>
                 \/ \E b \in DOMAIN primary_hashtable : it \in primary_hashtable[b]
                 \/ expanding /\ \E b \in DOMAIN old_hashtable : it \in old_hashtable[b]
  BY <1>1, Zenon DEF All, Contents
<1>3. \A b \in DOMAIN primary_hashtable : primary_hashtable[b] \subseteq Item
  BY DEF TypeOK
<1>4. expanding => \A b \in DOMAIN old_hashtable : old_hashtable[b] \subseteq Item
  BY DEF TypeOK
<1> QED
  BY <1>2, <1>3, <1>4

\* The bucket of a key is where the tables keep the items of that key.
LEMMA BucketHolds ==
    ASSUME TypeOK, Placed, NEW k \in Key, NEW it, item_key[it] = k
    PROVE  it \in Bucket(k) <=> it \in All
<1>1. it \in All <=>
         \/ \E b \in DOMAIN primary_hashtable : it \in primary_hashtable[b]
         \/ expanding /\ \E b \in DOMAIN old_hashtable : it \in old_hashtable[b]
  BY AllFacts
<1>2. /\ hash[k] % HASHSIZE(hash_power) \in DOMAIN primary_hashtable
      /\ expanding => hash[k] % HASHSIZE(hash_power - 1) \in DOMAIN old_hashtable
      /\ DOMAIN primary_hashtable \subseteq Nat
      /\ expanding => DOMAIN old_hashtable \subseteq Nat
      /\ expanding => expand_bucket \in Nat
  BY PowerFacts DEF TypeOK
<1>3. CASE expanding /\ OldSlot(it) >= expand_bucket
  <2>1. Bucket(k) = old_hashtable[OldSlot(it)]
    BY <1>3 DEF Bucket, assoc_get_bucket, OldSlot
  <2>2. \A b \in DOMAIN primary_hashtable : it \notin primary_hashtable[b]
    BY <1>2, <1>3 DEF Placed, OldSlot
  <2> QED
    BY <1>1, <1>2, <1>3, <2>1, <2>2 DEF Placed, OldSlot
<1>4. CASE ~(expanding /\ OldSlot(it) >= expand_bucket)
  <2>1. Bucket(k) = primary_hashtable[Slot(it)]
    BY <1>4 DEF Bucket, assoc_get_bucket, OldSlot, Slot
  <2>2. expanding => \A b \in DOMAIN old_hashtable : it \notin old_hashtable[b]
    BY <1>2, <1>4 DEF Placed, OldSlot
  <2> QED
    BY <1>1, <1>2, <1>4, <2>1, <2>2 DEF Placed, Slot
<1> QED
  BY <1>3, <1>4

\* A lookup finds the item of the key that is in the tables, if there is one.
LEMMA FindFacts ==
    ASSUME TypeOK, Placed, OneEach, NEW k \in Key
    PROVE  /\ \A it \in All : item_key[it] = k => assoc_find(k) = it
           /\ (\A it \in All : item_key[it] # k) => assoc_find(k) = NoItem
           /\ assoc_find(k) # NoItem => assoc_find(k) \in All /\ item_key[assoc_find(k)] = k
<1> DEFINE match == {it \in Bucket(k) : item_key[it] = k}
<1>1. \A it : it \in match <=> it \in All /\ item_key[it] = k
  BY BucketHolds
<1>2. CASE match = {}
  <2>1. assoc_find(k) = NoItem
    BY <1>2 DEF assoc_find
  <2> QED
    BY <1>1, <1>2, <2>1
<1>3. CASE match # {}
  <2>1. assoc_find(k) \in match
    BY <1>3 DEF assoc_find
  <2>2. assoc_find(k) \in All /\ item_key[assoc_find(k)] = k
    BY <1>1, <2>1
  <2>3. All \subseteq Item
    BY AllFacts
  <2> QED
    BY <2>2, <2>3 DEF OneEach
<1> QED
  BY <1>2, <1>3

-----------------------------------------------------------------------------
\* What AllFacts and FindFacts say, as predicates of a state.
AllIs ==
    /\ All \subseteq Item
    /\ \A it : it \in All <=>
          \/ \E b \in DOMAIN primary_hashtable : it \in primary_hashtable[b]
          \/ expanding /\ \E b \in DOMAIN old_hashtable : it \in old_hashtable[b]

FindIs ==
    \A k \in Key :
        /\ \A it \in All : item_key[it] = k => assoc_find(k) = it
        /\ (\A it \in All : item_key[it] # k) => assoc_find(k) = NoItem
        /\ assoc_find(k) # NoItem => assoc_find(k) \in All /\ item_key[assoc_find(k)] = k

\* AllFacts in the state after a step.
LEMMA AllFactsNext == TypeOK' => AllIs'
<1>1. TypeOK => AllIs
  BY AllFacts DEF AllIs
<1> QED
  BY <1>1, PTL

\* FindFacts in the state after a step.
LEMMA FindFactsNext == Inv' => FindIs'
<1>1. Inv => FindIs
  BY FindFacts DEF FindIs, Inv
<1> QED
  BY <1>1, PTL

\* The empty table is placed, has no item and counts none.
LEMMA InitInv == Init => Inv
<1> SUFFICES ASSUME Init PROVE Inv
  OBVIOUS
<1>1. TypeOK
  <2>1. InitPower \in Nat /\ InitPower <= MaxPower /\ InitPower \in InitPower..MaxPower
    BY AssocAssumption DEF InitPower
  <2>2. assoc_create_table(HASHSIZE(InitPower)) \in [0..(HASHSIZE(InitPower) - 1) -> SUBSET Item]
    BY DEF assoc_create_table
  <2> QED
    BY <2>1, <2>2 DEF Init, TypeOK
<1>2. \A b \in DOMAIN primary_hashtable : primary_hashtable[b] = {}
  BY DEF Init, assoc_create_table
<1>3. All = {}
  BY <1>1, <1>2, AllFacts DEF Init
<1>4. Placed
  BY <1>2 DEF Placed, Init
<1>5. OneEach
  BY <1>3 DEF OneEach
<1>6. Counts
  BY <1>3, FS_EmptySet DEF Counts, Init
<1>7. NoLostWakeup
  BY DEF NoLostWakeup, Init
<1> QED
  BY <1>1, <1>4, <1>5, <1>6, <1>7 DEF Inv

\* One more item, of a key that was absent, keeps the keys apart and the count.
LEMMA AddOne ==
    ASSUME OneEach, Counts, NEW it \in Item, \A x \in All : item_key[x] # item_key[it],
           All' = All \cup {it}, nhash_item' = nhash_item + 1
    PROVE  OneEach' /\ Counts'
<1>1. it \notin All
  OBVIOUS
<1>2. OneEach'
  BY DEF OneEach
<1>3. IsFiniteSet(All \cup {it}) /\ Cardinality(All \cup {it}) = Cardinality(All) + 1
  BY <1>1, FS_AddElement DEF Counts
<1> QED
  BY <1>2, <1>3 DEF Counts

\* One item less keeps the keys apart and the count.
LEMMA RemoveOne ==
    ASSUME OneEach, Counts, NEW it \in All,
           All' = All \ {it}, nhash_item' = nhash_item - 1
    PROVE  OneEach' /\ Counts'
<1>1. OneEach'
  BY DEF OneEach
<1>2. IsFiniteSet(All \ {it}) /\ Cardinality(All \ {it}) = Cardinality(All) - 1
  BY FS_RemoveElement DEF Counts
<1> QED
  BY <1>1, <1>2 DEF Counts

\* assoc_insert puts the item where lookups will find it, also when the
\* insertion starts an expansion.
LEMMA InsertStep ==
    ASSUME Inv, NEW it \in Item, assoc_insert(it)
    PROVE  Inv' /\ All' = All \cup {it}
<1> DEFINE k == item_key[it]
<1> DEFINE w == assoc_get_bucket(k)
<1> DEFINE grown(t, b) == [t EXCEPT ![b] = @ \cup {it}]
<1> USE DEF Inv
<1>1. k \in Key
  BY AssocAssumption
<1>2. \A x \in All : item_key[x] # k
  <2>1. All \subseteq Item
    BY AllFacts
  <2> QED
    BY <1>1, <2>1, FindFacts, AssocAssumption DEF assoc_insert
<1>3. /\ hash_power \in Nat /\ hash_power \in InitPower..MaxPower
      /\ InitPower \in Nat /\ MaxPower \in Nat
      /\ HASHSIZE(hash_power) \in Nat /\ HASHSIZE(hash_power) > 0
      /\ Slot(it) \in DOMAIN primary_hashtable
      /\ expanding => OldSlot(it) \in DOMAIN old_hashtable
  BY <1>1, PowerFacts, AssocAssumption DEF TypeOK, Slot, OldSlot, InitPower
<1>4. nhash_item' = nhash_item + 1
  BY DEF assoc_insert
<1>5. CASE /\ assoc_expand_needed(nhash_item + 1)
           /\ hash_power < MaxPower
           /\ old_hashtable' = grown(primary_hashtable, Slot(it))
           /\ primary_hashtable' = assoc_create_table(HASHSIZE(hash_power + 1))
           /\ hash_power' = hash_power + 1
           /\ expanding' = TRUE
           /\ expand_bucket' = 0
           /\ maint' = "running"
  <2>1. ~expanding /\ hash_power' - 1 = hash_power
    BY <1>3, <1>5 DEF assoc_expand_needed
  <2>2. old_hashtable' \in [0..(HASHSIZE(hash_power) - 1) -> SUBSET Item]
    BY <1>5 DEF TypeOK
  <2>3. primary_hashtable' \in [0..(HASHSIZE(hash_power + 1) - 1) -> SUBSET Item]
    BY <1>5 DEF assoc_create_table
  <2>4. TypeOK'
    BY <1>3, <1>4, <1>5, <2>1, <2>2, <2>3 DEF TypeOK
  <2>5. \A b \in DOMAIN primary_hashtable' : primary_hashtable'[b] = {}
    BY <1>5 DEF assoc_create_table
  <2>6. DOMAIN old_hashtable' = DOMAIN primary_hashtable
    BY <1>5
  <2>7. \A b \in DOMAIN primary_hashtable :
           old_hashtable'[b] = IF b = Slot(it) THEN primary_hashtable[b] \cup {it} ELSE primary_hashtable[b]
    BY <1>3, <1>5
  <2>8. All' = All \cup {it}
    <3>1. AllIs'
      BY <2>4, AllFactsNext
    <3>2. \A x : x \in All' <=> \E b \in DOMAIN primary_hashtable : x \in old_hashtable'[b]
      BY <1>5, <2>5, <2>6, <3>1 DEF AllIs
    <3>3. \A x : x \in All <=> \E b \in DOMAIN primary_hashtable : x \in primary_hashtable[b]
      BY <2>1, AllFacts
    <3> QED
      BY <1>3, <2>7, <3>2, <3>3
  <2>9. Placed'
    <3>1. \A x : OldSlot(x)' = Slot(x)
      BY <2>1 DEF OldSlot, Slot
    <3>2. \A b \in DOMAIN primary_hashtable : b >= 0
      BY DEF TypeOK
    <3> QED
      BY <1>5, <2>5, <2>6, <2>7, <3>1, <3>2 DEF Placed
  <2> QED
    BY <1>2, <1>4, <1>5, <2>4, <2>8, <2>9, AddOne DEF NoLostWakeup
<1>6. CASE /\ w.old
           /\ primary_hashtable' = primary_hashtable
           /\ old_hashtable' = grown(old_hashtable, OldSlot(it))
           /\ UNCHANGED <<hash_power, expanding, expand_bucket, maint>>
  <2>1. expanding /\ OldSlot(it) >= expand_bucket
    BY <1>6 DEF assoc_get_bucket, OldSlot
  <2>2. old_hashtable' \in [0..(HASHSIZE(hash_power - 1) - 1) -> SUBSET Item]
    BY <1>6, <2>1 DEF TypeOK
  <2>3. TypeOK'
    BY <1>4, <1>6, <2>1, <2>2 DEF TypeOK
  <2>4. DOMAIN old_hashtable' = DOMAIN old_hashtable
    BY <1>6
  <2>5. \A b \in DOMAIN old_hashtable :
           old_hashtable'[b] = IF b = OldSlot(it) THEN old_hashtable[b] \cup {it} ELSE old_hashtable[b]
    BY <1>3, <1>6, <2>1
  <2>6. All' = All \cup {it}
    <3>1. AllIs'
      BY <2>3, AllFactsNext
    <3>2. AllIs
      BY AllFacts DEF AllIs
    <3> QED
      BY <1>3, <1>6, <2>1, <2>4, <2>5, <3>1, <3>2 DEF AllIs
  <2>7. Placed'
    <3>1. \A x : OldSlot(x)' = OldSlot(x) /\ Slot(x)' = Slot(x)
      BY <1>6 DEF OldSlot, Slot
    <3> QED
      BY <1>6, <2>1, <2>4, <2>5, <3>1 DEF Placed
  <2> QED
    BY <1>2, <1>4, <1>6, <2>3, <2>6, <2>7, AddOne DEF NoLostWakeup
<1>7. CASE /\ ~w.old
           /\ primary_hashtable' = grown(primary_hashtable, Slot(it))
           /\ old_hashtable' = old_hashtable
           /\ UNCHANGED <<hash_power, expanding, expand_bucket, maint>>
  <2>1. expanding => OldSlot(it) < expand_bucket
    <3>1. expanding => OldSlot(it) \in Nat /\ expand_bucket \in Nat
      BY <1>3 DEF TypeOK
    <3> QED
      BY <1>7, <3>1 DEF assoc_get_bucket, OldSlot
  <2>2. primary_hashtable' \in [0..(HASHSIZE(hash_power) - 1) -> SUBSET Item]
    BY <1>7 DEF TypeOK
  <2>3. TypeOK'
    BY <1>4, <1>7, <2>2 DEF TypeOK
  <2>4. DOMAIN primary_hashtable' = DOMAIN primary_hashtable
    BY <1>7
  <2>5. \A b \in DOMAIN primary_hashtable :
           primary_hashtable'[b] = IF b = Slot(it) THEN primary_hashtable[b] \cup {it} ELSE primary_hashtable[b]
    BY <1>3, <1>7
  <2>6. All' = All \cup {it}
    <3>1. AllIs'
      BY <2>3, AllFactsNext
    <3>2. AllIs
      BY AllFacts DEF AllIs
    <3> QED
      BY <1>3, <1>7, <2>4, <2>5, <3>1, <3>2 DEF AllIs
  <2>7. Placed'
    <3>1. \A x : OldSlot(x)' = OldSlot(x) /\ Slot(x)' = Slot(x)
      BY <1>7 DEF OldSlot, Slot
    <3> QED
      BY <1>7, <2>1, <2>4, <2>5, <3>1 DEF Placed
  <2> QED
    BY <1>2, <1>4, <1>7, <2>3, <2>6, <2>7, AddOne DEF NoLostWakeup
<1> QED
  <2>1. w.old => expanding /\ w.b = OldSlot(it)
    BY DEF assoc_get_bucket, OldSlot
  <2>2. ~w.old => w.b = Slot(it)
    BY DEF assoc_get_bucket, Slot
  <2>3. assoc_expand_needed(nhash_item + 1) => ~expanding /\ old_hashtable = NULL
    BY DEF assoc_expand_needed, TypeOK
  <2>4. \/ /\ assoc_expand_needed(nhash_item + 1)
           /\ hash_power < MaxPower
           /\ old_hashtable' = IF w.old THEN primary_hashtable ELSE grown(primary_hashtable, w.b)
           /\ primary_hashtable' = assoc_create_table(HASHSIZE(hash_power + 1))
           /\ hash_power' = hash_power + 1
           /\ expanding' = TRUE
           /\ expand_bucket' = 0
           /\ maint' = "running"
        \/ /\ primary_hashtable' = IF w.old THEN primary_hashtable ELSE grown(primary_hashtable, w.b)
           /\ old_hashtable' = IF assoc_expand_needed(nhash_item + 1) THEN NULL
                               ELSE IF w.old THEN grown(old_hashtable, w.b) ELSE old_hashtable
           /\ UNCHANGED <<hash_power, expanding, expand_bucket, maint>>
    BY DEF assoc_insert
  <2> QED
    BY <1>5, <1>6, <1>7, <2>1, <2>2, <2>3, <2>4

\* assoc_delete removes the item a lookup of the key finds, and no other.
LEMMA DeleteStep ==
    ASSUME Inv, NEW k \in Key, assoc_delete(k)
    PROVE  Inv' /\ All' = All \ {assoc_find(k)} /\ assoc_find(k) \in All
<1> DEFINE it == assoc_find(k)
<1> DEFINE w == assoc_get_bucket(k)
<1> DEFINE shrunk(t, b) == [t EXCEPT ![b] = @ \ {it}]
<1> USE DEF Inv
<1>1. it \in All /\ item_key[it] = k
  BY FindFacts DEF assoc_delete
<1>2. nhash_item \in Nat /\ nhash_item # 0
  BY <1>1, FS_EmptySet DEF Counts, TypeOK
<1>3. nhash_item' = nhash_item - 1 /\ nhash_item' \in Nat
  BY <1>2 DEF assoc_delete
<1>4. UNCHANGED <<hash_power, expanding, expand_bucket, maint>>
  BY DEF assoc_delete
<1>5. /\ Slot(it) \in DOMAIN primary_hashtable
      /\ expanding => OldSlot(it) \in DOMAIN old_hashtable
  BY <1>1, PowerFacts DEF Slot, OldSlot
<1>6. \A x : OldSlot(x)' = OldSlot(x) /\ Slot(x)' = Slot(x)
  BY <1>4 DEF OldSlot, Slot
<1>7. AllIs
  BY AllFacts DEF AllIs
<1>8. CASE /\ w.old
           /\ old_hashtable' = shrunk(old_hashtable, OldSlot(it))
           /\ primary_hashtable' = primary_hashtable
  <2>1. expanding /\ OldSlot(it) >= expand_bucket
    BY <1>1, <1>8 DEF assoc_get_bucket, OldSlot
  <2>2. old_hashtable' \in [0..(HASHSIZE(hash_power - 1) - 1) -> SUBSET Item]
    BY <1>8, <2>1 DEF TypeOK
  <2>3. TypeOK'
    BY <1>3, <1>4, <1>8, <2>1, <2>2 DEF TypeOK
  <2>4. DOMAIN old_hashtable' = DOMAIN old_hashtable
    BY <1>8
  <2>5. \A b \in DOMAIN old_hashtable :
           old_hashtable'[b] = IF b = OldSlot(it) THEN old_hashtable[b] \ {it} ELSE old_hashtable[b]
    BY <1>5, <1>8, <2>1
  <2>6. All' = All \ {it}
    <3>1. AllIs'
      BY <2>3, AllFactsNext
    <3>2. \A b \in DOMAIN primary_hashtable : it \notin primary_hashtable[b]
      BY <1>5, <2>1 DEF Placed, TypeOK
    <3>3. \A b \in DOMAIN old_hashtable : it \in old_hashtable[b] => b = OldSlot(it)
      BY <2>1 DEF Placed
    <3> QED
      BY <1>4, <1>7, <1>8, <2>1, <2>4, <2>5, <3>1, <3>2, <3>3 DEF AllIs
  <2>7. Placed'
    BY <1>4, <1>6, <1>8, <2>1, <2>4, <2>5 DEF Placed
  <2> QED
    BY <1>1, <1>3, <1>4, <2>3, <2>6, <2>7, RemoveOne DEF NoLostWakeup
<1>9. CASE /\ ~w.old
           /\ primary_hashtable' = shrunk(primary_hashtable, Slot(it))
           /\ old_hashtable' = old_hashtable
  <2>1. expanding => OldSlot(it) < expand_bucket
    <3>1. expanding => OldSlot(it) \in Nat /\ expand_bucket \in Nat
      BY <1>5 DEF TypeOK
    <3> QED
      BY <1>1, <1>9, <3>1 DEF assoc_get_bucket, OldSlot
  <2>2. primary_hashtable' \in [0..(HASHSIZE(hash_power) - 1) -> SUBSET Item]
    BY <1>9 DEF TypeOK
  <2>3. TypeOK'
    BY <1>3, <1>4, <1>9, <2>2 DEF TypeOK
  <2>4. DOMAIN primary_hashtable' = DOMAIN primary_hashtable
    BY <1>9
  <2>5. \A b \in DOMAIN primary_hashtable :
           primary_hashtable'[b] = IF b = Slot(it) THEN primary_hashtable[b] \ {it} ELSE primary_hashtable[b]
    BY <1>5, <1>9
  <2>6. All' = All \ {it}
    <3>1. AllIs'
      BY <2>3, AllFactsNext
    <3>2. expanding => \A b \in DOMAIN old_hashtable : it \notin old_hashtable[b]
      BY <1>5, <2>1 DEF Placed, TypeOK
    <3>3. \A b \in DOMAIN primary_hashtable : it \in primary_hashtable[b] => b = Slot(it)
      BY DEF Placed
    <3> QED
      BY <1>4, <1>7, <1>9, <2>4, <2>5, <3>1, <3>2, <3>3 DEF AllIs
  <2>7. Placed'
    BY <1>4, <1>6, <1>9, <2>4, <2>5 DEF Placed
  <2> QED
    BY <1>1, <1>3, <1>4, <2>3, <2>6, <2>7, RemoveOne DEF NoLostWakeup
<1> QED
  <2>1. w.old => w.b = OldSlot(it)
    BY <1>1 DEF assoc_get_bucket, OldSlot
  <2>2. ~w.old => w.b = Slot(it)
    BY <1>1 DEF assoc_get_bucket, Slot
  <2> QED
    BY <1>1, <1>8, <1>9, <2>1, <2>2 DEF assoc_delete

\* A turn of the maintenance thread moves items between the tables and
\* neither loses nor duplicates one; it ends an expansion with an empty old
\* table.
LEMMA MaintenanceStep ==
    ASSUME Inv, assoc_maintenance_thread
    PROVE  Inv' /\ All' = All
<1> DEFINE last  == HASHSIZE(hash_power - 1)
<1> DEFINE next  == Min({expand_bucket + nhash_move_size, last})
<1> DEFINE moved == UNION {old_hashtable[b] : b \in expand_bucket..(next - 1)}
<1> DEFINE home(b) == {it \in moved : Slot(it) = b}
<1> USE DEF Inv
<1>1. CASE ~expanding
  <2>1. UNCHANGED table /\ maint' = "waiting"
    BY <1>1 DEF assoc_maintenance_thread
  <2>2. TypeOK' /\ NoLostWakeup'
    BY <1>1, <2>1 DEF TypeOK, NoLostWakeup, table
  <2>3. \A x : OldSlot(x)' = OldSlot(x) /\ Slot(x)' = Slot(x)
    BY <2>1 DEF OldSlot, Slot, table
  <2>4. All' = All
    BY <2>1 DEF All, Contents, table
  <2>5. Placed'
    BY <2>1, <2>3 DEF Placed, table
  <2> QED
    BY <2>1, <2>2, <2>4, <2>5 DEF OneEach, Counts, table
<1>2. CASE expanding
  <2> HIDE DEF next
  <2>1. /\ last \in Nat /\ last > 0 /\ expand_bucket \in 0..(last - 1)
        /\ DOMAIN old_hashtable = 0..(last - 1)
        /\ nhash_move_size \in Nat /\ nhash_move_size > 0
    BY <1>2, PowerFacts, AssocAssumption DEF TypeOK
  <2>2. next \in Nat /\ expand_bucket < next /\ next <= last
    <3>1. next \in {expand_bucket + nhash_move_size, last}
          /\ \A y \in {expand_bucket + nhash_move_size, last} : next <= y
      <4>1. \E x \in {expand_bucket + nhash_move_size, last} :
                \A y \in {expand_bucket + nhash_move_size, last} : x <= y
        BY <2>1
      <4> QED
        BY <4>1, Zenon DEF next, Min
    <3> QED
      BY <2>1, <3>1
  <2>3. /\ maint = "running"
        /\ primary_hashtable' = [b \in DOMAIN primary_hashtable |-> primary_hashtable[b] \cup home(b)]
        /\ expand_bucket' = next
        /\ expanding' = (next # last)
        /\ old_hashtable' = IF next = last THEN NULL
                            ELSE [b \in DOMAIN old_hashtable |-> old_hashtable[b] \ moved]
        /\ maint' = IF next = last THEN "waiting" ELSE "running"
        /\ UNCHANGED <<nhash_item, hash_power>>
    BY <1>2 DEF assoc_maintenance_thread, next, Slot
  <2>4. \A it : it \in moved <=> \E b \in expand_bucket..(next - 1) : it \in old_hashtable[b]
    BY Zenon
  <2>5. expand_bucket..(next - 1) \subseteq DOMAIN old_hashtable
    BY <2>1, <2>2
  <2>6. moved \subseteq Item
    BY <1>2, <2>4, <2>5 DEF TypeOK
  <2>7. \A it \in moved : Slot(it) \in DOMAIN primary_hashtable /\ OldSlot(it) < next
    <3>1. \A it \in moved : item_key[it] \in Key
      BY <2>6, AssocAssumption
    <3>2. \A it \in moved : OldSlot(it) < next
      BY <1>2, <2>1, <2>2, <2>4, <2>5 DEF Placed
    <3> QED
      BY <3>1, <3>2, PowerFacts DEF Slot
  <2>8. \A b \in DOMAIN old_hashtable :
           old_hashtable[b] \ moved = IF b < next THEN {} ELSE old_hashtable[b]
    <3> SUFFICES ASSUME NEW b \in DOMAIN old_hashtable
                 PROVE  old_hashtable[b] \ moved = IF b < next THEN {} ELSE old_hashtable[b]
      OBVIOUS
    <3>1. CASE b < expand_bucket
      <4>1. old_hashtable[b] = {}
        BY <1>2, <2>1, <3>1 DEF Placed
      <4> QED
        BY <2>1, <2>2, <3>1, <4>1
    <3>2. CASE b \in expand_bucket..(next - 1)
      BY <2>1, <2>2, <2>4, <3>2
    <3>3. CASE b >= next
      <4>1. \A it \in old_hashtable[b] : OldSlot(it) = b
        BY <1>2 DEF Placed
      <4>2. \A it \in old_hashtable[b] : it \notin moved
        BY <2>1, <2>2, <2>7, <3>3, <4>1
      <4> QED
        BY <2>1, <2>2, <3>3, <4>2
    <3> QED
      BY <2>1, <2>2, <3>1, <3>2, <3>3
  <2> HIDE DEF moved
  <2>9. primary_hashtable' \in [0..(HASHSIZE(hash_power) - 1) -> SUBSET Item]
    BY <2>3, <2>6 DEF TypeOK
  <2>10. TypeOK'
    <3>1. next # last => old_hashtable' \in [0..(last - 1) -> SUBSET Item]
      BY <1>2, <2>1, <2>3 DEF TypeOK
    <3>2. next # last => next \in 0..(last - 1)
      BY <2>1, <2>2
    <3> QED
      BY <2>3, <2>9, <3>1, <3>2 DEF TypeOK
  <2>11. NoLostWakeup'
    BY <2>3 DEF NoLostWakeup
  <2>12. \A x : OldSlot(x)' = OldSlot(x) /\ Slot(x)' = Slot(x)
    BY <2>3 DEF OldSlot, Slot
  <2>13. /\ DOMAIN primary_hashtable' = DOMAIN primary_hashtable
         /\ \A b \in DOMAIN primary_hashtable :
               primary_hashtable'[b] = primary_hashtable[b] \cup home(b)
    BY <2>3
  <2>14. expanding' => /\ DOMAIN old_hashtable' = DOMAIN old_hashtable
                       /\ \A b \in DOMAIN old_hashtable :
                             old_hashtable'[b] = IF b < next THEN {} ELSE old_hashtable[b]
    BY <2>3, <2>8
  <2>15. All' = All
    <3>1. AllIs' /\ AllIs
      BY <2>10, AllFacts, AllFactsNext DEF AllIs
    <3>2. \A x : (\E b \in DOMAIN primary_hashtable : x \in primary_hashtable'[b])
                 <=> x \in moved \/ \E b \in DOMAIN primary_hashtable : x \in primary_hashtable[b]
      BY <2>7, <2>13
    <3>3. \A x : (\E b \in DOMAIN old_hashtable : x \in old_hashtable[b])
                 <=> \/ x \in moved
                     \/ \E b \in DOMAIN old_hashtable : x \in old_hashtable[b] \ moved
      BY <2>4, <2>5
    <3>4. \A x : (expanding' /\ \E b \in DOMAIN old_hashtable' : x \in old_hashtable'[b])
                 <=> \E b \in DOMAIN old_hashtable : x \in old_hashtable[b] \ moved
      <4>1. CASE next = last
        <5>1. ~expanding'
          BY <2>3, <4>1
        <5>2. \A b \in DOMAIN old_hashtable : old_hashtable[b] \ moved = {}
          BY <2>1, <2>8, <4>1
        <5> QED
          BY <5>1, <5>2
      <4>2. CASE next # last
        <5>1. expanding'
          BY <2>3, <4>2
        <5> QED
          BY <2>8, <2>14, <5>1
      <4> QED
        BY <4>1, <4>2
    <3> QED
      BY <1>2, <2>13, <3>1, <3>2, <3>3, <3>4 DEF AllIs
  <2>16. Placed'
    <3>1. \A b \in DOMAIN primary_hashtable : \A it \in primary_hashtable'[b] :
             Slot(it) = b /\ OldSlot(it) < next
      <4> SUFFICES ASSUME NEW b \in DOMAIN primary_hashtable, NEW it \in primary_hashtable'[b]
                   PROVE  Slot(it) = b /\ OldSlot(it) < next
        OBVIOUS
      <4>1. CASE it \in primary_hashtable[b]
        <5>1. item_key[it] \in Key
          BY <4>1, AssocAssumption DEF TypeOK
        <5>2. OldSlot(it) \in 0..(last - 1)
          BY <1>2, <2>1, <5>1, PowerFacts DEF OldSlot
        <5> QED
          BY <1>2, <2>1, <2>2, <4>1, <5>2 DEF Placed
      <4>2. CASE it \in home(b)
        BY <2>7, <4>2
      <4> QED
        BY <2>13, <4>1, <4>2
    <3>2. expanding' => \A b \in DOMAIN old_hashtable' : \A it \in old_hashtable'[b] :
             OldSlot(it) = b /\ b >= next
      BY <1>2, <2>1, <2>2, <2>14 DEF Placed
    <3> QED
      BY <2>3, <2>12, <2>13, <3>1, <3>2 DEF Placed
  <2> QED
    BY <2>3, <2>10, <2>11, <2>15, <2>16 DEF OneEach, Counts
<1> QED
  BY <1>1, <1>2

\* Every step keeps the invariant.
LEMMA NextInv == Inv /\ [Next]_vars => Inv'
<1> SUFFICES ASSUME Inv, [Next]_vars PROVE Inv'
  OBVIOUS
<1>1. CASE \E it \in Item : assoc_insert(it)
  BY <1>1, InsertStep
<1>2. CASE \E k \in Key : assoc_delete(k)
  BY <1>2, DeleteStep
<1>3. CASE assoc_maintenance_thread
  BY <1>3, MaintenanceStep
<1>4. ASSUME UNCHANGED table, maint' \in {"running", "waiting"}, maint' = maint \/ maint' = "running"
      PROVE  Inv'
  <2>1. TypeOK' /\ NoLostWakeup'
    BY <1>4 DEF Inv, TypeOK, NoLostWakeup, table
  <2>2. \A x : OldSlot(x)' = OldSlot(x) /\ Slot(x)' = Slot(x)
    BY <1>4 DEF OldSlot, Slot, table
  <2>3. All' = All
    BY <1>4 DEF All, Contents, table
  <2>4. Placed'
    BY <1>4, <2>2 DEF Inv, Placed, table
  <2> QED
    BY <1>4, <2>1, <2>3, <2>4 DEF Inv, OneEach, Counts, table
<1>5. CASE spurious_wakeup
  BY <1>4, <1>5 DEF spurious_wakeup
<1>6. CASE UNCHANGED vars
  BY <1>4, <1>6 DEF vars, Inv, TypeOK
<1> QED
  BY <1>1, <1>2, <1>3, <1>5, <1>6 DEF Next

\* The invariant holds in every reachable state.
THEOREM Invariance == Spec => []Inv
  BY InitInv, NextInv, PTL DEF Spec

\* Every item in either table is the one a lookup of its key finds, whatever
\* was inserted, deleted or moved, and nhash_item counts them.
THEOREM ItemsReachable == Spec => []Reachable
<1>1. Inv => Reachable
  <2> SUFFICES ASSUME Inv PROVE Reachable
    OBVIOUS
  <2>1. \A it \in All : assoc_find(item_key[it]) = it
    <3>1. \A it \in All : item_key[it] \in Key
      BY AllFacts, AssocAssumption DEF Inv
    <3> QED
      BY <3>1, FindFacts DEF Inv
  <2> QED
    BY <2>1 DEF Inv, Reachable, All, Counts
<1> QED
  BY <1>1, Invariance, PTL

\* The maintenance thread is awake whenever there are buckets to move.
THEOREM WakeupKept == Spec => []NoLostWakeup
<1>1. Inv => NoLostWakeup
  BY DEF Inv
<1> QED
  BY <1>1, Invariance, PTL

-----------------------------------------------------------------------------
\* An insertion changes the lookup of the key of the item and no other.
LEMMA InsertMaps ==
    ASSUME Inv, NEW it \in Item, assoc_insert(it)
    PROVE  M!Insert(it)
<1>1. Inv' /\ All' = All \cup {it}
  BY InsertStep
<1>2. FindIs /\ FindIs'
  BY <1>1, FindFacts, FindFactsNext DEF Inv, FindIs
<1>3. item_key[it] \in Key /\ assoc_find(item_key[it]) = NoItem
  BY AssocAssumption DEF assoc_insert
<1>4. assoc_find(item_key[it])' = it
  BY <1>1, <1>2, <1>3 DEF FindIs
<1>5. ASSUME NEW k \in Key, k # item_key[it]
      PROVE  assoc_find(k)' = assoc_find(k)
  <2>1. CASE \E x \in All : item_key[x] = k
    BY <1>1, <1>2, <2>1 DEF FindIs
  <2>2. CASE \A x \in All : item_key[x] # k
    <3>1. \A x \in All' : item_key[x] # k
      BY <1>1, <1>5, <2>2
    <3> QED
      BY <1>2, <2>2, <3>1 DEF FindIs
  <2> QED
    BY <2>1, <2>2
<1> QED
  BY <1>3, <1>4, <1>5 DEF M!Insert

\* A deletion makes the lookup of its key fail and changes no other.
LEMMA DeleteMaps ==
    ASSUME Inv, NEW k \in Key, assoc_delete(k)
    PROVE  M!Delete(k)
<1>1. Inv' /\ All' = All \ {assoc_find(k)} /\ assoc_find(k) \in All
  BY DeleteStep
<1>2. FindIs /\ FindIs'
  BY <1>1, FindFacts, FindFactsNext DEF Inv, FindIs
<1>3. assoc_find(k) # NoItem
  BY DEF assoc_delete
<1>4. assoc_find(k)' = NoItem
  <2>1. \A x \in All' : item_key[x] # k
    BY <1>1, <1>2 DEF FindIs
  <2> QED
    BY <1>2, <2>1 DEF FindIs
<1>5. ASSUME NEW j \in Key, j # k
      PROVE  assoc_find(j)' = assoc_find(j)
  <2>1. CASE \E x \in All : item_key[x] = j
    BY <1>1, <1>2, <1>3, <1>5, <2>1 DEF FindIs
  <2>2. CASE \A x \in All : item_key[x] # j
    <3>1. \A x \in All' : item_key[x] # j
      BY <1>1, <2>2
    <3> QED
      BY <1>2, <2>2, <3>1 DEF FindIs
  <2> QED
    BY <2>1, <2>2
<1> QED
  BY <1>3, <1>4, <1>5 DEF M!Delete

\* A step that keeps the items changes no lookup.
LEMMA SameMaps ==
    ASSUME Inv, Inv', All' = All
    PROVE  [k \in Key |-> assoc_find(k)]' = [k \in Key |-> assoc_find(k)]
<1>1. FindIs /\ FindIs'
  BY FindFacts, FindFactsNext DEF Inv, FindIs
<1>2. ASSUME NEW k \in Key
      PROVE  assoc_find(k)' = assoc_find(k)
  <2>1. CASE \E x \in All : item_key[x] = k
    BY <1>1, <2>1 DEF FindIs
  <2>2. CASE \A x \in All : item_key[x] # k
    BY <1>1, <2>2 DEF FindIs
  <2> QED
    BY <2>1, <2>2
<1> QED
  BY <1>2

\* The table implements the map: every step of it is an insertion or a
\* deletion of the map or leaves every lookup as it was, the moves of the
\* maintenance thread and the switch to a larger table included.
THEOREM TableImplementsMap == Spec => ImplementsMap
<1>1. Init => M!Init
  <2> SUFFICES ASSUME Init PROVE M!Init
    OBVIOUS
  <2>1. Inv
    BY InitInv
  <2>2. \A b \in DOMAIN primary_hashtable : primary_hashtable[b] = {}
    BY DEF Init, assoc_create_table
  <2>3. All = {}
    BY <2>1, <2>2, AllFacts DEF Init, Inv
  <2>4. \A k \in Key : assoc_find(k) = NoItem
    BY <2>1, <2>3, FindFacts DEF Inv
  <2> QED
    BY <2>4 DEF M!Init
<1>2. Inv /\ [Next]_vars => [M!Next]_([k \in Key |-> assoc_find(k)])
  <2> SUFFICES ASSUME Inv, [Next]_vars
               PROVE  [M!Next]_([k \in Key |-> assoc_find(k)])
    OBVIOUS
  <2>1. CASE \E it \in Item : assoc_insert(it)
    BY <2>1, InsertMaps DEF M!Next
  <2>2. CASE \E k \in Key : assoc_delete(k)
    BY <2>2, DeleteMaps DEF M!Next
  <2>3. CASE assoc_maintenance_thread
    BY <2>3, MaintenanceStep, SameMaps
  <2>4. CASE spurious_wakeup \/ UNCHANGED vars
    <3>1. Inv'
      BY NextInv
    <3>2. All' = All
      BY <2>4 DEF spurious_wakeup, vars, table, All, Contents
    <3> QED
      BY <3>1, <3>2, SameMaps
  <2> QED
    BY <2>1, <2>2, <2>3, <2>4 DEF Next
<1> QED
  BY <1>1, <1>2, Invariance, PTL DEF Spec, ImplementsMap, M!Spec
=============================================================================
