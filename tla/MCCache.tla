------------------------------ MODULE MCCache -------------------------------
(***************************************************************************)
(* Constants of the TLC instances of Cache that a cfg file cannot write.   *)
(***************************************************************************)
EXTENDS CacheStore, TLC

\* Two classes: slabs of two small items, or of one large item.
TwoOne == <<2, 1>>
TwoOneCapacity == <<2, 3>>

\* One class of slabs with one item.
One == <<1>>
OneCapacity == <<2>>

LruCs == {"LRU", "CS"}

\* The clock advances by two seconds, or is set back by two: a flush_all finds
\* items that were used before and after its horizon, a second ago.
ForthAndBack == {2, -2}

Symmetry == Permutations(Key) \cup Permutations(Conn)
=============================================================================
