------------------------------- MODULE Queues -------------------------------
(***************************************************************************)
(* The tail queues (TAILQ of mc_queue.h) the item and slab code is built   *)
(* on, as sequences: the head of the queue is the first element.  Removing *)
(* elements is defined without recursion, so that its effect on the        *)
(* elements of the queue can be proved.                                    *)
(***************************************************************************)
EXTENDS Integers, Sequences, FiniteSets

\* The elements of a queue.
Elems(q) == {q[i] : i \in DOMAIN q}

\* No element occurs twice: an entry has one pair of links, so it can be in
\* a queue at most once.
NoDup(q) == \A i, j \in DOMAIN q : q[i] = q[j] => i = j

\* The positions of q that survive the removal of the elements of S.
Kept(q, S) == {i \in DOMAIN q : q[i] \notin S}

\* How many members of I are at or before position i.
Rank(I, i) == Cardinality({j \in I : j <= i})

\* TAILQ_REMOVE of every element of S, the rest in the order it had.
Without(q, S) ==
    LET I == Kept(q, S)
    IN  [k \in 1..Cardinality(I) |-> q[CHOOSE i \in I : Rank(I, i) = k]]

\* The element of q at the least position in I.
FirstAt(q, I) == q[CHOOSE i \in I : \A j \in I : i <= j]
=============================================================================
