------------------------------ MODULE MCAssoc -------------------------------
(***************************************************************************)
(* TLC instances of Assoc.                                                 *)
(***************************************************************************)
EXTENDS Assoc

\* Key k hashes to k; two items of the first key, one of each other key.
SevenKeys == 0..6
Items7 == {<<k, 1>> : k \in SevenKeys} \cup {<<0, 2>>}
KeyOf == [it \in Items7 |-> it[1]]

\* Four keys share bucket 1 of the first table; they part in later ones.
HashOf == [k \in SevenKeys |-> IF k < 4 THEN 2 * k + 1 ELSE k]
=============================================================================
