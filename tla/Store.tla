------------------------------- MODULE Store --------------------------------
(***************************************************************************)
(* What the cache promises its clients: a map from keys to values that may *)
(* forget any key at any moment (eviction, expiry, flush_all) but never    *)
(* invents, mixes up or brings back a value.  Every value written carries  *)
(* a version (the cas id) greater than all versions before it, and a       *)
(* version names one value of one key for ever: what a client read as      *)
(* version v cannot change without a new version.                          *)
(***************************************************************************)
EXTENDS Naturals

CONSTANTS
    Key,
    Length          \* lengths, which stand for the contents of values

VARIABLES
    value,          \* value[k]: what a get of k would return
    last            \* the version written last

Absent == [version |-> 0, len |-> 0]

Init ==
    /\ value = [k \in Key |-> Absent]
    /\ last = 0

\* value with the keys of D forgotten.
Without(D) == [k \in Key |-> IF k \in D THEN Absent ELSE value[k]]

\* Store a new value of k; making room for it may cost other keys.
Write(k, n) ==
    /\ last' = last + 1
    /\ \E D \in SUBSET Key :
          value' = [Without(D) EXCEPT ![k] = [version |-> last + 1, len |-> n]]

Forget ==
    /\ UNCHANGED last
    /\ \E D \in SUBSET Key : value' = Without(D)

\* A value stored with an expiry in the past is forgotten at once.
WriteExpired ==
    /\ last' = last + 1
    /\ \E D \in SUBSET Key : value' = Without(D)

Next ==
    \/ \E k \in Key, n \in Length : Write(k, n)
    \/ Forget
    \/ WriteExpired

Spec == Init /\ [][Next]_<<value, last>>
=============================================================================
