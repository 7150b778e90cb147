------------------------------ MODULE MCHotkey ------------------------------
(***************************************************************************)
(* Constants of the TLC instance of Hotkey that a cfg cannot write.        *)
(***************************************************************************)
EXTENDS Hotkey, TLC

CONSTANTS a, b, c

\* In a table of 2 all keys collide, in one of 4 none does, in one of 6 the first
\* two do, and the second is probed for in the home of the third.
Hash == (a :> 0) @@ (b :> 6) @@ (c :> 1)

Symmetry == Permutations(Thread)
=============================================================================
