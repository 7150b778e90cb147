----------------------------- MODULE MCItemData -----------------------------
(***************************************************************************)
(* Constants of the TLC instances of ItemData that a cfg cannot write.     *)
(***************************************************************************)
EXTENDS ItemData, TLC

\* Two classes with room for values of one and of three bytes.
TwoClasses == mc_generate_profile(4, 6, <<3, 2>>)

\* A digit and two digits.
Values == {<<1>>, <<1, 0>>}

Symmetry == Permutations(Item)
=============================================================================
