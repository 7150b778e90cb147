------------------------------ MODULE Profile -------------------------------
(***************************************************************************)
(* Slab classes: how the sizes of their items are computed at startup      *)
(* (mc.c), and how the class of an item is searched for (mc_slabs.c).      *)
(*                                                                         *)
(* A profile is the sequence of item sizes, indexed by class id.  Recursion*)
(* is written with functions.                                              *)
(***************************************************************************)
EXTENDS Integers, Sequences

CONSTANTS SLABCLASS_MAX_ID,     \* the largest id of a class; one more is no class
          MC_ALIGNMENT,         \* bytes in a platform word
          ITEM_MIN_CHUNK_SIZE   \* the smallest item size a user may ask for

ASSUME ProfileAssumption ==
    /\ SLABCLASS_MAX_ID \in Nat \ {0}
    /\ MC_ALIGNMENT \in Nat \ {0}
    /\ ITEM_MIN_CHUNK_SIZE \in Nat \ {0}

SLABCLASS_MIN_ID == 1
SLABCLASS_INVALID_ID == SLABCLASS_MAX_ID + 1

MC_ALIGN(d) == ((d + MC_ALIGNMENT - 1) \div MC_ALIGNMENT) * MC_ALIGNMENT

-----------------------------------------------------------------------------
\* The item size after sz in the geometric sequence: factor is a fraction
\* <<num, den>> above 1; a product that rounds to sz itself is one more.
next_size(sz, factor) ==
    LET grown == (sz * factor[1]) \div factor[2]
    IN  MC_ALIGN(IF grown = sz THEN grown + 1 ELSE grown)

\* Sizes grow from the smallest chunk until they reach the slab or ids run out;
\* the last class has one item as large as the slab.
mc_generate_profile(chunk_size, slab_size, factor) ==
    LET size[i \in Nat] == IF i <= SLABCLASS_MIN_ID THEN chunk_size
                           ELSE next_size(size[i - 1], factor)
        last == CHOOSE i \in SLABCLASS_MIN_ID..SLABCLASS_MAX_ID :
                    /\ i = SLABCLASS_MAX_ID \/ size[i] >= slab_size
                    /\ \A j \in SLABCLASS_MIN_ID..(i - 1) : size[j] < slab_size
    IN  [i \in SLABCLASS_MIN_ID..last |-> IF i = last THEN slab_size ELSE size[i]]

\* The sizes a user gives are taken as they are, or refused.
mc_parse_profile(sizes, slab_size) ==
    /\ Len(sizes) \in 1..SLABCLASS_MAX_ID
    /\ \A i \in DOMAIN sizes :
          /\ sizes[i] % MC_ALIGNMENT = 0
          /\ sizes[i] \in ITEM_MIN_CHUNK_SIZE..slab_size
          /\ i > 1 => sizes[i] > sizes[i - 1]

-----------------------------------------------------------------------------
\* Mutant: the lower neighbour is compared strictly.
slab_id_bug(profile, size) ==
    LET search[range \in Nat \X Nat] ==
            LET imin == range[1]
                imax == range[2]
                id == (imin + imax) \div 2
            IN  IF imax < imin THEN SLABCLASS_INVALID_ID
                ELSE IF size > profile[id] THEN search[<<id + 1, imax>>]
                ELSE IF id > SLABCLASS_MIN_ID /\ size < profile[id - 1]
                     THEN search[<<imin, id - 1>>]
                ELSE id
    IN  search[<<SLABCLASS_MIN_ID, Len(profile)>>]

\* The binary search for the class of an item of this size.
slab_id(profile, size) ==
    LET search[range \in Nat \X Nat] ==
            LET imin == range[1]
                imax == range[2]
                id == (imin + imax) \div 2
            IN  IF imax < imin THEN SLABCLASS_INVALID_ID
                ELSE IF size > profile[id] THEN search[<<id + 1, imax>>]
                ELSE IF id > SLABCLASS_MIN_ID /\ size <= profile[id - 1]
                     THEN search[<<imin, id - 1>>]
                ELSE id
    IN  search[<<SLABCLASS_MIN_ID, Len(profile)>>]

-----------------------------------------------------------------------------
Ascending(profile) == \A i \in 2..Len(profile) : profile[i - 1] < profile[i]

\* The search finds the smallest class that fits, for every size there is.
Finds(profile, slab_size) ==
    \A size \in 1..(slab_size + 1) :
        LET fit == {id \in DOMAIN profile : size <= profile[id]}
            id  == slab_id(profile, size)
        IN  IF fit = {} THEN id = SLABCLASS_INVALID_ID
            ELSE id \in fit /\ \A other \in fit : id <= other

\* Slabs of up to MaxSlab bytes with a first chunk that fits, aligned as the
\* options require, and growth factors from barely above 1 to 2.
MaxSlab == 12
Factors == {<<11, 10>>, <<5, 4>>, <<3, 2>>, <<2, 1>>}
Chunks(slab_size) == {c \in 1..slab_size : c % MC_ALIGNMENT = 0}

\* Whatever the options, the classes computed or given at startup ascend, the
\* last generated one takes a whole slab, and the binary search of slab_id finds
\* for every item the smallest class it fits in.
ClassesExact ==
    \A slab_size \in MC_ALIGNMENT..MaxSlab :
        /\ \A chunk_size \in Chunks(slab_size), factor \in Factors :
              LET p == mc_generate_profile(chunk_size, slab_size, factor)
              IN  Ascending(p) /\ p[Len(p)] = slab_size /\ Finds(p, slab_size)
        /\ \A n \in 1..(SLABCLASS_MAX_ID + 1) : \A sizes \in [1..n -> 1..slab_size] :
              mc_parse_profile(sizes, slab_size) => Ascending(sizes) /\ Finds(sizes, slab_size)
=============================================================================
