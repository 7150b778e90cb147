------------------------------ MODULE ItemData ------------------------------
(***************************************************************************)
(* The bytes of the value of one key: how they lie in an item, how append, *)
(* prepend, incr and decr change them in place or copy them to another     *)
(* item (mc_items.c), and what connections that are sending the value at   *)
(* the same time make of it (mc_ascii.c, mc_core.c).                       *)
(*                                                                         *)
(* An item is a chunk of profile[id] bytes: HDR_LEN bytes of header, key   *)
(* and cas, then the value, at either end of the rest.  Changes are        *)
(* made under cache_lock, in two steps: the bytes are written, then nbyte. *)
(* asc_respond_get reads nbyte and the place of the data without the lock, *)
(* and sendmsg copies the bytes later still.                               *)
(*                                                                         *)
(* Which items are free is the business of Cache: here any item that is    *)
(* neither linked nor referred to may be allocated, and holds junk.        *)
(***************************************************************************)
EXTENDS Profile, SequencesExt, FiniteSets

CONSTANTS
    Item, NoItem,       \* items, and the null pointer
    Reader,             \* connections that execute a get
    profile,            \* item sizes by class id
    HDR_LEN,               \* bytes of an item before its value
    CRLF_LEN,           \* bytes an item reserves after its value
    Base,               \* of the numbers (ten in the code)
    UINT64_MAX,         \* the largest number
    Space, Junk, Key,   \* bytes: white space, never written, header or key
    Value,              \* values clients send
    Delta               \* amounts clients add or subtract

ASSUME DataAssumption ==
    /\ NoItem \notin Item
    /\ HDR_LEN \in Nat \ {0} /\ CRLF_LEN \in Nat
    /\ Base \in Nat \ {0, 1} /\ UINT64_MAX \in Nat /\ UINT64_MAX >= Base
    /\ Delta \subseteq 0..UINT64_MAX
    /\ profile \in Seq(Nat) /\ Len(profile) \in 1..SLABCLASS_MAX_ID
    /\ Ascending(profile)   \* ClassesExact

VARIABLES
    item,   \* the items: class, length, alignment and bytes; and the value wanted
    hash,   \* the item linked under the key, or NoItem
    wr,     \* a change in place under cache_lock that has not set nbyte yet
    rd      \* readers: their item and what they know of its value

data_vars == <<item, hash, wr, rd>>

Digit == 0..(Base - 1)
Byte == Digit \cup {Space, Junk, Key}

ASSUME ByteAssumption ==
    /\ {Space, Junk, Key} \cap Digit = {}
    /\ Value \subseteq Seq(Byte)

-----------------------------------------------------------------------------
(***************************************************************************)
(* Numbers: mc_strtoull_len and the "%lu" of snprintf.                     *)
(***************************************************************************)
Invalid == -1

\* The number of bytes skipped from position i on.
mc_skip_space(str, i) ==
    CHOOSE n \in 0..Len(str) :
        /\ \A j \in i..(i + n - 1) : j \in DOMAIN str /\ str[j] = Space
        /\ i + n \notin DOMAIN str \/ str[i + n] # Space

\* Mutant: the range is checked after the digit was added, without regard to it.
mc_strtoull_len_bug(str) ==
    LET scan[s \in Nat \X Nat] ==
            LET i   == s[1]
                out == s[2]
            IN  IF i \in DOMAIN str /\ str[i] \in Digit
                THEN IF out > UINT64_MAX \div Base THEN Invalid
                     ELSE scan[<<i + 1, (out * Base + str[i]) % (UINT64_MAX + 1)>>]
                ELSE IF i + mc_skip_space(str, i) > Len(str) THEN out ELSE Invalid
    IN  scan[<<1 + mc_skip_space(str, 1), 0>>]

\* Space, digits, space; Invalid if there is anything else, or too many digits.
mc_strtoull_len(str) ==
    LET scan[s \in Nat \X Nat] ==
            LET i   == s[1]
                out == s[2]
            IN  IF i \in DOMAIN str /\ str[i] \in Digit
                THEN IF out >= UINT64_MAX \div Base THEN Invalid
                     ELSE scan[<<i + 1, out * Base + str[i]>>]
                ELSE IF i + mc_skip_space(str, i) > Len(str) THEN out ELSE Invalid
    IN  scan[<<1 + mc_skip_space(str, 1), 0>>]

snprintf(value) ==
    LET print[n \in Nat] == IF n < Base THEN <<n>>
                            ELSE Append(print[n \div Base], n % Base)
    IN  print[value]

\* incr wraps around at 2^64, decr stops at 0.
apply_delta(value, incr, delta) ==
    IF incr THEN (value + delta) % (UINT64_MAX + 1)
    ELSE IF delta > value THEN 0 ELSE value - delta

-----------------------------------------------------------------------------
(***************************************************************************)
(* Where the value of an item lies.                                        *)
(***************************************************************************)
item_slabid(nbyte) == slab_id(profile, HDR_LEN + nbyte + CRLF_LEN)

\* A number fits into some item: the assertion of _item_delta before it allocates.
ASSUME NumberAssumption ==
    \A n \in 0..UINT64_MAX : item_slabid(Len(snprintf(n))) # SLABCLASS_INVALID_ID

item_data(it) == IF it.raligned THEN profile[it.id] - it.nbyte + 1 ELSE HDR_LEN + 1

memcpy(chunk, pos, bytes) ==
    [p \in DOMAIN chunk |-> IF p \in pos..(pos + Len(bytes) - 1)
                            THEN bytes[p - pos + 1] ELSE chunk[p]]

\* n bytes at pos; what lies beyond the item is as good as junk.
Bytes(it, pos, n) ==
    [i \in 1..n |-> IF pos + i - 1 \in DOMAIN it.chunk THEN it.chunk[pos + i - 1] ELSE Junk]

Stored(it) == Bytes(it, item_data(it), it.nbyte)

Blank == [id |-> 0, nbyte |-> 0, raligned |-> FALSE, chunk |-> << >>,
          want |-> << >>, shrunk |-> FALSE]

\* An item fresh from _item_alloc with the value copied into it.
Fill(it, bytes) == [it EXCEPT !.chunk = memcpy(@, item_data(it), bytes)]
NewItem(id, raligned, bytes, want, shrunk) ==
    Fill([id |-> id, nbyte |-> Len(bytes), raligned |-> raligned,
          chunk |-> [p \in 1..profile[id] |-> IF p <= HDR_LEN THEN Key ELSE Junk],
          want |-> IF shrunk THEN << >> ELSE want, shrunk |-> shrunk], bytes)

\* Items nobody refers to are free: their content does not matter.
Kept(items, linked, readers) ==
    [i \in Item |-> IF i = linked \/ \E r \in Reader : readers[r].item = i
                    THEN items[i] ELSE Blank]
FreeItem == {i \in Item : item[i] = Blank}

\* _item_alloc, then _item_relink: some free item takes the place of the old one.
Relink(new) ==
    \E i \in FreeItem :
        /\ hash' = i
        /\ item' = Kept([item EXCEPT ![i] = new], i, rd)
        /\ UNCHANGED <<wr, rd>>

NoWrite == [item |-> NoItem]
Unlocked == wr = NoWrite

\* due is the value to be sent, wrong tells that something else was, excused that
\* one of the races happened that SentAsStored names.
NoRead == [at |-> "idle", item |-> NoItem, nbyte |-> 0, pos |-> 0, sent |-> 0,
           due |-> << >>, wrong |-> FALSE, excused |-> FALSE]
Excused(r) == [r EXCEPT !.excused = TRUE, !.due = << >>, !.wrong = FALSE]

DataInit ==
    /\ item = [i \in Item |-> Blank]
    /\ hash = NoItem
    /\ wr = NoWrite
    /\ rd = [r \in Reader |-> NoRead]

-----------------------------------------------------------------------------
(***************************************************************************)
(* Commands that change the value, under cache_lock.  Those that find no   *)
(* item, no memory, no class or no number leave everything as it is.       *)
(***************************************************************************)
item_set(v) ==
    /\ Unlocked
    /\ item_slabid(Len(v)) # SLABCLASS_INVALID_ID
    /\ Relink(NewItem(item_slabid(Len(v)), FALSE, v, v, FALSE))

item_delete ==
    /\ Unlocked
    /\ hash # NoItem
    /\ hash' = NoItem
    /\ item' = Kept(item, NoItem, rd)
    /\ UNCHANGED <<wr, rd>>

\* Mutants: an item is changed in place whatever its alignment, or whatever its
\* class.
annex_in_place_align_bug(oit, id, prepend) == id = oit.id
annex_in_place_class_bug(oit, id, prepend) == oit.raligned = prepend

\* May the value grow where it is?
annex_in_place(oit, id, prepend) == id = oit.id /\ oit.raligned = prepend

\* Where the bytes go that are added in place.
annex_at(oit, v, prepend) ==
    IF prepend THEN item_data(oit) - Len(v) ELSE item_data(oit) + oit.nbyte

Annexed(old, v, prepend) == IF prepend THEN v \o old ELSE old \o v

\* _item_annex: append and prepend.
item_annex(v, prepend) ==
    /\ Unlocked
    /\ hash # NoItem
    /\ LET oit  == item[hash]
           id   == item_slabid(oit.nbyte + Len(v))
           want == Annexed(oit.want, v, prepend)
       IN  /\ id # SLABCLASS_INVALID_ID
           /\ \/ /\ annex_in_place(oit, id, prepend)
                 /\ item' = [item EXCEPT ![hash].chunk = memcpy(@, annex_at(oit, v, prepend), v)]
                 /\ wr' = [item |-> hash, nbyte |-> oit.nbyte + Len(v), want |-> want,
                           shrunk |-> oit.shrunk, delta |-> FALSE]
                 /\ UNCHANGED <<hash, rd>>
              \/ /\ ~annex_in_place(oit, id, prepend)
                 /\ Relink(NewItem(id, prepend, Annexed(Stored(oit), v, prepend), want, oit.shrunk))

\* What clients must get to see: the number they think is stored, changed.
Readable(v) == mc_strtoull_len(v) # Invalid
Changed(v, incr, d) ==
    IF Readable(v) THEN snprintf(apply_delta(mc_strtoull_len(v), incr, d)) ELSE v

\* _item_delta: incr and decr.  A longer number needs another item, any other
\* overwrites the old one.
item_delta(incr, d) ==
    /\ Unlocked
    /\ hash # NoItem
    /\ Readable(Stored(item[hash]))
    /\ LET it   == item[hash]
           buf  == Changed(Stored(it), incr, d)
           want == Changed(it.want, incr, d)
       IN  \/ /\ Len(buf) > it.nbyte
              /\ Relink(NewItem(item_slabid(Len(buf)), FALSE, buf, want, it.shrunk))
           \/ /\ Len(buf) <= it.nbyte
              /\ item' = [item EXCEPT ![hash].chunk = memcpy(@, item_data(it), buf)]
              /\ wr' = [item |-> hash, nbyte |-> Len(buf), want |-> want,
                        shrunk |-> it.shrunk \/ (it.raligned /\ Len(buf) < it.nbyte), delta |-> TRUE]
              /\ rd' = [r \in Reader |->
                           IF rd[r].item = hash /\ rd[r].at \in {"data", "send"}
                           THEN Excused(rd[r]) ELSE rd[r]]
              /\ UNCHANGED hash

\* The change in place ends: nbyte is set and the lock released.
set_nbyte ==
    /\ ~Unlocked
    /\ item' = [item EXCEPT ![wr.item].nbyte = wr.nbyte, ![wr.item].shrunk = wr.shrunk,
                            ![wr.item].want = IF wr.shrunk THEN << >> ELSE wr.want]
    /\ wr' = NoWrite
    /\ UNCHANGED <<hash, rd>>

-----------------------------------------------------------------------------
(***************************************************************************)
(* A get: item_get and item_remove take cache_lock, the rest does not.     *)
(***************************************************************************)
item_get(r) ==
    /\ rd[r].at = "idle" /\ Unlocked /\ hash # NoItem
    /\ rd' = [rd EXCEPT ![r].at = "nbyte", ![r].item = hash]
    /\ UNCHANGED <<item, hash, wr>>

\* asc_respond_get reads nbyte for the length it announces ...
respond_nbyte(r) ==
    /\ rd[r].at = "nbyte"
    /\ LET it  == item[rd[r].item]
           new == [rd[r] EXCEPT !.at = "data", !.nbyte = it.nbyte, !.pos = item_data(it),
                                !.due = it.want]
       IN  rd' = [rd EXCEPT ![r] = IF it.shrunk \/ (wr.item = @.item /\ wr.delta)
                                   THEN Excused(new) ELSE new]
    /\ UNCHANGED <<item, hash, wr>>

\* ... and the place of the data, which depends on nbyte too.
respond_data(r) ==
    /\ rd[r].at = "data"
    /\ LET pos == item_data(item[rd[r].item])
           new == [rd[r] EXCEPT !.at = "send", !.pos = pos]
       IN  rd' = [rd EXCEPT ![r] = IF pos # @.pos THEN Excused(new) ELSE new]
    /\ UNCHANGED <<item, hash, wr>>

\* sendmsg takes some of the bytes.
core_transmit(r) ==
    /\ rd[r].at = "send"
    /\ \E n \in 1..(rd[r].nbyte - rd[r].sent) :
          rd' = [rd EXCEPT ![r].sent = @ + n,
                           ![r].wrong = /\ ~rd[r].excused
                                        /\ @ \/ Bytes(item[rd[r].item], rd[r].pos + rd[r].sent, n)
                                                # SubSeq(rd[r].due, rd[r].sent + 1, rd[r].sent + n)]
    /\ UNCHANGED <<item, hash, wr>>

\* Mutant: the reference is released as soon as the reply is composed.
item_remove_bug(r) ==
    /\ rd[r].at = "send" /\ Unlocked
    /\ item' = Kept(item, hash, [rd EXCEPT ![r] = NoRead])
    /\ rd' = [rd EXCEPT ![r] = IF rd[r].sent = rd[r].nbyte THEN NoRead ELSE rd[r]]
    /\ UNCHANGED <<hash, wr>>

item_remove(r) ==
    /\ rd[r].at = "send" /\ Unlocked
    /\ rd[r].sent = rd[r].nbyte
    /\ rd' = [rd EXCEPT ![r] = NoRead]
    /\ item' = Kept(item, hash, [rd EXCEPT ![r] = NoRead])
    /\ UNCHANGED <<hash, wr>>

DataNext ==
    \/ \E v \in Value : item_set(v)
    \/ item_delete
    \/ \E v \in Value, prepend \in BOOLEAN : item_annex(v, prepend)
    \/ \E incr \in BOOLEAN, d \in Delta : item_delta(incr, d)
    \/ set_nbyte
    \/ \E r \in Reader : \/ item_get(r) \/ respond_nbyte(r) \/ respond_data(r)
                         \/ core_transmit(r) \/ item_remove(r)

DataSpec == DataInit /\ [][DataNext]_data_vars

-----------------------------------------------------------------------------
\* The variables have their types.
DataTypeOK ==
    /\ hash \in Item \cup {NoItem}
    /\ \A i \in Item :
          item[i] # Blank =>
              /\ item[i].id \in DOMAIN profile
              /\ item[i].chunk \in [1..profile[item[i].id] -> Byte]
              /\ item[i].nbyte \in 0..profile[item[i].id]
    /\ \A r \in Reader : /\ rd[r].at \in {"idle", "nbyte", "data", "send"}
                         /\ rd[r].item \in Item \cup {NoItem}

\* The header and the key in front of a value are never overwritten, and a value
\* never leaves its item: the test for changing it in place, made with the class
\* of the new length, leaves room at the end where it grows.
ValueInside ==
    /\ DataTypeOK
    /\ \A i \in Item : item[i] # Blank =>
          /\ \A p \in 1..HDR_LEN : item[i].chunk[p] = Key
          /\ item_data(item[i]) > HDR_LEN
          /\ item_data(item[i]) + item[i].nbyte - 1 <= profile[item[i].id]

\* The item linked under the key holds the value that all commands since the
\* last set make together, whatever mix of copies and changes in place, at either
\* end, they were carried out by.  There is one exception: incr and decr write a
\* shorter number where the old one starts, then set nbyte, and the value of a
\* right-aligned item starts elsewhere from then on.
ValueIntended ==
    Unlocked /\ hash # NoItem /\ ~item[hash].shrunk => Stored(item[hash]) = item[hash].want

\* What a connection sends is, byte for byte, the value the item had when its
\* length was read, however long that takes and whatever is appended, prepended,
\* set or deleted meanwhile.  Left out are an incr or decr in place during the
\* reply, and a right-aligned value that grew or shrank between the two
\* unlocked reads of asc_respond_get.
SentAsStored ==
    \A r \in Reader :
        rd[r].at = "send" /\ ~rd[r].excused => ~rd[r].wrong /\ rd[r].nbyte = Len(rd[r].due)

-----------------------------------------------------------------------------
(***************************************************************************)
(* The pure functions against what they are to compute.                    *)
(***************************************************************************)
Solid(str) == \A i, j \in DOMAIN str : str[i] # Space /\ str[j] # Space =>
                  \A k \in i..j : str[k] # Space

\* The number that the digits of a string make, one after the other.
Number(str) ==
    LET num[k \in 0..Len(str)] == IF k = 0 THEN 0
                                  ELSE IF str[k] = Space THEN num[k - 1]
                                  ELSE num[k - 1] * Base + str[k]
    IN  num[Len(str)]

\* What a string is to be read as: the number of its digits if there is nothing
\* but space around them and it is below the largest multiple of the base.
Denoted(str) ==
    IF /\ Solid(str) /\ \A i \in DOMAIN str : str[i] \in Digit \cup {Space}
       /\ Number(str) < Base * (UINT64_MAX \div Base)
    THEN Number(str) ELSE Invalid

ParserExact ==
    /\ \A str \in BoundedSeq(Digit \cup {Space, Junk}, 4) : mc_strtoull_len(str) = Denoted(str)
    /\ \A n \in 0..(Base * (UINT64_MAX \div Base) - 1) : mc_strtoull_len(snprintf(n)) = n

\* mc_strtoull_len reads exactly the numbers with space around them up to the
\* limit its comment gives, "integers up to (UINT64_MAX - 6)", and what snprintf
\* prints of a number it can read is read back.  So is every value that sets,
\* appends and prepends put together, and that incr and decr leave behind.
NumbersExact ==
    /\ ParserExact
    /\ Unlocked /\ hash # NoItem =>
          mc_strtoull_len(Stored(item[hash])) = Denoted(Stored(item[hash]))

\* The class search is exact for every profile (ClassesExact); and an item, of the
\* class it was allocated from, has room for header, value and terminator after
\* every change in place.
SlabIdExact ==
    /\ ClassesExact
    /\ \A i \in Item : item[i] # Blank =>
          /\ HDR_LEN + item[i].nbyte + CRLF_LEN <= profile[item[i].id]
          /\ item_slabid(item[i].nbyte) <= item[i].id
=============================================================================
