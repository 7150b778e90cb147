--------------------------- MODULE FramingProofs ----------------------------
(***************************************************************************)
(* One connection, for any requests, buffer sizes and ways the network     *)
(* cuts the stream up: the read buffer is never overrun, every request is  *)
(* found where the one before it ends, and replies are in order.           *)
(***************************************************************************)
EXTENDS Framing, FiniteSetTheorems, FunctionTheorems, SequenceTheorems, TLAPS

-----------------------------------------------------------------------------
(***************************************************************************)
(* Numbers.                                                                *)
(***************************************************************************)

\* A nonempty set of numbers has a least one.
LEMMA LeastOne ==
    ASSUME NEW I \in SUBSET Nat, I # {}
    PROVE  \E i \in I : \A j \in I : i <= j
<1>1. IsWellFoundedOn(OpToRel(<, Nat), Nat)
  BY NatLessThanWellFounded
<1>2. PICK i \in I : \A j \in I : <<j, i>> \notin OpToRel(<, Nat)
  BY <1>1, WFMin
<1>3. \A j \in I : ~(j < i)
  BY <1>2 DEF OpToRel
<1>4. \A j \in I : i <= j
  BY <1>3
<1> QED
  BY <1>4

\* Induction up to a bound.
LEMMA Induction ==
    ASSUME NEW N \in Nat, NEW I, 0 \in I, \A n \in 0..(N - 1) : n \in I => n + 1 \in I
    PROVE  \A n \in 0..N : n \in I
<1> SUFFICES ASSUME NEW m \in 0..N, m \notin I
             PROVE  FALSE
  OBVIOUS
<1> DEFINE J == {n \in 0..N : n \notin I}
<1>1. J \in SUBSET Nat /\ J # {}
  OBVIOUS
<1>2. PICK n \in J : \A j \in J : n <= j
  <2> HIDE DEF J
  <2> QED
    BY <1>1, LeastOne
<1>3. n # 0 /\ n \in 0..N /\ n \notin I
  OBVIOUS
<1>4. n - 1 \in 0..(N - 1) /\ n - 1 \in 0..N /\ ~(n <= n - 1) /\ (n - 1) + 1 = n
  BY <1>3
<1>5. n - 1 \in I
  BY <1>2, <1>4
<1>6. (n - 1) + 1 \in I
  BY <1>4, <1>5
<1> QED
  BY <1>3, <1>4, <1>6

-----------------------------------------------------------------------------
(***************************************************************************)
(* The stream.                                                             *)
(***************************************************************************)
Size(r) == r.line + r.data

LEMMA RequestFacts ==
    ASSUME NEW r \in RequestLine
    PROVE  /\ r.line \in Nat /\ r.line > 0 /\ r.data \in Nat /\ Size(r) \in Nat /\ Size(r) > 0
           /\ r.noreply \in BOOLEAN /\ r.good \in BOOLEAN
           /\ r.data > 0 => r.type = "store"
           /\ r.noreply => r.type \in {"store", "delete"}
<1>1. r \in [type : {"get", "store", "delete", "stats", "quit"}, line : Nat \ {0},
             data : Nat, noreply : BOOLEAN, good : BOOLEAN]
  BY DEF RequestLine
<1>2. r.line \in Nat \ {0} /\ r.data \in Nat /\ r.noreply \in BOOLEAN /\ r.good \in BOOLEAN
  BY <1>1
<1>3. /\ r.data > 0 => r.type = "store"
      /\ r.noreply => r.type \in {"store", "delete"}
  BY DEF RequestLine
<1> QED
  BY <1>2, <1>3 DEF Size

\* One request more has so many units more.
LEMMA UnitsStep ==
    ASSUME NEW reqs \in Seq(RequestLine), NEW k \in 0..(Len(reqs) - 1),
           IsFiniteSet(Units(reqs, k))
    PROVE  /\ IsFiniteSet(Units(reqs, k + 1))
           /\ End(reqs, k + 1) = End(reqs, k) + Size(reqs[k + 1])
<1> DEFINE n == Size(reqs[k + 1])
           new == {k + 1} \X (1..n)
           f == [i \in 1..n |-> <<k + 1, i>>]
<1>1. n \in Nat
  <2>1. reqs[k + 1] \in RequestLine
    OBVIOUS
  <2> QED
    BY <2>1, RequestFacts
<1>2. Units(reqs, k + 1) = Units(reqs, k) \cup new
  <2>1. \A j \in 1..(k + 1) : j \in 1..k \/ j = k + 1
    OBVIOUS
  <2>2. k + 1 \in 1..(k + 1) /\ \A j \in 1..k : j \in 1..(k + 1)
    OBVIOUS
  <2> QED
    BY <2>1, <2>2 DEF Units, Size
<1>3. Units(reqs, k) \cap new = {}
  <2>1. k + 1 \notin 1..k
    OBVIOUS
  <2> QED
    BY <2>1 DEF Units
<1>4. IsFiniteSet(new) /\ Cardinality(new) = n
  <2>1. IsFiniteSet(1..n) /\ Cardinality(1..n) = n
    <3>1. 1 \in Int /\ n \in Int
      BY <1>1
    <3>2. IsFiniteSet(1..n) /\ Cardinality(1..n) = IF 1 > n THEN 0 ELSE n - 1 + 1
      BY <3>1, FS_Interval
    <3> QED
      BY <1>1, <3>2
  <2> HIDE DEF n
  <2>2. f \in [1..n -> new]
    OBVIOUS
  <2>3. \A a, b \in 1..n : f[a] = f[b] => a = b
    OBVIOUS
  <2>4. \A y \in new : \E i \in 1..n : f[i] = y
    OBVIOUS
  <2>5. f \in Bijection(1..n, new)
    <3> HIDE DEF f, new
    <3> QED
      BY <2>2, <2>3, <2>4, Fun_IsBij
  <2> QED
    <3> HIDE DEF f, new
    <3>1. ExistsBijection(1..n, new)
      BY <2>5 DEF ExistsBijection
    <3> QED
      BY <2>1, <3>1, FS_Bijection
<1> HIDE DEF new, n
<1>5. IsFiniteSet(Units(reqs, k) \cup new)
  BY <1>4, FS_Union
<1>6. Cardinality(Units(reqs, k) \cup new)
        = Cardinality(Units(reqs, k)) + Cardinality(new) - Cardinality(Units(reqs, k) \cap new)
  BY <1>4, FS_Union
<1>7. Cardinality(Units(reqs, k)) \in Nat /\ Cardinality({}) = 0
  BY FS_CardinalityType, FS_EmptySet
<1>8. Cardinality(Units(reqs, k) \cup new) = Cardinality(Units(reqs, k)) + n
  <2>1. Cardinality(Units(reqs, k) \cap new) = 0
    BY <1>3, <1>7, Zenon
  <2>2. \A a \in Nat : a + n - 0 = a + n
    BY <1>1
  <2> QED
    BY <1>4, <1>6, <1>7, <2>1, <2>2, Zenon
<1> QED
  BY <1>2, <1>5, <1>8 DEF End, n

\* Where requests end.
LEMMA EndFacts ==
    ASSUME NEW reqs \in Seq(RequestLine)
    PROVE  /\ End(reqs, 0) = 0
           /\ \A k \in 0..Len(reqs) : End(reqs, k) \in Nat
           /\ \A k \in 0..(Len(reqs) - 1) : End(reqs, k + 1) = End(reqs, k) + Size(reqs[k + 1])
<1> DEFINE I == {k \in 0..Len(reqs) : IsFiniteSet(Units(reqs, k))}
<1>0. Len(reqs) \in Nat
  OBVIOUS
<1>1. Units(reqs, 0) = {}
  BY DEF Units
<1>2. IsFiniteSet(Units(reqs, 0)) /\ Cardinality(Units(reqs, 0)) = 0
  BY <1>1, FS_EmptySet
<1>3. 0 \in I
  BY <1>2
<1>4. ASSUME NEW k \in 0..(Len(reqs) - 1), k \in I
      PROVE  k + 1 \in I
  BY <1>0, <1>4, UnitsStep
<1>5. \A k \in 0..Len(reqs) : k \in I
  <2> HIDE DEF I
  <2> QED
    BY <1>0, <1>3, <1>4, Induction
<1>6. \A k \in 0..Len(reqs) : IsFiniteSet(Units(reqs, k))
  BY <1>5
<1>7. \A k \in 0..Len(reqs) : End(reqs, k) \in Nat
  BY <1>6, FS_CardinalityType DEF End
<1>8. ASSUME NEW k \in 0..(Len(reqs) - 1)
      PROVE  End(reqs, k + 1) = End(reqs, k) + Size(reqs[k + 1])
  <2>1. IsFiniteSet(Units(reqs, k))
    BY <1>0, <1>6
  <2> QED
    BY <2>1, UnitsStep
<1> QED
  BY <1>2, <1>7, <1>8 DEF End

\* They end one after the other.
LEMMA EndMonotone ==
    ASSUME NEW reqs \in Seq(RequestLine), NEW j \in 0..Len(reqs)
    PROVE  \A k \in 0..Len(reqs) : j <= k => End(reqs, j) <= End(reqs, k)
<1> DEFINE I == {k \in 0..Len(reqs) : j <= k => End(reqs, j) <= End(reqs, k)}
<1>0. Len(reqs) \in Nat
  OBVIOUS
<1>1. \A k \in 0..Len(reqs) : End(reqs, k) \in Nat
  BY EndFacts
<1>2. 0 \in I
  BY <1>1
<1>3. ASSUME NEW k \in 0..(Len(reqs) - 1), k \in I
      PROVE  k + 1 \in I
  <2>1. k \in 0..Len(reqs) /\ k + 1 \in 0..Len(reqs) /\ reqs[k + 1] \in RequestLine
    BY <1>0
  <2>2. Size(reqs[k + 1]) \in Nat
    BY <2>1, RequestFacts
  <2>3. End(reqs, k + 1) = End(reqs, k) + Size(reqs[k + 1])
    BY EndFacts
  <2>4. End(reqs, k) \in Nat /\ End(reqs, k + 1) \in Nat /\ End(reqs, j) \in Nat
    BY <1>1, <2>1
  <2>5. CASE j <= k
    BY <1>3, <2>1, <2>2, <2>3, <2>4, <2>5
  <2>6. CASE ~(j <= k)
    <3>1. j <= k + 1 => j = k + 1
      BY <2>6
    <3> QED
      BY <2>1, <2>4, <3>1
  <2> QED
    BY <2>5, <2>6
<1>4. \A k \in 0..Len(reqs) : k \in I
  <2> HIDE DEF I
  <2> QED
    BY <1>0, <1>2, <1>3, Induction
<1> QED
  BY <1>4

\* The units of the k-th request follow the end of the one before it.
LEMMA StreamFacts ==
    ASSUME NEW reqs \in Seq(RequestLine)
    PROVE  /\ Len(Stream(reqs)) = End(reqs, Len(reqs))
           /\ \A k \in 0..(Len(reqs) - 1) : \A i \in 1..Size(reqs[k + 1]) :
                 Stream(reqs)[End(reqs, k) + i] = Unit(k + 1, reqs[k + 1], i)
<1> DEFINE n == End(reqs, Len(reqs))
           X == {Stream(reqs)[p] : p \in 1..n}
<1>0. Len(reqs) \in Nat /\ Len(reqs) \in 0..Len(reqs)
  OBVIOUS
<1>1. n \in Nat
  BY <1>0, EndFacts
<1>2. Stream(reqs) = [p \in 1..n |-> Stream(reqs)[p]]
  BY DEF Stream
<1>3. Stream(reqs) \in [1..n -> X]
  <2>1. \A p \in 1..n : Stream(reqs)[p] \in X
    OBVIOUS
  <2> HIDE DEF X, n
  <2> QED
    BY <1>2, <2>1
<1>4. Len(Stream(reqs)) = n
  <2> HIDE DEF X, n
  <2> QED
    BY <1>1, <1>3
<1>5. ASSUME NEW k \in 0..(Len(reqs) - 1), NEW i \in 1..Size(reqs[k + 1])
      PROVE  Stream(reqs)[End(reqs, k) + i] = Unit(k + 1, reqs[k + 1], i)
  <2> DEFINE p == End(reqs, k) + i
             K(q) == q \in DOMAIN reqs /\ p \in (End(reqs, q - 1) + 1)..End(reqs, q)
             ch == CHOOSE q \in DOMAIN reqs : p \in (End(reqs, q - 1) + 1)..End(reqs, q)
  <2>1. /\ k \in 0..Len(reqs) /\ k + 1 \in 0..Len(reqs) /\ k + 1 \in DOMAIN reqs
        /\ (k + 1) - 1 = k /\ reqs[k + 1] \in RequestLine
    BY <1>0
  <2>2. Size(reqs[k + 1]) \in Nat
    BY <2>1, RequestFacts
  <2>3. /\ End(reqs, k) \in Nat /\ End(reqs, k + 1) \in Nat
        /\ End(reqs, k + 1) = End(reqs, k) + Size(reqs[k + 1])
    BY <2>1, EndFacts
  <2>4. p \in (End(reqs, k) + 1)..End(reqs, k + 1) /\ p \in Nat
    BY <2>2, <2>3
  <2>5. p \in 1..n
    <3>1. k + 1 <= Len(reqs)
      OBVIOUS
    <3>2. End(reqs, k + 1) <= n
      BY <1>0, <2>1, <3>1, EndMonotone
    <3> HIDE DEF n
    <3> QED
      BY <1>1, <2>3, <2>4, <3>2
  <2>6. K(k + 1)
    BY <2>1, <2>4
  <2>7. ASSUME NEW q, K(q)
        PROVE  q = k + 1
    <3>1. q \in 0..Len(reqs) /\ q - 1 \in 0..Len(reqs) /\ q \in Nat
      BY <2>7
    <3>2. End(reqs, q) \in Nat /\ End(reqs, q - 1) \in Nat
      BY <3>1, EndFacts
    <3>3. p > End(reqs, q - 1) /\ p <= End(reqs, q)
      BY <2>7, <3>2, <2>4
    <3>4. p > End(reqs, k) /\ p <= End(reqs, k + 1)
      BY <2>3, <2>4
    <3> HIDE DEF p
    <3>5. ~(q < k + 1)
      <4>1. q <= k => End(reqs, q) <= End(reqs, k)
        BY <2>1, <3>1, EndMonotone
      <4> QED
        BY <2>3, <2>4, <3>1, <3>2, <3>3, <3>4, <4>1
    <3>6. ~(k + 1 < q)
      <4>1. k + 1 <= q - 1 => End(reqs, k + 1) <= End(reqs, q - 1)
        BY <2>1, <3>1, EndMonotone
      <4> QED
        BY <2>3, <2>4, <3>1, <3>2, <3>3, <3>4, <4>1
    <3> QED
      BY <2>1, <3>1, <3>5, <3>6
  <2>8. ch = k + 1
    <3>1. K(ch)
      BY <2>6
    <3> HIDE DEF K, ch
    <3> QED
      BY <2>7, <3>1
  <2>9. Stream(reqs)[p] = Unit(ch, reqs[ch], p - End(reqs, ch - 1))
    BY <2>5 DEF Stream
  <2>10. p - End(reqs, k) = i
    BY <2>3
  <2> QED
    BY <2>1, <2>8, <2>9, <2>10
<1> QED
  BY <1>4, <1>5

-----------------------------------------------------------------------------
(***************************************************************************)
(* The inductive invariant.                                                *)
(***************************************************************************)
Part == [req : Nat, last : BOOLEAN]

Conn == [state : {"CONN_WAIT", "CONN_READ", "CONN_PARSE", "CONN_NEW_CMD", "CONN_NREAD",
                  "CONN_SWALLOW", "CONN_WRITE", "CONN_MWRITE", "CONN_CLOSE", "CLOSED",
                  "ABORTED"},
         ev_flags : {"EV_READ", "EV_WRITE"}, registered : BOOLEAN,
         rsize : Nat, rcurr : Nat, rbytes : Nat, rlbytes : Nat, sbytes : Nat,
         noreply : BOOLEAN,
         write_and_go : {"CONN_NEW_CMD", "CONN_SWALLOW", "CONN_CLOSE"},
         msg_used : {0, 1}, iov_used : Nat,
         msg : Seq(Part), wbuf : Nat]
Loop == [active : BOOLEAN, nreqs : Nat, num_allocs : 0..MAX_ALLOCS, gotdata : BOOLEAN]

\* Between two requests; and once the connection is being closed.
Between == {"CONN_NEW_CMD", "CONN_WAIT", "CONN_READ", "CONN_PARSE"}
Closing == {"CONN_CLOSE", "CLOSED", "ABORTED"}

Types ==
    /\ TypeOK
    /\ sent \in Scripts /\ stream = Stream(sent) /\ eof \in BOOLEAN
    /\ replies \in Seq(Part)
    /\ log \in [handled : Nat, missed : SUBSET Nat, oom : SUBSET Nat, cut : SUBSET Nat]
    /\ log.cut \subseteq 1..log.handled

Bounds == c.rcurr + c.rbytes <= c.rsize

\* How many units have been used, by the parser or as data.
Pos == rd - c.rbytes

\* The data of request k may be parsed as a command.
Excuse(k) == ~sent[k].good \/ (k \in log.oom /\ sent[k].noreply)

\* The last request is used up, but for its data if that is excused.
Synced ==
    \/ Pos = End(sent, log.handled)
    \/ /\ log.handled > 0
       /\ Pos = End(sent, log.handled) - sent[log.handled].data
       /\ Excuse(log.handled)

\* Where the stream is used next: at a request, or at the data of the last one
\* with its length in rlbytes or sbytes.
AtRequest ==
    \/ c.state \in Between \cup {"CONN_MWRITE"}
    \/ c.state = "CONN_WRITE" /\ c.write_and_go = "CONN_NEW_CMD"
AtBlock ==
    \/ c.state = "CONN_SWALLOW"
    \/ c.state = "CONN_WRITE" /\ c.write_and_go = "CONN_SWALLOW"
Place ==
    /\ AtRequest => Synced
    /\ AtBlock => Pos + c.sbytes = End(sent, log.handled)
    /\ c.state = "CONN_NREAD" => log.handled > 0 /\ Pos + c.rlbytes = End(sent, log.handled)

\* noreply is set only while the data of such a request is read, and a message
\* is there only while it is written.
Flags ==
    /\ c.state \notin Closing \cup {"CONN_NREAD"} => ~c.noreply
    /\ c.state = "CONN_NREAD" => /\ c.noreply = sent[log.handled].noreply
                                 /\ c.iov_used = 0 /\ log.handled \notin log.cut
    /\ c.state \notin Closing \cup {"CONN_WRITE", "CONN_MWRITE"} => c.msg = << >>

\* What is still to be put on the socket, and with it all parts of replies.
Pending == IF c.state \in {"CONN_WRITE", "CONN_MWRITE"} THEN Message.msg ELSE << >>
Parts == replies \o Pending

\* The requests that have their reply: all that are owed one, but the one whose
\* data is being read.
Due == {k \in 1..log.handled : Owed(k) /\ (c.state = "CONN_NREAD" => k # log.handled)}

InOrder(parts) == \A i, j \in DOMAIN parts : i < j => Before(parts[i], parts[j])

Sorted ==
    /\ \A i \in DOMAIN Parts : Parts[i].req <= log.handled
    /\ InOrder(Parts)
    /\ c.state \notin Closing => Ended(Parts) = Due

Rest == Place /\ InSync /\ Flags /\ Sorted
IInv == Types /\ Bounds /\ Rest

-----------------------------------------------------------------------------
(***************************************************************************)
(* Sequences of parts.                                                     *)
(***************************************************************************)
LEMMA ConcatFacts ==
    ASSUME NEW s \in Seq(Part), NEW q \in Seq(Part)
    PROVE  /\ s \o q \in Seq(Part) /\ Len(s \o q) = Len(s) + Len(q)
           /\ \A i \in 1..Len(s) : (s \o q)[i] = s[i]
           /\ \A i \in 1..Len(q) : (s \o q)[Len(s) + i] = q[i]
           /\ \A i \in 1..(Len(s) + Len(q)) : i \in 1..Len(s) \/ i - Len(s) \in 1..Len(q)
<1> HIDE DEF Part
<1>1. /\ s \o q \in Seq(Part) /\ Len(s \o q) = Len(s) + Len(q)
      /\ \A i \in 1..Len(s) : (s \o q)[i] = s[i]
  OBVIOUS
<1>2. ASSUME NEW i \in 1..Len(q)
      PROVE  (s \o q)[Len(s) + i] = q[i]
  <2>1. Len(s) \in Nat /\ Len(q) \in Nat
    OBVIOUS
  <2>2. (Len(s) + i) - Len(s) = i /\ Len(s) + i \in 1..(Len(s) + Len(q)) /\ ~(Len(s) + i <= Len(s))
    BY <2>1
  <2> QED
    BY <2>2
<1>3. \A i \in 1..(Len(s) + Len(q)) : i \in 1..Len(s) \/ i - Len(s) \in 1..Len(q)
  <2>1. Len(s) \in Nat /\ Len(q) \in Nat
    OBVIOUS
  <2> QED
    BY <2>1
<1> QED
  BY <1>1, <1>2, <1>3

LEMMA EndedIs ==
    ASSUME NEW s \in Seq(Part), NEW x
    PROVE  x \in Ended(s) <=> x # 0 /\ \E i \in 1..Len(s) : s[i].last /\ s[i].req = x
<1>1. DOMAIN s = 1..Len(s)
  OBVIOUS
<1> QED
  BY <1>1 DEF Ended

\* Parts of a reply that comes after those there are.
LEMMA Extend ==
    ASSUME NEW s \in Seq(Part), NEW q \in Seq(Part), NEW m \in Nat, NEW k \in Nat,
           \A i \in DOMAIN s : s[i].req <= m, InOrder(s),
           \A i \in DOMAIN q : q[i].req \in {0, k}, InOrder(q),
           k # 0 => m <= k /\ k \notin Ended(s)
    PROVE  /\ InOrder(s \o q)
           /\ Ended(s \o q) = Ended(s) \cup Ended(q)
           /\ \A n \in Nat : m <= n /\ k <= n => \A i \in DOMAIN (s \o q) : (s \o q)[i].req <= n
<1> DEFINE t == s \o q
           a == Len(s)
           b == Len(q)
<1>1. /\ t \in Seq(Part) /\ Len(t) = a + b
      /\ \A i \in 1..a : t[i] = s[i]
      /\ \A i \in 1..b : t[a + i] = q[i]
      /\ \A i \in 1..(a + b) : i \in 1..a \/ i - a \in 1..b
  BY ConcatFacts
<1>2. a \in Nat /\ b \in Nat /\ DOMAIN s = 1..a /\ DOMAIN q = 1..b /\ DOMAIN t = 1..(a + b)
  <2> HIDE DEF Part, t
  <2> QED
    BY <1>1
<1> HIDE DEF t, a, b
<1>3. /\ \A i \in 1..a : s[i].req \in Nat /\ s[i].req <= m /\ s[i].last \in BOOLEAN
      /\ \A i \in 1..b : q[i].req \in Nat /\ q[i].last \in BOOLEAN
  <2>1. \A p \in Part : p.req \in Nat /\ p.last \in BOOLEAN
    BY DEF Part
  <2> HIDE DEF Part
  <2>2. (\A i \in 1..a : s[i] \in Part) /\ (\A i \in 1..b : q[i] \in Part)
    BY <1>2 DEF a, b
  <2> QED
    BY <1>2, <2>1, <2>2
<1>4. ASSUME NEW i \in 1..(a + b), NEW j \in 1..(a + b), i < j
      PROVE  Before(t[i], t[j])
  <2>1. CASE j \in 1..a
    <3>1. i \in 1..a
      BY <1>2, <1>4, <2>1
    <3> QED
      BY <1>1, <1>2, <1>4, <2>1, <3>1 DEF InOrder
  <2>2. CASE i \in 1..a /\ j - a \in 1..b
    <3>1. a + (j - a) = j
      BY <1>2
    <3>2. t[i] = s[i] /\ t[j] = q[j - a]
      BY <1>1, <2>2, <3>1
    <3>3. q[j - a].req \in {0, k} /\ s[i].req \in Nat /\ s[i].req <= m
      BY <1>2, <1>3, <2>2
    <3>4. s[i].last /\ s[i].req # 0 => s[i].req \in Ended(s)
      BY <2>2, EndedIs DEF a
    <3> QED
      BY <3>2, <3>3, <3>4 DEF Before
  <2>3. CASE i - a \in 1..b /\ j - a \in 1..b
    <3>1. a + (j - a) = j /\ a + (i - a) = i /\ i - a < j - a
      BY <1>2, <1>4
    <3>2. t[i] = q[i - a] /\ t[j] = q[j - a]
      BY <1>1, <2>3, <3>1
    <3> QED
      BY <1>2, <2>3, <3>1, <3>2 DEF InOrder
  <2> QED
    BY <1>1, <2>1, <2>2, <2>3
<1>5. Ended(t) = Ended(s) \cup Ended(q)
  <2>1. ASSUME NEW x, x \in Ended(t)
        PROVE  x \in Ended(s) \cup Ended(q)
    <3>1. PICK i \in 1..(a + b) : t[i].last /\ t[i].req = x /\ x # 0
      BY <1>1, <2>1, EndedIs
    <3>2. CASE i \in 1..a
      BY <1>1, <3>1, <3>2, EndedIs DEF a
    <3>3. CASE i - a \in 1..b
      <4>1. a + (i - a) = i
        BY <1>2
      <4>2. t[i] = q[i - a]
        BY <1>1, <3>3, <4>1
      <4> QED
        BY <3>1, <3>3, <4>2, EndedIs DEF b
    <3> QED
      BY <1>1, <3>2, <3>3
  <2>2. ASSUME NEW x, x \in Ended(s)
        PROVE  x \in Ended(t)
    <3>1. PICK i \in 1..a : s[i].last /\ s[i].req = x /\ x # 0
      BY <2>2, EndedIs DEF a
    <3>2. i \in 1..(a + b) /\ t[i] = s[i]
      BY <1>1, <1>2
    <3> QED
      BY <1>1, <3>1, <3>2, EndedIs
  <2>3. ASSUME NEW x, x \in Ended(q)
        PROVE  x \in Ended(t)
    <3>1. PICK i \in 1..b : q[i].last /\ q[i].req = x /\ x # 0
      BY <2>3, EndedIs DEF b
    <3>2. a + i \in 1..(a + b) /\ t[a + i] = q[i]
      BY <1>1, <1>2
    <3> QED
      BY <1>1, <3>1, <3>2, EndedIs
  <2> QED
    BY <2>1, <2>2, <2>3
<1>6. ASSUME NEW n \in Nat, m <= n, k <= n, NEW i \in 1..(a + b)
      PROVE  t[i].req <= n
  <2>1. CASE i \in 1..a
    BY <1>1, <1>3, <1>6, <2>1
  <2>2. CASE i - a \in 1..b
    <3>1. a + (i - a) = i
      BY <1>2
    <3>2. t[i] = q[i - a]
      BY <1>1, <2>2, <3>1
    <3> QED
      BY <1>2, <1>6, <2>2, <3>2
  <2> QED
    BY <1>1, <2>1, <2>2
<1> QED
  BY <1>2, <1>4, <1>5, <1>6 DEF InOrder, t

\* The parts already on the socket are as good as all of them.
LEMMA Prefix ==
    ASSUME NEW s \in Seq(Part), NEW q \in Seq(Part), InOrder(s \o q), NEW m,
           \A i \in DOMAIN (s \o q) : (s \o q)[i].req <= m
    PROVE  InOrder(s) /\ \A i \in DOMAIN s : s[i].req <= m
<1>1. /\ s \o q \in Seq(Part) /\ Len(s \o q) = Len(s) + Len(q)
      /\ \A i \in 1..Len(s) : (s \o q)[i] = s[i]
  BY ConcatFacts
<1>2. DOMAIN s = 1..Len(s) /\ DOMAIN (s \o q) = 1..(Len(s) + Len(q))
      /\ Len(s) \in Nat /\ Len(q) \in Nat
  <2> HIDE DEF Part
  <2>1. PICK t \in Seq(Part) : t = s \o q
    BY <1>1
  <2>2. DOMAIN t = 1..Len(t) /\ Len(t) = Len(s) + Len(q)
    BY <1>1, <2>1
  <2> QED
    BY <2>1, <2>2
<1>3. \A i \in DOMAIN s : i \in DOMAIN (s \o q) /\ (s \o q)[i] = s[i]
  BY <1>1, <1>2
<1> QED
  BY <1>3 DEF InOrder

\* A reply of one part.
Single(k) == <<[req |-> k, last |-> TRUE]>>

LEMMA SingleFacts ==
    ASSUME NEW k \in Nat
    PROVE  /\ Single(k) \in Seq(Part) /\ InOrder(Single(k))
           /\ \A i \in DOMAIN Single(k) : Single(k)[i].req \in {0, k}
           /\ Ended(Single(k)) = {k} \ {0}
<1>1. [req |-> k, last |-> TRUE] \in Part
  BY DEF Part
<1>2. Single(k) \in Seq(Part) /\ DOMAIN Single(k) = 1..1 /\ Len(Single(k)) = 1
      /\ Single(k)[1] = [req |-> k, last |-> TRUE]
  BY <1>1 DEF Single
<1>3. InOrder(Single(k))
  BY <1>2 DEF InOrder
<1>4. \A i \in DOMAIN Single(k) : Single(k)[i].req = k /\ Single(k)[i].last
  BY <1>2
<1>5. Ended(Single(k)) = {k} \ {0}
  BY <1>2, <1>4 DEF Ended
<1> QED
  BY <1>2, <1>3, <1>4, <1>5

-----------------------------------------------------------------------------
(***************************************************************************)
(* Types.                                                                  *)
(***************************************************************************)
LEMMA ConnFacts ==
    ASSUME NEW x \in Conn
    PROVE  /\ x.rsize \in Nat /\ x.rcurr \in Nat /\ x.rbytes \in Nat
           /\ x.rlbytes \in Nat /\ x.sbytes \in Nat /\ x.iov_used \in Nat /\ x.wbuf \in Nat
           /\ x.noreply \in BOOLEAN /\ x.registered \in BOOLEAN
           /\ x.ev_flags \in {"EV_READ", "EV_WRITE"} /\ x.msg_used \in {0, 1}
           /\ x.write_and_go \in {"CONN_NEW_CMD", "CONN_SWALLOW", "CONN_CLOSE"}
           /\ x.msg \in Seq(Part)
BY DEF Conn

LEMMA AddIovFacts ==
    ASSUME NEW x \in Conn
    PROVE  /\ conn_add_iov(x) \in Conn
           /\ conn_add_iov(x).msg = Single(x.wbuf) /\ conn_add_iov(x).iov_used = 1
           /\ conn_add_iov(x).state = x.state /\ conn_add_iov(x).rbytes = x.rbytes
           /\ conn_add_iov(x).rcurr = x.rcurr /\ conn_add_iov(x).rsize = x.rsize
           /\ conn_add_iov(x).sbytes = x.sbytes /\ conn_add_iov(x).noreply = x.noreply
           /\ conn_add_iov(x).write_and_go = x.write_and_go
           /\ conn_add_iov(x).ev_flags = x.ev_flags
<1>1. x.wbuf \in Nat
  BY ConnFacts
<1>2. PICK m \in Seq(Part) : m = Single(x.wbuf)
  BY <1>1, SingleFacts
<1>3. PICK y : y = conn_add_iov(x)
  OBVIOUS
<1>4. y = [x EXCEPT !.msg = m, !.iov_used = 1]
  BY <1>2, <1>3 DEF conn_add_iov, Single
<1>5. /\ y \in Conn /\ y.msg = m /\ y.iov_used = 1
      /\ y.state = x.state /\ y.rbytes = x.rbytes /\ y.rcurr = x.rcurr /\ y.rsize = x.rsize
      /\ y.sbytes = x.sbytes /\ y.noreply = x.noreply
      /\ y.write_and_go = x.write_and_go /\ y.ev_flags = x.ev_flags
  BY <1>4 DEF Conn
<1> QED
  BY <1>2, <1>3, <1>5

LEMMA MessageFacts ==
    ASSUME c \in Conn
    PROVE  Message \in Conn /\ Pending \in Seq(Part)
<1>3. conn_add_iov(c) \in Conn
  BY AddIovFacts
<1>4. Message \in Conn
  BY <1>3 DEF Message
<1>5. Message.msg \in Seq(Part)
  BY <1>4, ConnFacts
<1>6. << >> \in Seq(Part)
  OBVIOUS
<1> QED
  BY <1>4, <1>5, <1>6 DEF Pending

\* What the types say.
LEMMA Known ==
    ASSUME Types
    PROVE  /\ c \in Conn /\ loop \in Loop /\ sent \in Seq(RequestLine) /\ Len(sent) \in Nat
           /\ arrived \in Nat /\ rd \in Nat /\ rd <= arrived /\ arrived <= Len(stream)
           /\ c.rbytes \in Nat /\ c.rbytes <= rd /\ Pos \in Nat /\ Pos <= rd
           /\ c.sbytes \in Nat /\ c.rlbytes \in Nat
           /\ log.handled \in 0..Len(sent)
           /\ Len(stream) = End(sent, Len(sent)) /\ Len(stream) \in Nat
           /\ End(sent, log.handled) \in Nat
           /\ replies \in Seq(Part) /\ Pending \in Seq(Part) /\ Parts \in Seq(Part)
<1>1. c \in Conn /\ loop \in Loop
  BY DEF Types, TypeOK, Conn, Loop, Part
<1>2. sent \in Seq(RequestLine)
  BY FramingAssumption DEF Types
<1>3. Len(sent) \in Nat /\ Len(sent) \in 0..Len(sent)
  BY <1>2
<1>4. Len(stream) = End(sent, Len(sent))
  BY <1>2, StreamFacts DEF Types
<1>5. Len(stream) \in Nat
  BY <1>2, <1>3, <1>4, EndFacts
<1>6. /\ arrived \in Nat /\ rd \in Nat /\ rd <= arrived /\ arrived <= Len(stream)
      /\ c.rbytes <= rd /\ log.handled \in 0..Len(sent)
  BY <1>5 DEF Types, TypeOK
<1>7. c.rbytes \in Nat /\ c.sbytes \in Nat /\ c.rlbytes \in Nat
  BY <1>1, ConnFacts
<1>8. Pos \in Nat /\ Pos <= rd
  BY <1>6, <1>7 DEF Pos
<1>9. End(sent, log.handled) \in Nat
  BY <1>2, <1>6, EndFacts
<1>10. replies \in Seq(Part) /\ Pending \in Seq(Part)
  BY <1>1, MessageFacts DEF Types
<1>11. Parts \in Seq(Part)
  BY <1>10, ConcatFacts DEF Parts
<1> QED
  BY <1>1, <1>2, <1>3, <1>4, <1>5, <1>6, <1>7, <1>8, <1>9, <1>10, <1>11

\* At first nothing is used and nobody has a reply.
LEMMA InitIInv ==
    ASSUME Init
    PROVE  IInv
<1>1. /\ sent \in Scripts /\ stream = Stream(sent) /\ arrived = 0 /\ eof = FALSE /\ rd = 0
      /\ unread = 0 /\ c = conn_get /\ loop = Stopped /\ replies = << >>
      /\ log = [handled |-> 0, missed |-> {}, oom |-> {}, cut |-> {}]
  BY DEF Init
<1>2. sent \in Seq(RequestLine)
  BY <1>1, FramingAssumption
<1>3. Len(sent) \in Nat /\ Len(sent) \in 0..Len(sent)
  BY <1>2
<1>4. Len(stream) \in Nat
  BY <1>1, <1>2, <1>3, StreamFacts, EndFacts
<1>5. c \in Conn
  <2>1. TCP_BUFFER_SIZE \in Nat /\ << >> \in Seq(Part)
    BY FramingAssumption
  <2> QED
    BY <1>1, <2>1 DEF conn_get, Conn
<1>6. loop \in Loop
  BY <1>1, FramingAssumption DEF Stopped, Loop
<1>7. c.rbytes = 0 /\ c.rcurr = 0 /\ c.rsize = TCP_BUFFER_SIZE /\ c.state = "CONN_NEW_CMD"
      /\ c.noreply = FALSE /\ c.msg = << >>
  BY <1>1 DEF conn_get
<1>8. log.handled = 0 /\ log.missed = {} /\ log.cut = {}
      /\ log \in [handled : Nat, missed : SUBSET Nat, oom : SUBSET Nat, cut : SUBSET Nat]
  BY <1>1
<1>9. Types
  <2>1. << >> \in Seq(Part) /\ SndBuf \in Nat
    BY FramingAssumption
  <2>2. TypeOK
    BY <1>1, <1>3, <1>4, <1>5, <1>6, <1>7, <1>8, <2>1 DEF TypeOK, Conn, Loop, Part
  <2> QED
    BY <1>1, <1>8, <2>1, <2>2 DEF Types
<1>10. Bounds
  BY <1>7, FramingAssumption DEF Bounds
<1>11. Place
  <2>1. Pos = 0 /\ End(sent, log.handled) = 0
    BY <1>1, <1>2, <1>7, <1>8, EndFacts DEF Pos
  <2> QED
    BY <1>7, <2>1 DEF Place, AtRequest, AtBlock, Synced, Between
<1>12. InSync /\ Flags
  BY <1>7, <1>8 DEF InSync, Flags
<1>13. Sorted
  <2>1. Parts = << >>
    BY <1>1, <1>7 DEF Parts, Pending
  <2>2. DOMAIN Parts = {}
    BY <2>1
  <2>3. Due = {}
    BY <1>8 DEF Due
  <2> QED
    BY <2>2, <2>3 DEF Sorted, InOrder, Ended
<1> QED
  BY <1>9, <1>10, <1>11, <1>12, <1>13 DEF IInv, Rest

-----------------------------------------------------------------------------
(***************************************************************************)
(* What several steps have in common.                                      *)
(***************************************************************************)

\* A connection that is being closed drops what it has not written.
LEMMA RestClosing ==
    ASSUME IInv, UNCHANGED <<sent, replies, log>>, c'.state \in Closing
    PROVE  Rest'
<1>1. Place' /\ InSync' /\ Flags'
  BY DEF Closing, Between, Place, AtRequest, AtBlock, Flags, IInv, Rest, InSync
<1>2. replies \in Seq(Part) /\ Pending \in Seq(Part)
  BY Known DEF IInv
<1>3. InOrder(replies) /\ \A i \in DOMAIN replies : replies[i].req <= log.handled
  BY <1>2, Prefix DEF IInv, Rest, Sorted, Parts
<1>4. Pending' = << >>
  BY DEF Pending, Closing
<1>5. Parts' = replies
  BY <1>2, <1>4 DEF Parts
<1>6. Sorted'
  BY <1>3, <1>5 DEF Sorted, InOrder, Before
<1> QED
  BY <1>1, <1>6 DEF Rest

\* Nothing is used, and no reply comes or goes, between two requests.
LEMMA RestBetween ==
    ASSUME IInv, UNCHANGED <<sent, replies, log>>, c.state \in Between,
           c'.state \in Between, Pos' = Pos, c'.noreply = c.noreply, c'.msg = c.msg
    PROVE  Rest'
<1>1. Place'
  BY DEF Between, Place, AtRequest, AtBlock, Synced, Excuse, IInv, Rest
<1>2. InSync'
  BY DEF IInv, Rest, InSync
<1>3. Flags'
  BY DEF Between, Closing, Flags, IInv, Rest
<1>4. Pending = << >> /\ Pending' = << >>
  BY DEF Pending, Between
<1>5. Parts' = Parts
  BY <1>4 DEF Parts
<1>6. Due' = Due
  BY DEF Due, Owed, Between
<1>7. c.state \notin Closing
  BY DEF Closing, Between
<1>8. Sorted'
  BY <1>5, <1>6, <1>7 DEF Sorted, InOrder, Before, Ended, IInv, Rest
<1> QED
  BY <1>1, <1>2, <1>3, <1>8 DEF Rest

\* Steps that leave the connection alone.
LEMMA RestSame ==
    ASSUME IInv, UNCHANGED <<sent, rd, c, replies, log>>
    PROVE  Rest'
<1>1. Parts' = Parts /\ Due' = Due /\ Pos' = Pos
  BY DEF Parts, Pending, Message, Due, Owed, Pos
<1>2. Place' /\ InSync' /\ Flags'
  BY <1>1 DEF Place, AtRequest, AtBlock, Synced, Excuse, InSync, Flags, IInv, Rest
<1>3. Sorted'
  BY <1>1 DEF Sorted, InOrder, Before, Ended, IInv, Rest
<1> QED
  BY <1>2, <1>3 DEF Rest

LEMMA ClientSteps ==
    ASSUME IInv, deliver \/ client_shutdown \/ client_read \/ core_event_handler
    PROVE  IInv'
<1>1. UNCHANGED <<sent, stream, rd, c, replies, log>>
  BY DEF deliver, client_shutdown, client_read, core_event_handler
<1>2. Rest'
  BY <1>1, RestSame
<1>3. Bounds'
  BY <1>1 DEF IInv, Bounds
<1>4. arrived' \in 0..Len(stream) /\ rd \in 0..arrived'
  <2>1. /\ arrived \in Nat /\ rd \in Nat /\ rd <= arrived /\ arrived <= Len(stream)
        /\ Len(stream) \in Nat
    BY Known DEF IInv
  <2>2. CASE arrived' = arrived
    BY <2>1, <2>2
  <2>3. CASE deliver
    <3>1. PICK n \in (arrived + 1)..Len(stream) : arrived' = n
      BY <2>3 DEF deliver
    <3> QED
      BY <2>1, <3>1
  <2> QED
    BY <2>2, <2>3 DEF client_shutdown, client_read, core_event_handler
<1>5. eof' \in BOOLEAN /\ unread' \in 0..SndBuf
  <2>1. SndBuf \in Nat /\ eof \in BOOLEAN /\ unread \in 0..SndBuf
    BY FramingAssumption DEF IInv, Types, TypeOK
  <2>2. (eof' = eof \/ eof' = TRUE) /\ (unread' = unread \/ unread' = 0)
    BY DEF deliver, client_shutdown, client_read, core_event_handler
  <2>3. eof' \in BOOLEAN
    BY <2>1, <2>2
  <2>4. unread' \in 0..SndBuf
    BY <2>1, <2>2
  <2> QED
    BY <2>3, <2>4
<1>6. loop' \in Loop
  <2>1. loop \in Loop
    BY Known DEF IInv
  <2>2. CASE core_event_handler
    <3>1. loop' = [active |-> TRUE, nreqs |-> reqs_per_event, num_allocs |-> 0, gotdata |-> FALSE]
      BY <2>2 DEF core_event_handler, Stopped
    <3> QED
      BY <3>1, FramingAssumption DEF Loop
  <2> QED
    BY <2>1, <2>2 DEF deliver, client_shutdown, client_read
<1>7. Types'
  BY <1>1, <1>4, <1>5, <1>6 DEF IInv, Types, TypeOK, Loop
<1> QED
  BY <1>2, <1>3, <1>7 DEF IInv

State == {"CONN_WAIT", "CONN_READ", "CONN_PARSE", "CONN_NEW_CMD", "CONN_NREAD", "CONN_SWALLOW",
          "CONN_WRITE", "CONN_MWRITE", "CONN_CLOSE", "CLOSED", "ABORTED"}

\* The same but for state and events.
Alike(x, y) ==
    /\ y.rsize = x.rsize /\ y.rcurr = x.rcurr /\ y.rbytes = x.rbytes
    /\ y.rlbytes = x.rlbytes /\ y.sbytes = x.sbytes /\ y.noreply = x.noreply
    /\ y.write_and_go = x.write_and_go /\ y.msg_used = x.msg_used
    /\ y.iov_used = x.iov_used /\ y.msg = x.msg /\ y.wbuf = x.wbuf

LEMMA SetState ==
    ASSUME NEW x \in Conn, NEW st \in State
    PROVE  /\ [x EXCEPT !.state = st] \in Conn
           /\ Alike(x, [x EXCEPT !.state = st])
           /\ [x EXCEPT !.state = st].state = st
BY DEF Conn, State, Alike

LEMMA UpdateFacts ==
    ASSUME NEW x \in Conn, NEW flags \in {"EV_READ", "EV_WRITE"}, NEW u \in core_update(x, flags)
    PROVE  u.conn \in Conn /\ Alike(x, u.conn) /\ u.conn.state = x.state
<1>1. u.conn \in {x, [x EXCEPT !.ev_flags = flags], [x EXCEPT !.ev_flags = flags, !.registered = FALSE]}
  BY DEF core_update
<1>2. ASSUME NEW y, y = [x EXCEPT !.ev_flags = flags]
      PROVE  y \in Conn /\ Alike(x, y) /\ y.state = x.state
  BY <1>2 DEF Conn, Alike
<1>3. ASSUME NEW y, y = [x EXCEPT !.ev_flags = flags, !.registered = FALSE]
      PROVE  y \in Conn /\ Alike(x, y) /\ y.state = x.state
  BY <1>3 DEF Conn, Alike
<1>4. Alike(x, x)
  BY DEF Alike
<1> QED
  BY <1>1, <1>2, <1>3, <1>4

LEMMA AlikeTransitive ==
    ASSUME NEW x, NEW y, NEW z, Alike(x, y), Alike(y, z)
    PROVE  Alike(x, z)
BY DEF Alike

LEMMA StoppedLoop == Stopped \in Loop
BY FramingAssumption DEF Stopped, Loop

LEMMA StopForFacts ==
    ASSUME NEW x \in Conn, NEW flags \in {"EV_READ", "EV_WRITE"}, NEW next \in State,
           StopFor(x, flags, next)
    PROVE  /\ c' \in Conn /\ Alike(x, c') /\ c'.state \in {next, "CONN_CLOSE"}
           /\ loop' = Stopped \/ loop' = loop
<1>1. PICK u \in core_update(x, flags) :
         IF u.ok THEN Stop([u.conn EXCEPT !.state = next])
         ELSE GoOn([u.conn EXCEPT !.state = "CONN_CLOSE"])
  BY DEF StopFor
<1>2. u.conn \in Conn /\ Alike(x, u.conn)
  BY UpdateFacts
<1>3. PICK st \in {next, "CONN_CLOSE"} : /\ c' = [u.conn EXCEPT !.state = st]
                                         /\ loop' = Stopped \/ loop' = loop
  BY <1>1 DEF Stop, GoOn
<1>4. st \in State
  BY <1>3 DEF State
<1>5. c' \in Conn /\ Alike(u.conn, c') /\ c'.state = st
  BY <1>2, <1>3, <1>4, SetState
<1> QED
  BY <1>2, <1>3, <1>5, AlikeTransitive

\* The types after a step of the thread.
LEMMA TypesStep ==
    ASSUME IInv, UNCHANGED <<sent, stream, arrived, eof>>, c' \in Conn, loop' \in Loop,
           rd' \in Nat, rd' <= arrived, c'.rbytes <= rd', unread' \in 0..SndBuf,
           replies' \in Seq(Part),
           log' \in [handled : Nat, missed : SUBSET Nat, oom : SUBSET Nat, cut : SUBSET Nat],
           log'.handled <= Len(sent), log'.cut \subseteq 1..log'.handled
    PROVE  Types'
<1>1. arrived \in 0..Len(stream) /\ sent \in Scripts /\ stream = Stream(sent) /\ eof \in BOOLEAN
  BY DEF IInv, Types, TypeOK
<1>2. arrived \in Nat /\ Len(sent) \in Nat
  BY Known DEF IInv
<1>3. rd' \in 0..arrived' /\ log'.handled \in 0..Len(sent')
  BY <1>2
<1>4. TypeOK'
  BY <1>1, <1>3 DEF TypeOK, Conn, Loop, Part
<1> QED
  BY <1>1, <1>4 DEF Types

\* The types of replies and log.
LEMMA LogTypes ==
    ASSUME IInv
    PROVE  /\ unread \in 0..SndBuf /\ replies \in Seq(Part) /\ log.handled <= Len(sent)
           /\ log \in [handled : Nat, missed : SUBSET Nat, oom : SUBSET Nat, cut : SUBSET Nat]
           /\ log.cut \subseteq 1..log.handled
<1>1. /\ TypeOK /\ replies \in Seq(Part)
      /\ log \in [handled : Nat, missed : SUBSET Nat, oom : SUBSET Nat, cut : SUBSET Nat]
      /\ log.cut \subseteq 1..log.handled
  BY Zenon DEF IInv, Types
<1>2. unread \in 0..SndBuf
  BY <1>1, Zenon DEF TypeOK
<1>3. log.handled \in 0..Len(sent)
  BY Known DEF IInv
<1>4. Len(sent) \in Nat
  BY Known DEF IInv
<1>5. log.handled <= Len(sent)
  BY <1>3, <1>4
<1> QED
  BY <1>1, <1>2, <1>5, Zenon

\* Steps that change no more than the connection and the loop.
LEMMA TypesConn ==
    ASSUME IInv, UNCHANGED <<sent, stream, arrived, eof, rd, unread, replies, log>>,
           c' \in Conn, loop' \in Loop, c'.rbytes <= rd
    PROVE  Types'
<1>1. rd \in Nat /\ rd <= arrived /\ Len(sent) \in Nat
  BY Known DEF IInv
<1>2. /\ unread \in 0..SndBuf /\ replies \in Seq(Part) /\ log.handled <= Len(sent)
      /\ log \in [handled : Nat, missed : SUBSET Nat, oom : SUBSET Nat, cut : SUBSET Nat]
      /\ log.cut \subseteq 1..log.handled
  BY LogTypes
<1> QED
  BY <1>1, <1>2, TypesStep

\* Waiting between two requests, or closing.
LEMMA PauseStep ==
    ASSUME IInv, UNCHANGED <<sent, stream, arrived, eof, rd, unread, replies, log>>,
           c' \in Conn, loop' \in Loop, Alike(c, c'),
           c'.state \in Closing \/ (c.state \in Between /\ c'.state \in Between)
    PROVE  IInv'
<1>1. c.rbytes <= rd
  BY Known DEF IInv
<1>2. Types'
  BY <1>1, TypesConn DEF Alike
<1>3. Bounds'
  BY DEF IInv, Bounds, Alike
<1>4. Pos' = Pos /\ c'.noreply = c.noreply /\ c'.msg = c.msg
  BY DEF Pos, Alike
<1>5. Rest'
  BY <1>4, RestClosing, RestBetween
<1> QED
  BY <1>2, <1>3, <1>5 DEF IInv

LEMMA PauseSteps ==
    ASSUME IInv,
           conn_wait \/ asc_parse_eagain \/ conn_yield \/ core_close \/ conn_add_iov_assert
    PROVE  IInv'
<1>0. c \in Conn /\ loop \in Loop /\ Stopped \in Loop
  BY Known, StoppedLoop DEF IInv
<1>1. CASE conn_wait
  <2>1. StopFor(c, "EV_READ", "CONN_READ") /\ c.state = "CONN_WAIT"
        /\ UNCHANGED <<sent, stream, arrived, eof, rd, unread, replies, log>>
    BY <1>1 DEF conn_wait, In
  <2>2. "CONN_READ" \in State
    BY DEF State
  <2>3. /\ c' \in Conn /\ Alike(c, c') /\ c'.state \in {"CONN_READ", "CONN_CLOSE"}
        /\ loop' = Stopped \/ loop' = loop
    BY <1>0, <2>1, <2>2, StopForFacts
  <2>4. loop' \in Loop
    BY <1>0, <2>3
  <2>5. c'.state \in Closing \/ (c.state \in Between /\ c'.state \in Between)
    BY <2>1, <2>3 DEF Closing, Between
  <2> QED
    BY <2>1, <2>3, <2>4, <2>5, PauseStep
<1>2. CASE asc_parse_eagain
  <2>1. PICK st \in {"CONN_CLOSE", "CONN_WAIT"} :
           /\ c' = [c EXCEPT !.state = st] /\ loop' = loop /\ c.state = "CONN_PARSE"
           /\ UNCHANGED <<sent, stream, arrived, eof, rd, unread, replies, log>>
    BY <1>2 DEF asc_parse_eagain, GoOn, In
  <2>2. c' \in Conn /\ Alike(c, c') /\ c'.state = st
    <3>1. st \in State
      BY DEF State
    <3> QED
      BY <1>0, <2>1, <3>1, SetState
  <2>3. c'.state \in Closing \/ (c.state \in Between /\ c'.state \in Between)
    BY <2>1, <2>2 DEF Closing, Between
  <2> QED
    BY <1>0, <2>1, <2>2, <2>3, PauseStep
<1>3. CASE conn_yield
  <2>1. c.state = "CONN_NEW_CMD" /\ UNCHANGED <<sent, stream, arrived, eof, rd, unread, replies, log>>
    BY <1>3 DEF conn_yield, In
  <2>2. /\ c' \in Conn /\ Alike(c, c') /\ c'.state \in {"CONN_NEW_CMD", "CONN_CLOSE"}
        /\ loop' = Stopped
    <3>1. CASE Stop(c)
      BY <1>0, <2>1, <3>1 DEF Stop, Alike
    <3>2. CASE \E u \in core_update(c, "EV_WRITE") :
                  Stop(IF u.ok THEN u.conn ELSE [u.conn EXCEPT !.state = "CONN_CLOSE"])
      <4>1. PICK u \in core_update(c, "EV_WRITE") :
               Stop(IF u.ok THEN u.conn ELSE [u.conn EXCEPT !.state = "CONN_CLOSE"])
        BY <3>2
      <4>2. u.conn \in Conn /\ Alike(c, u.conn) /\ u.conn.state = c.state
        BY <1>0, UpdateFacts
      <4>3. loop' = Stopped /\ (c' = u.conn \/ c' = [u.conn EXCEPT !.state = "CONN_CLOSE"])
        BY <4>1 DEF Stop
      <4>4. CASE c' = [u.conn EXCEPT !.state = "CONN_CLOSE"]
        <5>1. "CONN_CLOSE" \in State
          BY DEF State
        <5>2. c' \in Conn /\ Alike(u.conn, c') /\ c'.state = "CONN_CLOSE"
          BY <4>2, <4>4, <5>1, SetState
        <5> QED
          BY <4>2, <4>3, <5>2, AlikeTransitive
      <4> QED
        BY <2>1, <4>2, <4>3, <4>4
    <3> QED
      BY <1>3, <3>1, <3>2 DEF conn_yield
  <2>3. c'.state \in Closing \/ (c.state \in Between /\ c'.state \in Between)
    BY <2>1, <2>2 DEF Closing, Between
  <2> QED
    BY <1>0, <2>1, <2>2, <2>3, PauseStep
<1>4. CASE core_close \/ conn_add_iov_assert
  <2>1. PICK st \in {"CLOSED", "ABORTED"} :
           /\ c' = [c EXCEPT !.state = st] /\ loop' = Stopped
           /\ UNCHANGED <<sent, stream, arrived, eof, rd, unread, replies, log>>
    BY <1>4 DEF core_close, conn_add_iov_assert, Stop
  <2>2. c' \in Conn /\ Alike(c, c') /\ c'.state = st
    <3>1. st \in State
      BY DEF State
    <3> QED
      BY <1>0, <2>1, <3>1, SetState
  <2>3. c'.state \in Closing
    BY <2>2 DEF Closing
  <2> QED
    BY <1>0, <2>1, <2>2, <2>3, PauseStep
<1> QED
  BY <1>1, <1>2, <1>3, <1>4

-----------------------------------------------------------------------------
(***************************************************************************)
(* New replies.                                                            *)
(***************************************************************************)

\* A request finds no message there, and leaves q to be written.
LEMMA SortedNew ==
    ASSUME IInv, Pending = << >>, c.state \notin Closing, UNCHANGED replies,
           NEW q \in Seq(Part), Pending' = q,
           NEW k \in Nat, \A i \in DOMAIN q : q[i].req \in {0, k}, InOrder(q),
           k # 0 => log.handled <= k /\ k \notin Due,
           log'.handled \in Nat, log.handled <= log'.handled, k <= log'.handled,
           c'.state \notin Closing => Due' = Due \cup Ended(q)
    PROVE  Sorted'
<1>1. replies \in Seq(Part) /\ log.handled \in Nat
  <2>1. log.handled \in 0..Len(sent) /\ Len(sent) \in Nat /\ replies \in Seq(Part)
    BY Known DEF IInv
  <2> QED
    BY <2>1
<1>2. Parts = replies
  BY <1>1 DEF Parts
<1>3. /\ \A i \in DOMAIN replies : replies[i].req <= log.handled
      /\ InOrder(replies) /\ Ended(replies) = Due
  BY <1>2 DEF IInv, Rest, Sorted
<1>4. Parts' = replies \o q
  BY DEF Parts
<1>5. /\ InOrder(replies \o q)
      /\ Ended(replies \o q) = Ended(replies) \cup Ended(q)
      /\ \A i \in DOMAIN (replies \o q) : (replies \o q)[i].req <= log'.handled
  BY <1>1, <1>3, Extend
<1>6. c'.state \notin Closing => Ended(Parts') = Due'
  BY <1>3, <1>4, <1>5
<1>7. InOrder(Parts') /\ \A i \in DOMAIN Parts' : Parts'[i].req <= log'.handled
  BY <1>4, <1>5
<1> QED
  BY <1>6, <1>7 DEF Sorted, InOrder, Before, Ended

\* y is x with the reply k, or none.
Written(x, k, y) ==
    /\ y \in Conn /\ y.noreply = FALSE
    /\ y.rsize = x.rsize /\ y.rcurr = x.rcurr /\ y.rbytes = x.rbytes
    /\ y.rlbytes = x.rlbytes /\ y.sbytes = x.sbytes
    /\ y.iov_used = x.iov_used /\ y.msg = x.msg
    /\ x.noreply => y.state = "CONN_NEW_CMD"
    /\ ~x.noreply => y.state = "CONN_WRITE" /\ y.wbuf = k /\ y.write_and_go = "CONN_NEW_CMD"

LEMMA AwsFacts ==
    ASSUME NEW x \in Conn, NEW k \in Nat
    PROVE  Written(x, k, asc_write_string(x, k))
<1>1. PICK y : y = asc_write_string(x, k)
  OBVIOUS
<1>2. x.noreply \in BOOLEAN
  BY ConnFacts
<1>3. CASE x.noreply
  <2>1. y = [x EXCEPT !.noreply = FALSE, !.state = "CONN_NEW_CMD"]
    BY <1>1, <1>3 DEF asc_write_string
  <2>2. /\ y \in Conn /\ y.noreply = FALSE /\ y.state = "CONN_NEW_CMD"
        /\ y.rsize = x.rsize /\ y.rcurr = x.rcurr /\ y.rbytes = x.rbytes
        /\ y.rlbytes = x.rlbytes /\ y.sbytes = x.sbytes
        /\ y.iov_used = x.iov_used /\ y.msg = x.msg
    BY <2>1 DEF Conn
  <2> QED
    BY <1>1, <1>3, <2>2 DEF Written
<1>4. CASE ~x.noreply
  <2>1. y = [x EXCEPT !.wbuf = k, !.state = "CONN_WRITE", !.write_and_go = "CONN_NEW_CMD"]
    BY <1>1, <1>4 DEF asc_write_string
  <2>2. /\ y \in Conn /\ y.noreply = x.noreply /\ y.state = "CONN_WRITE" /\ y.wbuf = k
        /\ y.write_and_go = "CONN_NEW_CMD"
        /\ y.rsize = x.rsize /\ y.rcurr = x.rcurr /\ y.rbytes = x.rbytes
        /\ y.rlbytes = x.rlbytes /\ y.sbytes = x.sbytes
        /\ y.iov_used = x.iov_used /\ y.msg = x.msg
    BY <2>1 DEF Conn
  <2>3. y.noreply = FALSE
    BY <1>2, <1>4, <2>2
  <2> QED
    BY <1>1, <1>4, <2>2, <2>3 DEF Written
<1> QED
  BY <1>2, <1>3, <1>4

-----------------------------------------------------------------------------
(***************************************************************************)
(* Reading.                                                                *)
(***************************************************************************)
LEMMA ReadSizeFacts ==
    ASSUME IInv, NEW size \in Nat
    PROVE  /\ ReadSize(size) \in Nat /\ ReadSize(size) <= size
           /\ rd + ReadSize(size) \in Nat /\ rd + ReadSize(size) <= arrived
<1>1. arrived \in Nat /\ rd \in Nat /\ rd <= arrived
  BY Known DEF IInv
<1> QED
  BY <1>1 DEF ReadSize, Avail, Least

LEMMA LoopFacts ==
    ASSUME NEW l \in Loop
    PROVE  /\ l.nreqs \in Nat /\ l.num_allocs \in 0..MAX_ALLOCS
           /\ [l EXCEPT !.num_allocs = 0, !.gotdata = FALSE] \in Loop
           /\ \A n \in 0..MAX_ALLOCS : [l EXCEPT !.gotdata = TRUE, !.num_allocs = n] \in Loop
           /\ \A n \in Nat : [l EXCEPT !.nreqs = n] \in Loop
<1>1. l.nreqs \in Nat /\ l.num_allocs \in 0..MAX_ALLOCS
  BY DEF Loop
<1>2. 0 \in 0..MAX_ALLOCS
  BY FramingAssumption
<1>3. ASSUME NEW y, y = [l EXCEPT !.num_allocs = 0, !.gotdata = FALSE]
      PROVE  y \in Loop
  BY <1>2, <1>3 DEF Loop
<1>4. ASSUME NEW n \in 0..MAX_ALLOCS, NEW y, y = [l EXCEPT !.gotdata = TRUE, !.num_allocs = n]
      PROVE  y \in Loop
  BY <1>4 DEF Loop
<1>5. ASSUME NEW n \in Nat, NEW y, y = [l EXCEPT !.nreqs = n]
      PROVE  y \in Loop
  BY <1>5 DEF Loop
<1> QED
  BY <1>1, <1>3, <1>4, <1>5

\* A read between two requests: what is read is buffered.
LEMMA ReadStep ==
    ASSUME IInv, UNCHANGED <<sent, stream, arrived, eof, unread, replies, log>>,
           NEW n \in Nat, rd' = rd + n, rd + n <= arrived,
           c' \in Conn, loop' \in Loop, c'.rbytes = c.rbytes + n, c'.rcurr = 0,
           c.rbytes + n <= c'.rsize, c'.noreply = c.noreply, c'.msg = c.msg,
           c.state \in Between, c'.state \in Between \cup {"CONN_CLOSE"}
    PROVE  IInv'
<1>1. c.rbytes \in Nat /\ rd \in Nat /\ c.rbytes <= rd /\ Len(sent) \in Nat
  BY Known DEF IInv
<1>2. /\ unread \in 0..SndBuf /\ replies \in Seq(Part) /\ log.handled <= Len(sent)
      /\ log \in [handled : Nat, missed : SUBSET Nat, oom : SUBSET Nat, cut : SUBSET Nat]
      /\ log.cut \subseteq 1..log.handled
  BY LogTypes
<1>3. rd' \in Nat /\ c'.rbytes <= rd' /\ rd' <= arrived
  BY <1>1
<1>4. Types'
  BY <1>2, <1>3, TypesStep
<1>5. Bounds'
  BY <1>1 DEF Bounds
<1>6. Pos' = Pos
  BY <1>1 DEF Pos
<1>7. c'.state \in Closing \/ c'.state \in Between
  BY DEF Closing
<1>8. Rest'
  BY <1>6, <1>7, RestClosing, RestBetween
<1> QED
  BY <1>4, <1>5, <1>8 DEF IInv

LEMMA ReadTcp ==
    ASSUME IInv, core_read_tcp
    PROVE  IInv'
<1> DEFINE grow == c.rbytes >= c.rsize
           size == (IF grow THEN 2 * c.rsize ELSE c.rsize) - c.rbytes
           n == ReadSize(size)
           x == [c EXCEPT !.rcurr = 0, !.rsize = size + c.rbytes, !.rbytes = c.rbytes + n]
<1>1. /\ c.state = "CONN_READ" /\ UNCHANGED <<sent, stream, arrived, eof, unread, replies, log>>
      /\ c.rbytes < c.rsize \/ loop.num_allocs < MAX_ALLOCS
      /\ rd' = rd + n
  BY DEF core_read_tcp, In
<1>2. \/ /\ c' = x
         /\ loop' = [loop EXCEPT !.gotdata = TRUE,
                                 !.num_allocs = IF grow THEN loop.num_allocs + 1 ELSE loop.num_allocs]
      \/ \E next \in {"CONN_PARSE", "CONN_WAIT", "CONN_CLOSE"} : ReadReturns(x, next)
  BY DEF core_read_tcp
<1>3. c \in Conn /\ loop \in Loop
  BY Known DEF IInv
<1>4. c.rbytes \in Nat /\ c.rsize \in Nat /\ c.rcurr \in Nat /\ c.rbytes <= c.rsize
  <2>1. c.rbytes \in Nat /\ c.rsize \in Nat /\ c.rcurr \in Nat
    BY <1>3, ConnFacts
  <2> QED
    BY <2>1 DEF IInv, Bounds
<1>5. size \in Nat /\ size + c.rbytes \in Nat
  BY <1>4
<1> HIDE DEF size
<1>6. n \in Nat /\ n <= size /\ rd + n <= arrived
  BY <1>5, ReadSizeFacts
<1> HIDE DEF n
<1>7. /\ x \in Conn /\ x.rcurr = 0 /\ x.rsize = size + c.rbytes /\ x.rbytes = c.rbytes + n
      /\ x.noreply = c.noreply /\ x.msg = c.msg /\ x.state = c.state
  <2>1. PICK a \in Nat, b \in Nat : a = size + c.rbytes /\ b = c.rbytes + n
    BY <1>4, <1>5, <1>6
  <2>2. ASSUME NEW y, y = [c EXCEPT !.rcurr = 0, !.rsize = a, !.rbytes = b]
        PROVE  /\ y \in Conn /\ y.rcurr = 0 /\ y.rsize = a /\ y.rbytes = b
               /\ y.noreply = c.noreply /\ y.msg = c.msg /\ y.state = c.state
    BY <1>3, <2>2 DEF Conn
  <2>3. x = [c EXCEPT !.rcurr = 0, !.rsize = a, !.rbytes = b]
    BY <2>1
  <2> HIDE DEF x
  <2> QED
    BY <2>1, <2>2, <2>3
<1> HIDE DEF x
<1>8. c.rbytes + n <= size + c.rbytes
  BY <1>4, <1>5, <1>6
<1>9. /\ c' \in Conn /\ c'.rcurr = 0 /\ c'.rsize = size + c.rbytes /\ c'.rbytes = c.rbytes + n
      /\ c'.noreply = c.noreply /\ c'.msg = c.msg
      /\ c'.state \in {"CONN_READ", "CONN_PARSE", "CONN_WAIT", "CONN_CLOSE"}
      /\ loop' \in Loop
  <2>1. CASE /\ c' = x
             /\ loop' = [loop EXCEPT !.gotdata = TRUE,
                                     !.num_allocs = IF grow THEN loop.num_allocs + 1
                                                    ELSE loop.num_allocs]
    <3>1. loop.num_allocs \in 0..MAX_ALLOCS /\ MAX_ALLOCS \in Nat
      BY <1>3, LoopFacts, FramingAssumption
    <3>2. PICK m \in 0..MAX_ALLOCS : m = IF grow THEN loop.num_allocs + 1 ELSE loop.num_allocs
      BY <1>1, <1>4, <3>1
    <3>3. loop' = [loop EXCEPT !.gotdata = TRUE, !.num_allocs = m]
      BY <2>1, <3>2
    <3>4. loop' \in Loop
      BY <1>3, <3>3, LoopFacts
    <3> QED
      BY <1>1, <1>7, <2>1, <3>4
  <2>2. ASSUME NEW next \in {"CONN_PARSE", "CONN_WAIT", "CONN_CLOSE"}, ReadReturns(x, next)
        PROVE  /\ c' \in Conn /\ Alike(x, c') /\ c'.state = next /\ loop' \in Loop
    <3>1. c' = [x EXCEPT !.state = next] /\ loop' = [loop EXCEPT !.num_allocs = 0, !.gotdata = FALSE]
      BY <2>2 DEF ReadReturns
    <3>2. next \in State
      BY DEF State
    <3> QED
      BY <1>3, <1>7, <3>1, <3>2, SetState, LoopFacts
  <2>3. CASE \E next \in {"CONN_PARSE", "CONN_WAIT", "CONN_CLOSE"} : ReadReturns(x, next)
    <3>1. /\ c' \in Conn /\ Alike(x, c') /\ loop' \in Loop
          /\ c'.state \in {"CONN_PARSE", "CONN_WAIT", "CONN_CLOSE"}
      BY <2>2, <2>3
    <3> QED
      BY <1>7, <3>1 DEF Alike
  <2> QED
    BY <1>2, <2>1, <2>3
<1>10. c.state \in Between /\ c'.state \in Between \cup {"CONN_CLOSE"}
  BY <1>1, <1>9 DEF Between
<1>11. c.rbytes + n <= c'.rsize
  BY <1>8, <1>9
<1> QED
  BY <1>1, <1>6, <1>9, <1>10, <1>11, ReadStep

LEMMA ReadLimit ==
    ASSUME IInv, core_read_limit
    PROVE  IInv'
<1>1. PICK next \in {"CONN_PARSE", "CONN_WAIT"} :
         /\ c.state = "CONN_READ"
         /\ UNCHANGED <<sent, stream, arrived, eof, rd, unread, replies, log>>
         /\ ReadReturns([c EXCEPT !.rcurr = 0], next)
  BY DEF core_read_limit, In
<1>2. c \in Conn /\ loop \in Loop
  BY Known DEF IInv
<1>3. c' = [[c EXCEPT !.rcurr = 0] EXCEPT !.state = next]
      /\ loop' = [loop EXCEPT !.num_allocs = 0, !.gotdata = FALSE]
  BY <1>1 DEF ReadReturns
<1>4. loop' \in Loop
  BY <1>2, <1>3, LoopFacts
<1>5. ASSUME NEW y, y = [c EXCEPT !.rcurr = 0]
      PROVE  /\ y \in Conn /\ y.rcurr = 0 /\ y.rsize = c.rsize /\ y.rbytes = c.rbytes
             /\ y.noreply = c.noreply /\ y.msg = c.msg
  BY <1>2, <1>5 DEF Conn
<1>6. PICK y : y = [c EXCEPT !.rcurr = 0]
  OBVIOUS
<1>7. next \in State
  BY DEF State
<1>8. c' \in Conn /\ Alike(y, c') /\ c'.state = next
  BY <1>3, <1>5, <1>6, <1>7, SetState
<1>9. /\ c'.rcurr = 0 /\ c'.rsize = c.rsize /\ c'.rbytes = c.rbytes
      /\ c'.noreply = c.noreply /\ c'.msg = c.msg
  BY <1>5, <1>6, <1>8 DEF Alike
<1>10. c.rbytes \in Nat /\ c.rsize \in Nat /\ c.rcurr \in Nat
  BY <1>2, ConnFacts
<1>11. rd \in Nat /\ rd <= arrived
  BY Known DEF IInv
<1>12. c.rbytes = c.rbytes + 0 /\ rd = rd + 0 /\ c.rbytes + 0 <= c.rsize /\ rd + 0 <= arrived /\ 0 \in Nat
  BY <1>10, <1>11 DEF IInv, Bounds
<1>13. c.state \in Between /\ c'.state \in Between \cup {"CONN_CLOSE"}
  BY <1>1, <1>8 DEF Between
<1> QED
  BY <1>1, <1>4, <1>8, <1>9, <1>12, <1>13, ReadStep

\* What is to be written once the thread has found no message.
LEMMA PendingAfter ==
    ASSUME c' \in Conn
    PROVE  /\ c'.state = "CONN_WRITE" => Pending' = IF c'.iov_used = 0 THEN Single(c'.wbuf) ELSE c'.msg
           /\ c'.state = "CONN_MWRITE" => Pending' = c'.msg
           /\ c'.state \notin {"CONN_WRITE", "CONN_MWRITE"} => Pending' = << >>
<1>1. conn_add_iov(c').msg = Single(c'.wbuf)
  BY AddIovFacts
<1>2. Message' = IF c'.state = "CONN_WRITE" /\ c'.iov_used = 0 THEN conn_add_iov(c') ELSE c'
  BY DEF Message, conn_add_iov
<1>3. Pending' = IF c'.state \in {"CONN_WRITE", "CONN_MWRITE"} THEN Message'.msg ELSE << >>
  BY DEF Pending
<1> QED
  BY <1>1, <1>2, <1>3

\* Out of memory: an error is written and the connection closed.
LEMMA ReadNomem ==
    ASSUME IInv, core_read_nomem
    PROVE  IInv'
<1>1. /\ c.state = "CONN_READ"
      /\ UNCHANGED <<sent, stream, arrived, eof, rd, unread, replies, log>>
      /\ LET x == asc_write_string([c EXCEPT !.rcurr = 0, !.rbytes = 0], 0)
         IN  ReadReturns([x EXCEPT !.write_and_go = "CONN_CLOSE"], x.state)
  BY DEF core_read_nomem, In
<1>2. c \in Conn /\ loop \in Loop /\ rd \in Nat
  BY Known DEF IInv
<1>3. ~c.noreply /\ c.msg = << >>
  BY <1>1 DEF IInv, Rest, Flags, Closing
<1>4. PICK x0 : x0 = [c EXCEPT !.rcurr = 0, !.rbytes = 0]
  OBVIOUS
<1>5. /\ x0 \in Conn /\ x0.rcurr = 0 /\ x0.rbytes = 0 /\ x0.rsize = c.rsize
      /\ x0.noreply = c.noreply /\ x0.msg = c.msg
  BY <1>2, <1>4 DEF Conn
<1>6. PICK x : x = asc_write_string(x0, 0)
  OBVIOUS
<1>7. /\ x \in Conn /\ x.noreply = FALSE /\ x.rsize = c.rsize /\ x.rcurr = 0 /\ x.rbytes = 0
      /\ x.msg = << >> /\ x.state = "CONN_WRITE" /\ x.wbuf = 0
  <2>1. 0 \in Nat /\ ~x0.noreply
    BY <1>3, <1>5
  <2>2. /\ x \in Conn /\ x.noreply = FALSE
        /\ x.rsize = x0.rsize /\ x.rcurr = x0.rcurr /\ x.rbytes = x0.rbytes /\ x.msg = x0.msg
        /\ x.state = "CONN_WRITE" /\ x.wbuf = 0
    <3>1. Written(x0, 0, x)
      BY <1>5, <1>6, <2>1, AwsFacts
    <3> QED
      BY <2>1, <3>1 DEF Written
  <2> QED
    BY <1>3, <1>5, <2>2
<1>8. ReadReturns([x EXCEPT !.write_and_go = "CONN_CLOSE"], "CONN_WRITE")
  BY <1>1, <1>4, <1>6, <1>7
<1>9. PICK y : y = [x EXCEPT !.write_and_go = "CONN_CLOSE"]
  OBVIOUS
<1>10. /\ y \in Conn /\ y.write_and_go = "CONN_CLOSE" /\ y.noreply = FALSE /\ y.rsize = c.rsize
       /\ y.rcurr = 0 /\ y.rbytes = 0 /\ y.msg = << >> /\ y.wbuf = 0
  BY <1>7, <1>9 DEF Conn
<1>11. c' = [y EXCEPT !.state = "CONN_WRITE"]
       /\ loop' = [loop EXCEPT !.num_allocs = 0, !.gotdata = FALSE]
  BY <1>8, <1>9 DEF ReadReturns
<1>12. /\ c' \in Conn /\ c'.state = "CONN_WRITE" /\ c'.write_and_go = "CONN_CLOSE"
       /\ c'.noreply = FALSE /\ c'.rsize = c.rsize /\ c'.rcurr = 0 /\ c'.rbytes = 0
       /\ c'.msg = << >> /\ c'.wbuf = 0
  <2>1. "CONN_WRITE" \in State
    BY DEF State
  <2> QED
    BY <1>10, <1>11, <2>1, SetState DEF Alike
<1>13. loop' \in Loop
  BY <1>2, <1>11, LoopFacts
<1>14. Types'
  BY <1>1, <1>2, <1>12, <1>13, TypesConn
<1>15. Bounds'
  <2>1. c.rsize \in Nat
    BY <1>2, ConnFacts
  <2> QED
    BY <1>12, <2>1 DEF Bounds
<1>16. Place' /\ InSync' /\ Flags'
  <2>1. Place'
    BY <1>12 DEF Place, AtRequest, AtBlock, Between
  <2>2. InSync'
    BY <1>1 DEF InSync, IInv, Rest
  <2>3. Flags'
    BY <1>12 DEF Flags
  <2> QED
    BY <2>1, <2>2, <2>3
<1>17. Sorted'
  <2>1. PICK q : q = IF c'.iov_used = 0 THEN Single(0) ELSE << >>
    OBVIOUS
  <2>2. 0 \in Nat /\ << >> \in Seq(Part) /\ DOMAIN << >> = {}
    OBVIOUS
  <2>3. /\ q \in Seq(Part) /\ InOrder(q) /\ \A i \in DOMAIN q : q[i].req \in {0, 0}
        /\ Ended(q) = {}
    <3>1. CASE q = Single(0)
      BY <2>2, <3>1, SingleFacts
    <3>2. CASE q = << >>
      BY <2>2, <3>2 DEF InOrder, Ended
    <3> QED
      BY <2>1, <3>1, <3>2
  <2>4. Pending' = q
    BY <1>12, <2>1, PendingAfter
  <2>5. Pending = << >>
    BY <1>1 DEF Pending
  <2>6. Due' = Due
    BY <1>1, <1>12 DEF Due, Owed
  <2>7. log.handled \in Nat /\ log.handled <= log'.handled /\ 0 <= log'.handled /\ log'.handled \in Nat
    <3>1. log.handled \in 0..Len(sent) /\ Len(sent) \in Nat
      BY Known DEF IInv
    <3> QED
      BY <1>1, <3>1
  <2>8. c.state \notin Closing /\ Due' = Due \cup Ended(q)
    BY <1>1, <2>3, <2>6 DEF Closing
  <2> QED
    BY <1>1, <2>2, <2>3, <2>4, <2>5, <2>7, <2>8, SortedNew
<1> QED
  BY <1>14, <1>15, <1>16, <1>17 DEF IInv, Rest

\* The next request; what is buffered fits the buffer, shrunk or not.
LEMMA NewCmd ==
    ASSUME IInv, conn_new_cmd
    PROVE  IInv'
<1>1. /\ c.state = "CONN_NEW_CMD" /\ loop.nreqs > 0 /\ c' = core_reset_cmd_handler(c)
      /\ loop' = [loop EXCEPT !.nreqs = loop.nreqs - 1]
      /\ UNCHANGED <<sent, stream, arrived, eof, rd, unread, replies, log>>
  BY DEF conn_new_cmd, In
<1>2. c \in Conn /\ loop \in Loop /\ rd \in Nat /\ c.rbytes <= rd
  BY Known DEF IInv
<1>3. c.rbytes \in Nat /\ c.rsize \in Nat /\ c.rcurr \in Nat
  BY <1>2, ConnFacts
<1>4. TCP_BUFFER_SIZE \in Nat
  BY FramingAssumption
<1>5. PICK x : x = conn_shrink(c)
  OBVIOUS
<1>6. /\ x \in Conn /\ x.rbytes = c.rbytes /\ x.noreply = c.noreply /\ x.msg = c.msg
      /\ x.rcurr + x.rbytes <= x.rsize
  <2>1. CASE c.rsize > RSIZE_HIGHWAT /\ c.rbytes < TCP_BUFFER_SIZE
    <3>1. x = [c EXCEPT !.rsize = TCP_BUFFER_SIZE, !.rcurr = 0]
      BY <1>5, <2>1 DEF conn_shrink
    <3>2. /\ x \in Conn /\ x.rbytes = c.rbytes /\ x.noreply = c.noreply /\ x.msg = c.msg
          /\ x.rcurr = 0 /\ x.rsize = TCP_BUFFER_SIZE
      BY <1>2, <1>4, <3>1 DEF Conn
    <3> QED
      BY <1>3, <1>4, <2>1, <3>2
  <2>2. CASE ~(c.rsize > RSIZE_HIGHWAT /\ c.rbytes < TCP_BUFFER_SIZE)
    <3>1. x = c
      BY <1>5, <2>2 DEF conn_shrink
    <3> QED
      BY <1>2, <3>1 DEF IInv, Bounds
  <2> QED
    BY <2>1, <2>2
<1>7. PICK st \in {"CONN_PARSE", "CONN_WAIT"} : c' = [x EXCEPT !.state = st]
  BY <1>1, <1>5 DEF core_reset_cmd_handler
<1>8. c' \in Conn /\ Alike(x, c') /\ c'.state = st
  <2>1. st \in State
    BY DEF State
  <2> QED
    BY <1>6, <1>7, <2>1, SetState
<1>9. loop' \in Loop
  <2>0. loop.nreqs \in Nat
    BY <1>2, LoopFacts
  <2>1. loop.nreqs - 1 \in Nat
    BY <1>1, <2>0
  <2> QED
    BY <1>1, <1>2, <2>1, LoopFacts
<1>10. Types'
  BY <1>1, <1>2, <1>6, <1>8, <1>9, TypesConn DEF Alike
<1>11. Bounds'
  BY <1>6, <1>8 DEF Bounds, Alike
<1>12. c.state \in Between /\ c'.state \in Between
  BY <1>1, <1>8 DEF Between
<1>13. Pos' = Pos /\ c'.noreply = c.noreply /\ c'.msg = c.msg
  BY <1>1, <1>6, <1>8 DEF Pos, Alike
<1>14. Rest'
  BY <1>1, <1>12, <1>13, RestBetween
<1> QED
  BY <1>10, <1>11, <1>14 DEF IInv

-----------------------------------------------------------------------------
(***************************************************************************)
(* Parsing.                                                                *)
(***************************************************************************)
LEMMA FirstIs ==
    ASSUME NEW m \in Newlines, Newlines \subseteq Int, \A j \in Newlines : m <= j
    PROVE  FirstNewline = m
<1>1. FirstNewline \in Newlines /\ \A j \in Newlines : FirstNewline <= j
  BY DEF FirstNewline
<1>2. FirstNewline <= m /\ m <= FirstNewline /\ FirstNewline \in Int /\ m \in Int
  BY <1>1
<1> HIDE DEF Newlines
<1> QED
  BY <1>2

\* The unit of request k that is at the i-th place after the requests before it.
LEMMA UnitFacts ==
    ASSUME Types, NEW k \in 1..Len(sent), NEW i \in 1..Size(sent[k])
    PROVE  /\ stream[End(sent, k - 1) + i].req = k
           /\ stream[End(sent, k - 1) + i].first <=> i = 1
           /\ stream[End(sent, k - 1) + i].nl <=> i = sent[k].line \/ i = Size(sent[k])
<1>1. sent \in Seq(RequestLine) /\ Len(sent) \in Nat /\ stream = Stream(sent)
  BY Known DEF Types
<1>2. k - 1 \in 0..(Len(sent) - 1) /\ (k - 1) + 1 = k
  BY <1>1
<1>3. i \in 1..Size(sent[(k - 1) + 1])
  BY <1>2
<1>4. stream[End(sent, k - 1) + i] = Unit((k - 1) + 1, sent[(k - 1) + 1], i)
  BY <1>1, <1>2, <1>3, StreamFacts
<1>5. stream[End(sent, k - 1) + i] = Unit(k, sent[k], i)
  BY <1>2, <1>4
<1>6. PICK u : u = Unit(k, sent[k], i)
  OBVIOUS
<1>7. u.req = k /\ u.first = (i = 1) /\ u.nl = (i \in {sent[k].line, sent[k].line + sent[k].data})
  BY <1>6 DEF Unit
<1> QED
  BY <1>5, <1>6, <1>7 DEF Size

\* Where a request's line and data are.
LEMMA Extent ==
    ASSUME Types, NEW k \in 1..Len(sent)
    PROVE  /\ sent[k] \in RequestLine
           /\ sent[k].line \in Nat /\ sent[k].line > 0 /\ sent[k].data \in Nat
           /\ Size(sent[k]) = sent[k].line + sent[k].data
           /\ End(sent, k - 1) \in Nat /\ End(sent, k) \in Nat
           /\ End(sent, k) = End(sent, k - 1) + (sent[k].line + sent[k].data)
<1>1. sent \in Seq(RequestLine) /\ Len(sent) \in Nat
  BY Known
<1>2. /\ k - 1 \in 0..(Len(sent) - 1) /\ (k - 1) + 1 = k
      /\ k - 1 \in 0..Len(sent) /\ k \in 0..Len(sent)
  BY <1>1
<1>3. sent[k] \in RequestLine
  BY <1>1
<1>4. End(sent, (k - 1) + 1) = End(sent, k - 1) + Size(sent[(k - 1) + 1])
  BY <1>1, <1>2, EndFacts
<1>5. End(sent, k) = End(sent, k - 1) + Size(sent[k])
  BY <1>2, <1>4
<1>6. End(sent, k - 1) \in Nat /\ End(sent, k) \in Nat
  BY <1>1, <1>2, EndFacts
<1>7. sent[k].line \in Nat /\ sent[k].line > 0 /\ sent[k].data \in Nat
  BY <1>3, RequestFacts
<1> QED
  BY <1>3, <1>5, <1>6, <1>7 DEF Size

\* At the parser is the line of the next request, or the data of the last one
\* if that is excused.
AtNext ==
    /\ log.handled < Len(sent)
    /\ stream[Curr].first /\ stream[Curr].req = log.handled + 1
    /\ FirstNewline = End(sent, log.handled) + sent[log.handled + 1].line
AtData ==
    /\ log.handled > 0
    /\ ~stream[Curr].first /\ stream[Curr].req = log.handled
    /\ FirstNewline = End(sent, log.handled) /\ Excuse(log.handled)

LEMMA ParseNext ==
    ASSUME IInv, Newlines # {}, Pos = End(sent, log.handled)
    PROVE  FirstNewline \in Curr..rd /\ AtNext
<1> DEFINE h == log.handled
           k == log.handled + 1
<1>0. Types
  BY DEF IInv
<1>1. /\ h \in Nat /\ h <= Len(sent) /\ Len(sent) \in Nat /\ rd \in Nat /\ rd <= Len(stream)
      /\ c.rbytes \in Nat /\ c.rbytes <= rd /\ Pos \in Nat
      /\ Len(stream) = End(sent, Len(sent)) /\ Len(stream) \in Nat
  BY <1>0, Known
<1>2. Curr = Pos + 1 /\ Curr \in Nat
  BY <1>1 DEF Curr, Pos
<1>3. PICK m \in Newlines : TRUE
  OBVIOUS
<1>4. m \in Curr..rd
  BY <1>3 DEF Newlines
<1>5. h < Len(sent)
  BY <1>1, <1>2, <1>4
<1>6. k \in 1..Len(sent) /\ k - 1 = h
  BY <1>1, <1>5
<1> HIDE DEF k
<1>7. /\ sent[k].line \in Nat /\ sent[k].line > 0 /\ sent[k].data \in Nat
      /\ Size(sent[k]) = sent[k].line + sent[k].data
  BY <1>0, <1>6, Extent
<1> DEFINE e == End(sent, h)
<1>8. e \in Nat /\ e = Pos
  BY <1>1
<1>9. ASSUME NEW i \in 1..Size(sent[k])
      PROVE  /\ stream[e + i].req = k
             /\ stream[e + i].first <=> i = 1
             /\ stream[e + i].nl <=> i = sent[k].line \/ i = Size(sent[k])
  BY <1>0, <1>6, UnitFacts
<1> HIDE DEF e, h
<1>10. 1 \in 1..Size(sent[k]) /\ sent[k].line \in 1..Size(sent[k])
  BY <1>7
<1>11. stream[Curr].first /\ stream[Curr].req = k
  BY <1>2, <1>8, <1>9, <1>10
<1>12. ASSUME NEW j \in Newlines
       PROVE  e + sent[k].line <= j
  <2>1. j \in Curr..rd /\ stream[j].nl
    BY DEF Newlines
  <2> SUFFICES ASSUME ~(e + sent[k].line <= j)
               PROVE  FALSE
    OBVIOUS
  <2>2. /\ j - e \in 1..Size(sent[k]) /\ e + (j - e) = j
        /\ j - e # sent[k].line /\ j - e # Size(sent[k])
    <3>1. PICK l \in Nat, d \in Nat : l = sent[k].line /\ d = sent[k].data /\ Size(sent[k]) = l + d
      BY <1>7
    <3>2. j \in Int /\ e + 1 <= j /\ ~(e + l <= j)
      BY <1>1, <1>2, <1>8, <2>1, <3>1
    <3>3. j - e \in 1..(l + d) /\ e + (j - e) = j /\ j - e # l /\ j - e # l + d
      BY <1>8, <3>2
    <3> QED
      BY <3>1, <3>3
  <2> QED
    BY <1>9, <2>1, <2>2
<1>13. e + sent[k].line \in Curr..rd
  <2>1. e + sent[k].line <= m
    BY <1>12
  <2> QED
    BY <1>1, <1>2, <1>4, <1>7, <1>8, <2>1
<1>14. e + sent[k].line \in Newlines
  BY <1>9, <1>10, <1>13 DEF Newlines
<1>15. Newlines \subseteq Int
  BY <1>1, <1>2 DEF Newlines
<1>16. FirstNewline = e + sent[k].line
  BY <1>12, <1>14, <1>15, FirstIs
<1> QED
  BY <1>5, <1>11, <1>13, <1>16 DEF AtNext, e, h, k

LEMMA ParseData ==
    ASSUME IInv, Newlines # {}, Pos # End(sent, log.handled), Synced
    PROVE  FirstNewline \in Curr..rd /\ AtData
<1> DEFINE k == log.handled
<1>0. Types
  BY DEF IInv
<1>1. /\ k \in Nat /\ k <= Len(sent) /\ Len(sent) \in Nat /\ rd \in Nat /\ rd <= Len(stream)
      /\ c.rbytes \in Nat /\ c.rbytes <= rd /\ Pos \in Nat
  BY <1>0, Known
<1>2. Curr = Pos + 1 /\ Curr \in Nat
  BY <1>1 DEF Curr, Pos
<1>3. PICK m \in Newlines : TRUE
  OBVIOUS
<1>4. m \in Curr..rd
  BY <1>3 DEF Newlines
<1>5. k > 0 /\ Pos = End(sent, k) - sent[k].data /\ Excuse(k)
  BY DEF Synced
<1>6. k \in 1..Len(sent)
  BY <1>1, <1>5
<1> DEFINE e == End(sent, k - 1)
           n == Size(sent[k])
<1>7. /\ sent[k].line \in Nat /\ sent[k].line > 0 /\ sent[k].data \in Nat
      /\ n = sent[k].line + sent[k].data
      /\ e \in Nat /\ End(sent, k) \in Nat
      /\ End(sent, k) = e + (sent[k].line + sent[k].data)
  BY <1>0, <1>6, Extent
<1>8. ASSUME NEW i \in 1..n
      PROVE  /\ stream[e + i].req = k
             /\ stream[e + i].first <=> i = 1
             /\ stream[e + i].nl <=> i = sent[k].line \/ i = n
  BY <1>0, <1>6, UnitFacts
<1>9. Pos # End(sent, k)
  OBVIOUS
<1> HIDE DEF e, n, k
<1>10. /\ sent[k].data > 0 /\ Pos = e + sent[k].line /\ e + n = End(sent, k)
       /\ Curr = e + (sent[k].line + 1)
       /\ sent[k].line + 1 \in 1..n /\ n \in 1..n
       /\ sent[k].line + 1 # 1
  BY <1>2, <1>5, <1>7, <1>9
<1>11. ~stream[Curr].first /\ stream[Curr].req = k
  BY <1>8, <1>10
<1>12. ASSUME NEW j \in Newlines
       PROVE  e + n <= j
  <2>1. j \in Curr..rd /\ stream[j].nl
    BY DEF Newlines
  <2> SUFFICES ASSUME ~(e + n <= j)
               PROVE  FALSE
    OBVIOUS
  <2>2. j - e \in 1..n /\ e + (j - e) = j /\ j - e # sent[k].line /\ j - e # n
    <3>1. PICK l \in Nat, d \in Nat : l = sent[k].line /\ d = sent[k].data /\ n = l + d
      BY <1>7
    <3>2. j \in Int /\ e + (l + 1) <= j /\ ~(e + (l + d) <= j)
      BY <1>1, <1>2, <1>10, <2>1, <3>1
    <3>3. j - e \in 1..(l + d) /\ e + (j - e) = j /\ j - e # l /\ j - e # l + d
      BY <1>7, <3>2
    <3> QED
      BY <3>1, <3>3
  <2> QED
    BY <1>8, <2>1, <2>2
<1>13. e + n \in Curr..rd
  <2>1. e + n <= m
    BY <1>12
  <2>2. n \in Nat /\ sent[k].line + 1 <= n
    BY <1>7, <1>10
  <2>3. PICK l \in Nat : l = sent[k].line
    BY <1>7
  <2>4. Curr = e + (l + 1) /\ l + 1 <= n /\ m \in Int /\ m <= rd
    BY <1>1, <1>2, <1>4, <1>10, <2>2, <2>3
  <2> QED
    BY <1>1, <1>7, <2>1, <2>2, <2>4
<1>14. e + n \in Newlines
  BY <1>8, <1>10, <1>13 DEF Newlines
<1>15. Newlines \subseteq Int
  BY <1>1, <1>2 DEF Newlines
<1>16. FirstNewline = e + n
  BY <1>12, <1>14, <1>15, FirstIs
<1> QED
  BY <1>5, <1>10, <1>11, <1>13, <1>16 DEF AtData, k

LEMMA Parse ==
    ASSUME IInv, In("CONN_PARSE"), Newlines # {}
    PROVE  /\ FirstNewline \in Curr..rd /\ (AtNext \/ AtData)
           /\ c.state = "CONN_PARSE" /\ Pending = << >> /\ Synced
<1>1. c.state = "CONN_PARSE"
  BY DEF In
<1>2. Synced
  BY <1>1 DEF IInv, Rest, Place, AtRequest, Between
<1>3. Pending = << >>
  BY <1>1 DEF Pending
<1> QED
  BY <1>1, <1>2, <1>3, ParseNext, ParseData

LEMMA DispatchedFacts ==
    ASSUME IInv, In("CONN_PARSE"), Newlines # {}
    PROVE  /\ Dispatched \in Conn /\ Dispatched.rbytes = rd - FirstNewline
           /\ Dispatched.rcurr + Dispatched.rbytes <= Dispatched.rsize
           /\ Dispatched.rbytes <= rd
           /\ Dispatched.noreply = FALSE /\ Dispatched.iov_used = 0 /\ Dispatched.msg = << >>
<1>1. FirstNewline \in Curr..rd /\ c.state = "CONN_PARSE"
  BY Parse
<1>2. c \in Conn /\ rd \in Nat /\ c.rbytes <= rd
  BY Known DEF IInv
<1>3. c.rbytes \in Nat /\ c.rcurr \in Nat /\ c.rsize \in Nat /\ c.noreply \in BOOLEAN
  BY <1>2, ConnFacts
<1>4. c.rcurr + c.rbytes <= c.rsize
  BY DEF IInv, Bounds
<1>5. PICK n : n = FirstNewline - Curr + 1
  OBVIOUS
<1>6. PICK f : f = FirstNewline
  OBVIOUS
<1>7. f \in Nat /\ n \in Nat /\ c.rbytes - n = rd - f /\ c.rbytes - n \in Nat /\ c.rcurr + n \in Nat
      /\ rd - f <= rd /\ (c.rcurr + n) + (rd - f) <= c.rsize
  <2>1. f \in Curr..rd /\ n = f - Curr + 1 /\ Curr = rd - c.rbytes + 1
    BY <1>1, <1>5, <1>6 DEF Curr
  <2> QED
    BY <1>2, <1>3, <1>4, <2>1
<1>8. PICK a \in Nat, b \in Nat : a = c.rcurr + n /\ b = c.rbytes - n
  BY <1>7
<1>9. PICK x : x = [c EXCEPT !.rcurr = a, !.rbytes = b]
  OBVIOUS
<1>10. x = Consume(c, n)
  BY <1>8, <1>9 DEF Consume
<1>11. x \in Conn /\ x.rcurr = a /\ x.rbytes = b /\ x.rsize = c.rsize /\ x.noreply = c.noreply
  BY <1>2, <1>9 DEF Conn
<1>12. PICK y : y = [x EXCEPT !.msg_used = 1, !.iov_used = 0, !.msg = << >>]
  OBVIOUS
<1>13. y = Dispatched
  BY <1>5, <1>10, <1>12 DEF Dispatched
<1>14. << >> \in Seq(Part)
  OBVIOUS
<1>15. /\ y \in Conn /\ y.rcurr = a /\ y.rbytes = b /\ y.rsize = c.rsize /\ y.noreply = c.noreply
       /\ y.iov_used = 0 /\ y.msg = << >>
  BY <1>11, <1>12, <1>14 DEF Conn
<1>16. c.noreply = FALSE
  BY <1>1, <1>3 DEF IInv, Rest, Flags, Closing
<1>17. b = rd - f /\ b <= rd /\ a + b <= c.rsize
  BY <1>7, <1>8
<1> QED
  BY <1>6, <1>13, <1>15, <1>16, <1>17

LEMMA AtLineFacts ==
    ASSUME IInv, NEW k \in DOMAIN sent, NEW types, AtLine(k, types)
    PROVE  /\ In("CONN_PARSE") /\ Newlines # {} /\ c.state = "CONN_PARSE" /\ Pending = << >>
           /\ k = log.handled + 1 /\ k \in 1..Len(sent) /\ k \in Nat /\ log.handled \in Nat
           /\ sent[k] \in RequestLine /\ sent[k].type \in types
           /\ rd - Dispatched.rbytes = End(sent, k) - sent[k].data
           /\ k \notin log.cut /\ k \notin Due
<1>1. In("CONN_PARSE") /\ Newlines # {} /\ stream[Curr].first /\ k = stream[Curr].req
      /\ sent[k].type \in types
  BY DEF AtLine
<1>2. FirstNewline \in Curr..rd /\ AtNext /\ c.state = "CONN_PARSE" /\ Pending = << >>
  BY <1>1, Parse DEF AtData
<1>3. k = log.handled + 1 /\ FirstNewline = End(sent, log.handled) + sent[k].line
  BY <1>1, <1>2 DEF AtNext
<1>4. Types /\ sent \in Seq(RequestLine) /\ Len(sent) \in Nat /\ rd \in Nat
      /\ log.handled \in 0..Len(sent)
  BY Known DEF IInv
<1>5. k \in 1..Len(sent) /\ k \in Nat /\ log.handled \in Nat /\ k - 1 = log.handled
  BY <1>3, <1>4
<1>6. /\ sent[k].line \in Nat /\ sent[k].data \in Nat /\ End(sent, log.handled) \in Nat
      /\ End(sent, k) = End(sent, log.handled) + (sent[k].line + sent[k].data)
      /\ sent[k] \in RequestLine
  BY <1>4, <1>5, Extent
<1>7. rd - Dispatched.rbytes = FirstNewline
  <2>1. Dispatched.rbytes = rd - FirstNewline
    BY <1>1, DispatchedFacts
  <2> QED
    BY <1>3, <1>4, <1>6, <2>1
<1>8. rd - Dispatched.rbytes = End(sent, k) - sent[k].data
  BY <1>3, <1>6, <1>7
<1>9. k \notin 1..log.handled
  BY <1>3, <1>5
<1>10. k \notin log.cut /\ k \notin Due
  BY <1>4, <1>9 DEF Types, Due
<1> QED
  BY <1>1, <1>2, <1>3, <1>5, <1>6, <1>8, <1>10

Log == [handled : Nat, missed : SUBSET Nat, oom : SUBSET Nat, cut : SUBSET Nat]

\* Request k is handled: q is its reply, its line is used, and its data is next.
LEMMA Dispatch ==
    ASSUME IInv, NEW k \in DOMAIN sent, NEW types, AtLine(k, types),
           UNCHANGED <<sent, stream, arrived, eof, rd, unread, replies, loop>>,
           c' \in Conn, c'.rbytes = Dispatched.rbytes, c'.rcurr = Dispatched.rcurr,
           c'.rsize = Dispatched.rsize,
           NEW oom \in SUBSET {k}, NEW cut \in SUBSET {k}, log' \in Log, log'.handled = k,
           log'.missed = log.missed, log'.oom = log.oom \cup oom, log'.cut = log.cut \cup cut,
           AtRequest' => sent[k].data = 0 \/ ~sent[k].good \/ (k \in oom /\ sent[k].noreply),
           AtBlock' => c'.sbytes = sent[k].data,
           c'.state = "CONN_NREAD" => c'.rlbytes = sent[k].data,
           Flags',
           NEW q \in Seq(Part), Pending' = q, InOrder(q),
           \A i \in DOMAIN q : q[i].req = k,
           c'.state \notin Closing =>
               (k \in Ended(q) <=> ~sent[k].noreply /\ k \notin cut /\ c'.state # "CONN_NREAD")
    PROVE  IInv'
<1>1. /\ In("CONN_PARSE") /\ Newlines # {} /\ c.state = "CONN_PARSE" /\ Pending = << >>
      /\ k = log.handled + 1 /\ k \in 1..Len(sent) /\ k \in Nat /\ log.handled \in Nat
      /\ sent[k] \in RequestLine
      /\ rd - Dispatched.rbytes = End(sent, k) - sent[k].data
      /\ k \notin log.cut /\ k \notin Due
  BY AtLineFacts
<1>2. Dispatched.rbytes <= rd /\ Dispatched.rcurr + Dispatched.rbytes <= Dispatched.rsize
  BY <1>1, DispatchedFacts
<1>3. Types'
  <2>1. /\ Types /\ rd \in Nat /\ rd <= arrived /\ Len(sent) \in Nat /\ loop \in Loop
        /\ unread \in 0..SndBuf /\ replies \in Seq(Part) /\ log.cut \subseteq 1..log.handled
    BY Known DEF IInv, Types, TypeOK
  <2>2. log'.handled <= Len(sent)
    BY <1>1, <2>1
  <2>3. \A j \in 1..log.handled : j \in 1..k
    BY <1>1
  <2>4. k \in 1..k
    BY <1>1
  <2>5. log'.cut \subseteq 1..log'.handled
    BY <2>1, <2>3, <2>4
  <2> QED
    BY <1>2, <2>1, <2>2, <2>5, TypesStep DEF Log
<1>4. Bounds'
  BY <1>2 DEF Bounds
<1>5. Place'
  <2>1. Pos' = End(sent, k) - sent[k].data /\ sent[k].data \in Nat /\ End(sent, k) \in Nat
    <3>1. Types
      BY DEF IInv
    <3> QED
      BY <1>1, <3>1, Extent DEF Pos
  <2>2. AtRequest' => Synced'
    <3>1. CASE sent[k].data = 0
      BY <2>1, <3>1 DEF Synced
    <3>2. CASE ~sent[k].good \/ (k \in oom /\ sent[k].noreply)
      <4>1. k > 0
        BY <1>1
      <4> QED
        BY <2>1, <3>2, <4>1 DEF Synced, Excuse
    <3> QED
      BY <3>1, <3>2
  <2>3. AtBlock' => Pos' + c'.sbytes = End(sent, k)
    BY <2>1
  <2>4. c'.state = "CONN_NREAD" => k > 0 /\ Pos' + c'.rlbytes = End(sent, k)
    BY <1>1, <2>1
  <2> QED
    BY <2>2, <2>3, <2>4 DEF Place
<1>6. InSync'
  BY DEF InSync, IInv, Rest
<1>7. Sorted'
  <2>1. /\ k # 0 => log.handled <= k /\ k \notin Due
        /\ log'.handled \in Nat /\ log.handled <= log'.handled /\ k <= log'.handled
    BY <1>1
  <2>2. Ended(q) \subseteq {k}
    <3>1. \A x \in Ended(q) : \E i \in DOMAIN q : q[i].req = x
      BY DEF Ended
    <3> QED
      BY <3>1
  <2>3. ASSUME c'.state \notin Closing
        PROVE  Due' = Due \cup Ended(q)
    <3>1. \A j : j \in 1..k <=> j \in 1..log.handled \/ j = k
      BY <1>1
    <3>2. \A j : j \in Due <=> j \in 1..log.handled /\ ~sent[j].noreply /\ j \notin log.cut
      BY <1>1 DEF Due, Owed
    <3>3. \A j : j \in Due' <=> /\ j \in 1..k /\ ~sent[j].noreply /\ j \notin log.cut \cup cut
                                /\ c'.state = "CONN_NREAD" => j # k
      BY DEF Due, Owed
    <3>4. k \notin 1..log.handled
      BY <1>1
    <3>5. ASSUME NEW j, j # k
          PROVE  j \in Due' <=> j \in Due
      BY <3>1, <3>2, <3>3, <3>5
    <3>6. k \in Due' <=> ~sent[k].noreply /\ k \notin cut /\ c'.state # "CONN_NREAD"
      BY <1>1, <3>1, <3>3
    <3>7. k \in Due' <=> k \in Ended(q)
      BY <2>3, <3>6
    <3> QED
      BY <1>1, <2>2, <3>5, <3>7
  <2>4. c.state \notin Closing
    BY <1>1 DEF Closing
  <2>5. \A i \in DOMAIN q : q[i].req \in {0, k}
    OBVIOUS
  <2> QED
    BY <1>1, <2>1, <2>3, <2>4, <2>5, SortedNew
<1> QED
  BY <1>3, <1>4, <1>5, <1>6, <1>7 DEF IInv, Rest

LEMMA LogFacts ==
    ASSUME IInv, NEW k \in Nat
    PROVE  /\ log \in Log
           /\ Handled(k) \in Log /\ Handled(k).handled = k /\ Handled(k).missed = log.missed
           /\ Handled(k).oom = log.oom /\ Handled(k).cut = log.cut
<1>1. log \in Log
  BY DEF IInv, Types, Log
<1>2. PICK l : l = Handled(k)
  OBVIOUS
<1>3. l = [log EXCEPT !.handled = k]
  BY <1>2 DEF Handled
<1>4. /\ l \in Log /\ l.handled = k /\ l.missed = log.missed /\ l.oom = log.oom
      /\ l.cut = log.cut
  BY <1>1, <1>3 DEF Log
<1> QED
  BY <1>1, <1>2, <1>4

\* Request k is answered with a string, or not at all.
LEMMA DispatchString ==
    ASSUME IInv, NEW k \in DOMAIN sent, NEW types, AtLine(k, types),
           UNCHANGED <<sent, stream, arrived, eof, rd, unread, replies, loop>>,
           NEW x \in Conn, x.rbytes = Dispatched.rbytes, x.rcurr = Dispatched.rcurr,
           x.rsize = Dispatched.rsize, x.iov_used = 0, x.msg = << >>,
           x.noreply = sent[k].noreply,
           NEW y \in Conn, Written(x, k, y), Alike(y, c'), c'.state = y.state, c' \in Conn,
           log' = Handled(k), sent[k].data = 0 \/ ~sent[k].good
    PROVE  IInv'
<1>1. c.state = "CONN_PARSE" /\ k \in Nat
  BY AtLineFacts
<1>2. /\ c'.noreply = FALSE /\ c'.rbytes = Dispatched.rbytes /\ c'.rcurr = Dispatched.rcurr
      /\ c'.rsize = Dispatched.rsize /\ c'.iov_used = 0 /\ c'.msg = << >>
      /\ sent[k].noreply => c'.state = "CONN_NEW_CMD"
      /\ ~sent[k].noreply => /\ c'.state = "CONN_WRITE" /\ c'.wbuf = k
                             /\ c'.write_and_go = "CONN_NEW_CMD"
  BY DEF Written, Alike
<1>3. /\ log' \in Log /\ log'.handled = k /\ log'.missed = log.missed
      /\ log'.oom = log.oom \cup {} /\ log'.cut = log.cut \cup {}
  BY <1>1, LogFacts
<1>4. PICK q : q = IF sent[k].noreply THEN << >> ELSE Single(k)
  OBVIOUS
<1>5. Pending' = q
  BY <1>2, <1>4, PendingAfter
<1>6. << >> \in Seq(Part) /\ DOMAIN << >> = {}
  OBVIOUS
<1>7. /\ q \in Seq(Part) /\ InOrder(q) /\ \A i \in DOMAIN q : q[i].req = k
      /\ k \in Ended(q) <=> ~sent[k].noreply
  <2>1. CASE sent[k].noreply
    <3>1. q = << >>
      BY <1>4, <2>1
    <3> QED
      BY <1>6, <2>1, <3>1 DEF InOrder, Ended
  <2>2. CASE ~sent[k].noreply
    <3>1. q = Single(k)
      BY <1>4, <2>2
    <3>2. k # 0
      <4>1. k \in 1..Len(sent)
        BY AtLineFacts
      <4> QED
        BY <4>1
    <3>3. /\ Single(k) \in Seq(Part) /\ InOrder(Single(k)) /\ Ended(Single(k)) = {k} \ {0}
      BY <1>1, SingleFacts
    <3>4. \A i \in DOMAIN Single(k) : Single(k)[i].req = k
      BY DEF Single
    <3> QED
      BY <2>2, <3>1, <3>2, <3>3, <3>4
  <2> QED
    BY <2>1, <2>2
<1>8. Flags'
  BY <1>2 DEF Flags
<1>9. ~AtBlock'
  BY <1>2 DEF AtBlock
<1>10. c'.state # "CONN_NREAD"
  BY <1>2
<1>11. PICK none \in SUBSET {k} : none = {}
  OBVIOUS
<1>12. log'.oom = log.oom \cup none /\ log'.cut = log.cut \cup none
  BY <1>3, <1>11
<1>13. /\ k \in Ended(q) <=> ~sent[k].noreply /\ k \notin none /\ c'.state # "CONN_NREAD"
       /\ sent[k].data = 0 \/ ~sent[k].good \/ (k \in none /\ sent[k].noreply)
  BY <1>7, <1>10, <1>11
<1> QED
  BY <1>2, <1>3, <1>5, <1>7, <1>8, <1>9, <1>10, <1>12, <1>13, Dispatch

\* The connection as a handler leaves it before it answers.
LEMMA SetNoreply ==
    ASSUME IInv, NEW k \in DOMAIN sent, NEW types, AtLine(k, types),
           NEW x, x = asc_set_noreply_maybe(Dispatched, k)
    PROVE  /\ x \in Conn /\ x.rbytes = Dispatched.rbytes /\ x.rcurr = Dispatched.rcurr
           /\ x.rsize = Dispatched.rsize /\ x.iov_used = 0 /\ x.msg = << >>
           /\ x.noreply = sent[k].noreply
<1>1. In("CONN_PARSE") /\ Newlines # {} /\ sent[k] \in RequestLine
  BY AtLineFacts
<1>2. Dispatched \in Conn /\ Dispatched.noreply = FALSE /\ Dispatched.iov_used = 0
      /\ Dispatched.msg = << >>
  BY <1>1, DispatchedFacts
<1>3. PICK d \in Conn : d = Dispatched
  BY <1>2
<1>4. PICK b \in BOOLEAN : b = sent[k].noreply
  BY <1>1, RequestFacts
<1>5. x = [d EXCEPT !.noreply = b]
  BY <1>2, <1>3, <1>4 DEF asc_set_noreply_maybe
<1>6. /\ x \in Conn /\ x.rbytes = d.rbytes /\ x.rcurr = d.rcurr /\ x.rsize = d.rsize
      /\ x.iov_used = d.iov_used /\ x.msg = d.msg /\ x.noreply = b
  BY <1>5 DEF Conn
<1> QED
  BY <1>2, <1>3, <1>4, <1>6

LEMMA ProcessDelete ==
    ASSUME IInv, asc_process_delete
    PROVE  IInv'
<1>1. PICK k \in DOMAIN sent :
         /\ AtLine(k, {"delete"})
         /\ c' = asc_write_string(asc_set_noreply_maybe(Dispatched, k), k) /\ loop' = loop
         /\ log' = Handled(k)
         /\ UNCHANGED <<sent, stream, arrived, eof, rd, unread, replies>>
  BY DEF asc_process_delete, GoOn
<1>2. PICK x : x = asc_set_noreply_maybe(Dispatched, k)
  OBVIOUS
<1>3. /\ x \in Conn /\ x.rbytes = Dispatched.rbytes /\ x.rcurr = Dispatched.rcurr
      /\ x.rsize = Dispatched.rsize /\ x.iov_used = 0 /\ x.msg = << >>
      /\ x.noreply = sent[k].noreply
  BY <1>1, <1>2, SetNoreply
<1>4. k \in Nat /\ sent[k] \in RequestLine /\ sent[k].type = "delete"
  BY <1>1, AtLineFacts
<1>5. sent[k].data = 0
  BY <1>4, RequestFacts
<1>6. Written(x, k, c') /\ c' \in Conn
  <2>1. Written(x, k, c')
    BY <1>1, <1>2, <1>3, <1>4, AwsFacts
  <2> QED
    BY <2>1 DEF Written
<1>7. Alike(c', c')
  BY DEF Alike
<1> QED
  BY <1>1, <1>3, <1>5, <1>6, <1>7, DispatchString

LEMMA ProcessStats ==
    ASSUME IInv, asc_process_stats
    PROVE  IInv'
<1>1. PICK k \in DOMAIN sent :
         /\ AtLine(k, {"stats"})
         /\ c' = core_write_and_free(Dispatched, k) \/ c' = asc_write_string(Dispatched, k)
         /\ loop' = loop /\ log' = Handled(k)
         /\ UNCHANGED <<sent, stream, arrived, eof, rd, unread, replies>>
  BY DEF asc_process_stats, GoOn
<1>2. /\ In("CONN_PARSE") /\ Newlines # {} /\ k \in Nat /\ sent[k] \in RequestLine
      /\ sent[k].type = "stats"
  BY <1>1, AtLineFacts
<1>3. sent[k].data = 0 /\ sent[k].noreply = FALSE
  BY <1>2, RequestFacts
<1>4. Dispatched \in Conn /\ Dispatched.noreply = FALSE /\ Dispatched.iov_used = 0
      /\ Dispatched.msg = << >>
  BY <1>2, DispatchedFacts
<1>5. c' = asc_write_string(Dispatched, k)
  BY <1>1, <1>4 DEF core_write_and_free, asc_write_string
<1>6. Written(Dispatched, k, c') /\ c' \in Conn
  <2>1. Written(Dispatched, k, c')
    BY <1>2, <1>4, <1>5, AwsFacts
  <2> QED
    BY <2>1 DEF Written
<1>7. Alike(c', c') /\ Dispatched.noreply = sent[k].noreply
  BY <1>3, <1>4 DEF Alike
<1> QED
  BY <1>1, <1>3, <1>4, <1>6, <1>7, DispatchString

\* The connection is closed, with nothing left to write.
LEMMA ProcessQuit ==
    ASSUME IInv, asc_process_quit
    PROVE  IInv'
<1>1. PICK k \in DOMAIN sent :
         /\ AtLine(k, {"quit"})
         /\ c' = [Dispatched EXCEPT !.state = "CONN_CLOSE"] /\ loop' = loop
         /\ log' = Handled(k)
         /\ UNCHANGED <<sent, stream, arrived, eof, rd, unread, replies>>
  BY DEF asc_process_quit, GoOn
<1>2. In("CONN_PARSE") /\ Newlines # {} /\ k \in Nat
  BY <1>1, AtLineFacts
<1>3. c' \in Conn /\ Alike(Dispatched, c') /\ c'.state = "CONN_CLOSE"
  <2>1. Dispatched \in Conn /\ "CONN_CLOSE" \in State
    BY <1>2, DispatchedFacts DEF State
  <2> QED
    BY <1>1, <2>1, SetState
<1>4. c'.rbytes = Dispatched.rbytes /\ c'.rcurr = Dispatched.rcurr /\ c'.rsize = Dispatched.rsize
  BY <1>3 DEF Alike
<1>5. /\ log' \in Log /\ log'.handled = k /\ log'.missed = log.missed
      /\ log'.oom = log.oom \cup {} /\ log'.cut = log.cut \cup {}
  BY <1>1, <1>2, LogFacts
<1>6. ~AtRequest' /\ ~AtBlock' /\ Flags' /\ c'.state \in Closing
  BY <1>3 DEF AtRequest, AtBlock, Flags, Between, Closing
<1>7. Pending' = << >> /\ << >> \in Seq(Part) /\ DOMAIN << >> = {} /\ InOrder(<< >>)
  <2>1. Pending' = << >>
    BY <1>3, PendingAfter
  <2>2. << >> \in Seq(Part) /\ DOMAIN << >> = {}
    OBVIOUS
  <2> QED
    BY <2>1, <2>2 DEF InOrder
<1>8. PICK q \in Seq(Part) : q = << >>
  BY <1>7
<1>9. Pending' = q /\ InOrder(q) /\ \A i \in DOMAIN q : q[i].req = k
  BY <1>7, <1>8
<1>10. PICK none \in SUBSET {k} : none = {}
  OBVIOUS
<1>11. log'.oom = log.oom \cup none /\ log'.cut = log.cut \cup none
  BY <1>5, <1>10
<1>12. c'.state # "CONN_NREAD"
  BY <1>3
<1> QED
  BY <1>1, <1>3, <1>4, <1>5, <1>6, <1>9, <1>11, <1>12, Dispatch

\* The line of a store is refused, its data is read, or there is no memory.
LEMMA StoreRefused ==
    ASSUME IInv, NEW k \in DOMAIN sent, AtLine(k, {"store"}), ~sent[k].good,
           NEW x, x = asc_set_noreply_maybe(Dispatched, k), c' = asc_write_string(x, k),
           log' = Handled(k),
           UNCHANGED <<sent, stream, arrived, eof, rd, unread, replies, loop>>
    PROVE  IInv'
<1>1. /\ x \in Conn /\ x.rbytes = Dispatched.rbytes /\ x.rcurr = Dispatched.rcurr
      /\ x.rsize = Dispatched.rsize /\ x.iov_used = 0 /\ x.msg = << >>
      /\ x.noreply = sent[k].noreply
  BY SetNoreply
<1>2. k \in Nat
  BY AtLineFacts
<1>3. Written(x, k, c')
  BY <1>1, <1>2, AwsFacts
<1>4. c' \in Conn
  BY <1>3 DEF Written
<1>5. Alike(c', c')
  BY DEF Alike
<1> QED
  BY <1>1, <1>3, <1>4, <1>5, DispatchString

LEMMA StoreData ==
    ASSUME IInv, NEW k \in DOMAIN sent, AtLine(k, {"store"}),
           NEW x, x = asc_set_noreply_maybe(Dispatched, k), c' = store_data(x, k),
           log' = Handled(k),
           UNCHANGED <<sent, stream, arrived, eof, rd, unread, replies, loop>>
    PROVE  IInv'
<1>1. /\ x \in Conn /\ x.rbytes = Dispatched.rbytes /\ x.rcurr = Dispatched.rcurr
      /\ x.rsize = Dispatched.rsize /\ x.iov_used = 0 /\ x.msg = << >>
      /\ x.noreply = sent[k].noreply
  BY SetNoreply
<1>2. k \in Nat /\ sent[k] \in RequestLine /\ k \notin log.cut
  BY AtLineFacts
<1>3. PICK d \in Nat : d = sent[k].data
  BY <1>2, RequestFacts
<1>4. PICK y : y = [x EXCEPT !.rlbytes = d, !.state = "CONN_NREAD"]
  OBVIOUS
<1>5. /\ y \in Conn /\ y.rlbytes = d /\ y.state = "CONN_NREAD" /\ y.rbytes = x.rbytes
      /\ y.rcurr = x.rcurr /\ y.rsize = x.rsize /\ y.iov_used = x.iov_used /\ y.msg = x.msg
      /\ y.noreply = x.noreply
  BY <1>1, <1>4 DEF Conn
<1>6. c' = y
  BY <1>3, <1>4 DEF store_data
<1>7. /\ log' \in Log /\ log'.handled = k /\ log'.missed = log.missed
      /\ log'.oom = log.oom /\ log'.cut = log.cut
  BY <1>2, LogFacts
<1>8. /\ c' \in Conn /\ c'.rbytes = Dispatched.rbytes /\ c'.rcurr = Dispatched.rcurr
      /\ c'.rsize = Dispatched.rsize /\ c'.state = "CONN_NREAD" /\ c'.rlbytes = sent[k].data
      /\ c'.noreply = sent[k].noreply /\ c'.iov_used = 0 /\ c'.msg = << >>
  BY <1>1, <1>3, <1>5, <1>6
<1>9. ~AtRequest' /\ ~AtBlock'
  BY <1>8 DEF AtRequest, AtBlock, Between
<1>10. Flags'
  BY <1>2, <1>7, <1>8 DEF Flags
<1>11. PICK q \in Seq(Part) : q = << >>
  <2>1. << >> \in Seq(Part)
    OBVIOUS
  <2> QED
    BY <2>1
<1>12. /\ Pending' = q /\ InOrder(q) /\ \A i \in DOMAIN q : q[i].req = k
       /\ k \notin Ended(q)
  <2>1. Pending' = q
    BY <1>8, <1>11, PendingAfter
  <2>2. DOMAIN q = {}
    BY <1>11
  <2> QED
    BY <2>1, <2>2 DEF InOrder, Ended
<1>13. PICK none \in SUBSET {k} : none = {}
  OBVIOUS
<1>14. log'.oom = log.oom \cup none /\ log'.cut = log.cut \cup none
  BY <1>7, <1>13
<1>15. k \in Ended(q) <=> ~sent[k].noreply /\ k \notin none /\ c'.state # "CONN_NREAD"
  BY <1>8, <1>12
<1> QED
  BY <1>7, <1>8, <1>9, <1>10, <1>12, <1>14, <1>15, Dispatch

LEMMA StoreOom ==
    ASSUME IInv, NEW k \in DOMAIN sent, AtLine(k, {"store"}),
           NEW x, x = asc_set_noreply_maybe(Dispatched, k), c' = store_oom(x, k),
           log' = [Handled(k) EXCEPT !.oom = log.oom \cup {k}],
           UNCHANGED <<sent, stream, arrived, eof, rd, unread, replies, loop>>
    PROVE  IInv'
<1>1. /\ x \in Conn /\ x.rbytes = Dispatched.rbytes /\ x.rcurr = Dispatched.rcurr
      /\ x.rsize = Dispatched.rsize /\ x.iov_used = 0 /\ x.msg = << >>
      /\ x.noreply = sent[k].noreply
  BY SetNoreply
<1>2. k \in Nat /\ k \in 1..Len(sent) /\ sent[k] \in RequestLine
  BY AtLineFacts
<1>3. PICK d \in Nat : d = sent[k].data
  BY <1>2, RequestFacts
<1>4. PICK z : z = asc_write_string(x, k)
  OBVIOUS
<1>5. Written(x, k, z)
  BY <1>1, <1>2, <1>4, AwsFacts
<1>6. /\ z \in Conn /\ z.noreply = FALSE /\ z.rsize = x.rsize /\ z.rcurr = x.rcurr
      /\ z.rbytes = x.rbytes /\ z.iov_used = 0 /\ z.msg = << >>
      /\ sent[k].noreply => z.state = "CONN_NEW_CMD"
      /\ ~sent[k].noreply => z.state = "CONN_WRITE" /\ z.wbuf = k
  BY <1>1, <1>5 DEF Written
<1>7. PICK y : y = [z EXCEPT !.write_and_go = "CONN_SWALLOW", !.sbytes = d]
  OBVIOUS
<1>8. /\ y \in Conn /\ y.write_and_go = "CONN_SWALLOW" /\ y.sbytes = d /\ y.noreply = z.noreply
      /\ y.rsize = z.rsize /\ y.rcurr = z.rcurr /\ y.rbytes = z.rbytes
      /\ y.iov_used = z.iov_used /\ y.msg = z.msg /\ y.state = z.state /\ y.wbuf = z.wbuf
  BY <1>6, <1>7 DEF Conn
<1>9. c' = y
  BY <1>3, <1>4, <1>7 DEF store_oom
<1>10. /\ c' \in Conn /\ c'.rbytes = Dispatched.rbytes /\ c'.rcurr = Dispatched.rcurr
       /\ c'.rsize = Dispatched.rsize /\ c'.sbytes = sent[k].data /\ c'.noreply = FALSE
       /\ c'.write_and_go = "CONN_SWALLOW" /\ c'.iov_used = 0 /\ c'.msg = << >>
       /\ sent[k].noreply => c'.state = "CONN_NEW_CMD"
       /\ ~sent[k].noreply => c'.state = "CONN_WRITE" /\ c'.wbuf = k
  BY <1>1, <1>3, <1>6, <1>8, <1>9
<1>11. /\ log' \in Log /\ log'.handled = k /\ log'.missed = log.missed
       /\ log'.oom = log.oom \cup {k} /\ log'.cut = log.cut
  <2>1. PICK l \in Log : l = Handled(k)
    BY <1>2, LogFacts
  <2>2. l.handled = k /\ l.missed = log.missed /\ l.oom = log.oom /\ l.cut = log.cut /\ log \in Log
    BY <1>2, <2>1, LogFacts
  <2>3. log.oom \cup {k} \in SUBSET Nat
    BY <1>2, <2>2 DEF Log
  <2>4. PICK o \in SUBSET Nat : o = log.oom \cup {k}
    BY <2>3
  <2>5. PICK m : m = [l EXCEPT !.oom = o]
    OBVIOUS
  <2>6. m \in Log /\ m.handled = l.handled /\ m.missed = l.missed /\ m.oom = o /\ m.cut = l.cut
    BY <2>5 DEF Log
  <2>7. log' = m
    BY <2>1, <2>4, <2>5
  <2> QED
    BY <2>2, <2>4, <2>6, <2>7
<1>12. Flags'
  BY <1>10 DEF Flags
<1>13. PICK q : q = IF sent[k].noreply THEN << >> ELSE Single(k)
  OBVIOUS
<1>14. Pending' = q
  BY <1>10, <1>13, PendingAfter
<1>15. << >> \in Seq(Part) /\ DOMAIN << >> = {}
  OBVIOUS
<1>16. /\ q \in Seq(Part) /\ InOrder(q) /\ \A i \in DOMAIN q : q[i].req = k
       /\ k \in Ended(q) <=> ~sent[k].noreply
  <2>1. CASE sent[k].noreply
    <3>1. q = << >>
      BY <1>13, <2>1
    <3> QED
      BY <1>15, <2>1, <3>1 DEF InOrder, Ended
  <2>2. CASE ~sent[k].noreply
    <3>1. q = Single(k)
      BY <1>13, <2>2
    <3>2. k # 0
      BY <1>2
    <3>3. /\ Single(k) \in Seq(Part) /\ InOrder(Single(k)) /\ Ended(Single(k)) = {k} \ {0}
      BY <1>2, SingleFacts
    <3>4. \A i \in DOMAIN Single(k) : Single(k)[i].req = k
      BY DEF Single
    <3> QED
      BY <2>2, <3>1, <3>2, <3>3, <3>4
  <2> QED
    BY <2>1, <2>2
<1>17. PICK none \in SUBSET {k}, one \in SUBSET {k} : none = {} /\ one = {k}
  OBVIOUS
<1>18. /\ log'.oom = log.oom \cup one /\ log'.cut = log.cut \cup none
       /\ c'.state # "CONN_NREAD"
       /\ k \in Ended(q) <=> ~sent[k].noreply /\ k \notin none /\ c'.state # "CONN_NREAD"
  BY <1>10, <1>11, <1>16, <1>17
<1>19. AtRequest' => k \in one /\ sent[k].noreply
  BY <1>10, <1>17 DEF AtRequest, Between
<1> QED
  BY <1>10, <1>11, <1>12, <1>14, <1>16, <1>18, <1>19, Dispatch

LEMMA ProcessUpdate ==
    ASSUME IInv, asc_process_update
    PROVE  IInv'
<1>1. PICK k \in DOMAIN sent :
         /\ AtLine(k, {"store"})
         /\ LET x == asc_set_noreply_maybe(Dispatched, k)
            IN  \/ /\ ~Accepted(k)
                   /\ GoOn(asc_write_string(x, k)) /\ log' = Handled(k)
                \/ /\ Accepted(k)
                   /\ GoOn(store_data(x, k)) /\ log' = Handled(k)
                \/ /\ Accepted(k) /\ "oom" \in Faults
                   /\ GoOn(store_oom(x, k)) /\ log' = [Handled(k) EXCEPT !.oom = @ \cup {k}]
         /\ UNCHANGED <<sent, stream, arrived, eof, rd, unread, replies>>
  BY DEF asc_process_update
<1>2. PICK x : x = asc_set_noreply_maybe(Dispatched, k)
  OBVIOUS
<1>3. CASE ~Accepted(k) /\ GoOn(asc_write_string(x, k)) /\ log' = Handled(k)
  BY <1>1, <1>2, <1>3, StoreRefused DEF GoOn, Accepted
<1>4. CASE GoOn(store_data(x, k)) /\ log' = Handled(k)
  BY <1>1, <1>2, <1>4, StoreData DEF GoOn
<1>5. CASE GoOn(store_oom(x, k)) /\ log' = [Handled(k) EXCEPT !.oom = @ \cup {k}]
  <2>1. k \in Nat
    BY <1>1, AtLineFacts
  <2>2. Handled(k).oom = log.oom
    BY <2>1, LogFacts
  <2>3. log' = [Handled(k) EXCEPT !.oom = log.oom \cup {k}]
    BY <1>5, <2>2
  <2> QED
    BY <1>1, <1>2, <1>5, <2>3, StoreOom DEF GoOn
<1> QED
  BY <1>1, <1>2, <1>3, <1>4, <1>5

\* The parts of the reply to a get: its values, and END if it is whole.
Values(k, h) == [i \in 1..h |-> [req |-> k, last |-> FALSE]]

Unended(v, k, h) ==
    /\ v \in Seq(Part) /\ Len(v) = h /\ DOMAIN v = 1..h
    /\ \A i \in 1..h : v[i].req = k /\ v[i].last = FALSE
    /\ InOrder(v) /\ Ended(v) = {}
Whole(w, k) ==
    /\ w \in Seq(Part) /\ InOrder(w) /\ k \in Ended(w)
    /\ \A i \in DOMAIN w : w[i].req = k

LEMMA ValuesFacts ==
    ASSUME NEW k \in Nat, NEW h \in Nat
    PROVE  Unended(Values(k, h), k, h)
<1>1. PICK v : v = Values(k, h)
  OBVIOUS
<1>2. DOMAIN v = 1..h /\ \A i \in 1..h : v[i] = [req |-> k, last |-> FALSE]
  BY <1>1 DEF Values
<1>3. [req |-> k, last |-> FALSE] \in Part
  BY DEF Part
<1>4. v \in [1..h -> Part]
  <2> HIDE DEF Part
  <2> QED
    BY <1>1, <1>3 DEF Values
<1>5. v \in Seq(Part) /\ Len(v) = h
  <2> HIDE DEF Part
  <2> QED
    BY <1>4
<1>6. \A i \in 1..h : v[i].req = k /\ v[i].last = FALSE
  BY <1>2
<1>7. InOrder(v)
  BY <1>2, <1>6 DEF InOrder, Before
<1>8. Ended(v) = {}
  BY <1>2, <1>6 DEF Ended
<1> QED
  BY <1>1, <1>2, <1>5, <1>6, <1>7, <1>8 DEF Unended

LEMMA WholeFacts ==
    ASSUME NEW k \in Nat, k # 0, NEW h \in Nat
    PROVE  Whole(Append(Values(k, h), [req |-> k, last |-> TRUE]), k)
<1>0. PICK w : w = Append(Values(k, h), [req |-> k, last |-> TRUE])
  OBVIOUS
<1>1. PICK v : v = Values(k, h)
  OBVIOUS
<1>2. /\ v \in Seq(Part) /\ Len(v) = h /\ DOMAIN v = 1..h
      /\ \A i \in 1..h : v[i].req = k /\ v[i].last = FALSE
  <2>1. Unended(v, k, h)
    BY <1>1, ValuesFacts
  <2> QED
    BY <2>1 DEF Unended
<1>3. PICK p \in Part : p = [req |-> k, last |-> TRUE]
  BY DEF Part
<1>4. p.req = k /\ p.last = TRUE
  BY <1>3
<1>5. w = Append(v, p)
  BY <1>0, <1>1, <1>3
<1>6. w \in Seq(Part) /\ Len(w) = h + 1 /\ w[h + 1] = p /\ \A i \in 1..h : w[i] = v[i]
  <2> HIDE DEF Part
  <2>1. Append(v, p) \in Seq(Part) /\ Len(Append(v, p)) = Len(v) + 1
    BY <1>2
  <2>2. Append(v, p)[Len(v) + 1] = p /\ \A i \in 1..Len(v) : Append(v, p)[i] = v[i]
    BY <1>2
  <2> QED
    BY <1>2, <1>5, <2>1, <2>2
<1>7. DOMAIN w = 1..(h + 1)
  <2> HIDE DEF Part
  <2> QED
    BY <1>6
<1>8. \A i \in 1..(h + 1) : i \in 1..h \/ i = h + 1
  OBVIOUS
<1>9. \A i \in DOMAIN w : w[i].req = k
  BY <1>2, <1>4, <1>6, <1>7, <1>8
<1>10. ASSUME NEW i \in DOMAIN w, NEW j \in DOMAIN w, i < j
       PROVE  Before(w[i], w[j])
  <2>1. i \in 1..h
    BY <1>7, <1>10
  <2> QED
    BY <1>2, <1>6, <1>9, <2>1 DEF Before
<1>11. k \in Ended(w)
  <2>1. h + 1 \in 1..Len(w) /\ w[h + 1].last /\ w[h + 1].req = k
    BY <1>4, <1>6
  <2> QED
    BY <1>6, <2>1, EndedIs
<1> QED
  BY <1>0, <1>6, <1>9, <1>10, <1>11 DEF InOrder, Whole

\* A get is answered with its values and END.
LEMMA ReadWhole ==
    ASSUME IInv, NEW k \in DOMAIN sent, AtLine(k, {"get"}), NEW h \in Nat,
           NEW w, w = Append(Values(k, h), [req |-> k, last |-> TRUE]),
           c' = [Dispatched EXCEPT !.msg = w, !.iov_used = h + 1, !.state = "CONN_MWRITE"],
           log' = Handled(k),
           UNCHANGED <<sent, stream, arrived, eof, rd, unread, replies, loop>>
    PROVE  IInv'
<1>1. /\ In("CONN_PARSE") /\ Newlines # {} /\ k \in Nat /\ k \in 1..Len(sent)
      /\ sent[k] \in RequestLine /\ sent[k].type = "get"
  BY AtLineFacts
<1>2. sent[k].data = 0 /\ sent[k].noreply = FALSE
  BY <1>1, RequestFacts
<1>3. k # 0
  BY <1>1
<1>4. /\ w \in Seq(Part) /\ InOrder(w) /\ k \in Ended(w)
      /\ \A i \in DOMAIN w : w[i].req = k
  <2>1. Whole(w, k)
    BY <1>1, <1>3, WholeFacts
  <2> QED
    BY <2>1 DEF Whole
<1>5. PICK d \in Conn : d = Dispatched
  BY <1>1, DispatchedFacts
<1>6. d.noreply = FALSE
  BY <1>1, <1>5, DispatchedFacts
<1>7. PICK n \in Nat : n = h + 1
  OBVIOUS
<1>8. PICK y : y = [d EXCEPT !.msg = w, !.iov_used = n, !.state = "CONN_MWRITE"]
  OBVIOUS
<1>9. /\ y \in Conn /\ y.msg = w /\ y.state = "CONN_MWRITE" /\ y.rbytes = d.rbytes
      /\ y.rcurr = d.rcurr /\ y.rsize = d.rsize /\ y.noreply = d.noreply
  BY <1>4, <1>8 DEF Conn
<1>10. c' = y
  BY <1>5, <1>7, <1>8
<1>11. /\ c' \in Conn /\ c'.msg = w /\ c'.state = "CONN_MWRITE" /\ c'.noreply = FALSE
       /\ c'.rbytes = Dispatched.rbytes /\ c'.rcurr = Dispatched.rcurr
       /\ c'.rsize = Dispatched.rsize
  BY <1>5, <1>6, <1>9, <1>10
<1>12. Pending' = w
  BY <1>11, PendingAfter
<1>13. Flags' /\ ~AtBlock'
  BY <1>11 DEF Flags, AtBlock
<1>14. PICK none \in SUBSET {k} : none = {}
  OBVIOUS
<1>15. /\ log' \in Log /\ log'.handled = k /\ log'.missed = log.missed
       /\ log'.oom = log.oom \cup none /\ log'.cut = log.cut \cup none
  BY <1>1, <1>14, LogFacts
<1>16. /\ c'.state # "CONN_NREAD"
       /\ k \in Ended(w) <=> ~sent[k].noreply /\ k \notin none /\ c'.state # "CONN_NREAD"
  BY <1>2, <1>4, <1>11, <1>14
<1> QED
  BY <1>2, <1>4, <1>11, <1>12, <1>13, <1>15, <1>16, Dispatch

\* Its reply is cut: the values stay in the message and END is missing; without
\* values the error is the reply.
LEMMA ReadCut ==
    ASSUME IInv, NEW k \in DOMAIN sent, AtLine(k, {"get"}), NEW h \in Nat,
           NEW x, x = [Dispatched EXCEPT !.msg = Values(k, h), !.iov_used = h],
           c' = asc_write_string(x, k),
           log' = [Handled(k) EXCEPT !.cut = IF h > 0 THEN log.cut \cup {k} ELSE log.cut],
           UNCHANGED <<sent, stream, arrived, eof, rd, unread, replies, loop>>
    PROVE  IInv'
<1>1. /\ In("CONN_PARSE") /\ Newlines # {} /\ k \in Nat /\ k \in 1..Len(sent)
      /\ sent[k] \in RequestLine /\ sent[k].type = "get"
  BY AtLineFacts
<1>2. sent[k].data = 0 /\ sent[k].noreply = FALSE
  BY <1>1, RequestFacts
<1>3. k # 0
  BY <1>1
<1>4. PICK v \in Seq(Part) : v = Values(k, h)
  BY <1>1, ValuesFacts DEF Unended
<1>5. PICK d \in Conn : d = Dispatched
  BY <1>1, DispatchedFacts
<1>6. d.noreply = FALSE
  BY <1>1, <1>5, DispatchedFacts
<1>7. x = [d EXCEPT !.msg = v, !.iov_used = h]
  BY <1>4, <1>5
<1>8. /\ x \in Conn /\ x.msg = v /\ x.iov_used = h /\ x.rbytes = d.rbytes
      /\ x.rcurr = d.rcurr /\ x.rsize = d.rsize /\ x.noreply = d.noreply
  BY <1>7 DEF Conn
<1>9. Written(x, k, c')
  BY <1>1, <1>8, AwsFacts
<1>10. /\ c' \in Conn /\ c'.msg = v /\ c'.iov_used = h /\ c'.state = "CONN_WRITE"
       /\ c'.noreply = FALSE /\ c'.wbuf = k /\ c'.write_and_go = "CONN_NEW_CMD"
       /\ c'.rbytes = Dispatched.rbytes /\ c'.rcurr = Dispatched.rcurr
       /\ c'.rsize = Dispatched.rsize
  BY <1>5, <1>6, <1>8, <1>9 DEF Written
<1>11. PICK q : q = IF h = 0 THEN Single(k) ELSE v
  OBVIOUS
<1>12. Pending' = q
  BY <1>10, <1>11, PendingAfter
<1>13. /\ q \in Seq(Part) /\ InOrder(q) /\ \A i \in DOMAIN q : q[i].req = k
       /\ k \in Ended(q) <=> h = 0
  <2>1. CASE h = 0
    <3>1. q = Single(k)
      BY <1>11, <2>1
    <3>2. /\ Single(k) \in Seq(Part) /\ InOrder(Single(k)) /\ Ended(Single(k)) = {k} \ {0}
      BY <1>1, SingleFacts
    <3>3. \A i \in DOMAIN Single(k) : Single(k)[i].req = k
      BY DEF Single
    <3> QED
      BY <1>3, <2>1, <3>1, <3>2, <3>3
  <2>2. CASE h # 0
    <3>1. q = Values(k, h)
      BY <1>4, <1>11, <2>2
    <3>2. /\ DOMAIN Values(k, h) = 1..h /\ InOrder(Values(k, h)) /\ Ended(Values(k, h)) = {}
          /\ \A i \in 1..h : Values(k, h)[i].req = k
      <4>1. Unended(Values(k, h), k, h)
        BY <1>1, ValuesFacts
      <4> QED
        BY <4>1 DEF Unended
    <3> QED
      BY <1>4, <2>2, <3>1, <3>2
  <2> QED
    BY <2>1, <2>2
<1>14. Flags' /\ ~AtBlock'
  BY <1>10 DEF Flags, AtBlock
<1>15. PICK cut \in SUBSET {k} : cut = IF h = 0 THEN {} ELSE {k}
  OBVIOUS
<1>16. log' = [Handled(k) EXCEPT !.cut = log.cut \cup cut]
  <2>1. CASE h = 0
    <3>1. ~(h > 0) /\ log.cut \cup cut = log.cut
      BY <1>15, <2>1
    <3> QED
      BY <3>1
  <2>2. CASE h # 0
    <3>1. h > 0 /\ cut = {k}
      BY <1>15, <2>2
    <3> QED
      BY <3>1
  <2> QED
    BY <2>1, <2>2
<1>17. /\ log' \in Log /\ log'.handled = k /\ log'.missed = log.missed
       /\ log'.oom = log.oom /\ log'.cut = log.cut \cup cut
  <2>1. PICK l \in Log : l = Handled(k)
    BY <1>1, LogFacts
  <2>2. l.handled = k /\ l.missed = log.missed /\ l.oom = log.oom /\ l.cut = log.cut /\ log \in Log
    BY <1>1, <2>1, LogFacts
  <2>3. log.cut \cup cut \in SUBSET Nat
    BY <1>1, <2>2 DEF Log
  <2>4. PICK o \in SUBSET Nat : o = log.cut \cup cut
    BY <2>3
  <2>5. PICK m : m = [l EXCEPT !.cut = o]
    OBVIOUS
  <2>6. m \in Log /\ m.handled = l.handled /\ m.missed = l.missed /\ m.oom = l.oom /\ m.cut = o
    BY <2>5 DEF Log
  <2>7. log' = m
    BY <1>16, <2>1, <2>4, <2>5
  <2> QED
    BY <2>2, <2>4, <2>6, <2>7
<1>18. PICK none \in SUBSET {k} : none = {}
  OBVIOUS
<1>19. /\ c'.state # "CONN_NREAD" /\ log'.oom = log.oom \cup none
       /\ k \in Ended(q) <=> ~sent[k].noreply /\ k \notin cut /\ c'.state # "CONN_NREAD"
  BY <1>2, <1>10, <1>13, <1>15, <1>17, <1>18
<1> QED
  BY <1>2, <1>10, <1>12, <1>13, <1>14, <1>17, <1>19, Dispatch

LEMMA ProcessRead ==
    ASSUME IInv, asc_process_read
    PROVE  IInv'
<1>1. PICK k \in DOMAIN sent, h \in 0..MaxHits :
         /\ AtLine(k, {"get"})
         /\ LET part(last) == [req |-> k, last |-> last]
                values == [i \in 1..h |-> part(FALSE)]
            IN  \/ /\ Accepted(k)
                   /\ GoOn([Dispatched EXCEPT !.msg = Append(values, part(TRUE)),
                                              !.iov_used = h + 1, !.state = "CONN_MWRITE"])
                   /\ log' = Handled(k)
                \/ /\ Accepted(k) => "iov" \in Faults /\ h > 0
                   /\ GoOn(asc_write_string([Dispatched EXCEPT !.msg = values, !.iov_used = h], k))
                   /\ log' = [Handled(k) EXCEPT !.cut = IF h > 0 THEN @ \cup {k} ELSE @]
         /\ UNCHANGED <<sent, stream, arrived, eof, rd, unread, replies>>
  BY DEF asc_process_read
<1>2. h \in Nat
  BY FramingAssumption
<1>3. [i \in 1..h |-> [req |-> k, last |-> FALSE]] = Values(k, h)
  BY DEF Values
<1>4. \/ /\ c' = [Dispatched EXCEPT !.msg = Append(Values(k, h), [req |-> k, last |-> TRUE]),
                                    !.iov_used = h + 1, !.state = "CONN_MWRITE"]
         /\ loop' = loop /\ log' = Handled(k)
      \/ /\ c' = asc_write_string([Dispatched EXCEPT !.msg = Values(k, h), !.iov_used = h], k)
         /\ loop' = loop /\ log' = [Handled(k) EXCEPT !.cut = IF h > 0 THEN @ \cup {k} ELSE @]
  BY <1>1, <1>3 DEF GoOn
<1>5. CASE /\ c' = [Dispatched EXCEPT !.msg = Append(Values(k, h), [req |-> k, last |-> TRUE]),
                                      !.iov_used = h + 1, !.state = "CONN_MWRITE"]
           /\ loop' = loop /\ log' = Handled(k)
  <2>1. PICK w : w = Append(Values(k, h), [req |-> k, last |-> TRUE])
    OBVIOUS
  <2>2. c' = [Dispatched EXCEPT !.msg = w, !.iov_used = h + 1, !.state = "CONN_MWRITE"]
    BY <1>5, <2>1
  <2> QED
    BY <1>1, <1>2, <1>5, <2>1, <2>2, ReadWhole
<1>6. CASE /\ c' = asc_write_string([Dispatched EXCEPT !.msg = Values(k, h), !.iov_used = h], k)
           /\ loop' = loop /\ log' = [Handled(k) EXCEPT !.cut = IF h > 0 THEN @ \cup {k} ELSE @]
  <2>1. PICK x : x = [Dispatched EXCEPT !.msg = Values(k, h), !.iov_used = h]
    OBVIOUS
  <2>2. c' = asc_write_string(x, k)
    BY <1>6, <2>1
  <2>3. k \in Nat
    BY <1>1, AtLineFacts
  <2>4. Handled(k).cut = log.cut
    BY <2>3, LogFacts
  <2>5. log' = [Handled(k) EXCEPT !.cut = IF h > 0 THEN log.cut \cup {k} ELSE log.cut]
    BY <1>6, <2>4
  <2> QED
    BY <1>1, <1>2, <1>6, <2>1, <2>2, <2>5, ReadCut
<1> QED
  BY <1>4, <1>5, <1>6

\* Data is taken for a command: it is that of a request that was refused.
LEMMA ProcessUnknown ==
    ASSUME IInv, asc_process_unknown
    PROVE  IInv'
<1>1. /\ In("CONN_PARSE") /\ Newlines # {} /\ ~stream[Curr].first
      /\ c' = asc_write_string(Dispatched, 0) /\ loop' = loop
      /\ log' = [log EXCEPT !.missed = log.missed \cup {stream[Curr].req}]
      /\ UNCHANGED <<sent, stream, arrived, eof, rd, unread, replies>>
  BY DEF asc_process_unknown, GoOn
<1>2. FirstNewline \in Curr..rd /\ AtData /\ c.state = "CONN_PARSE" /\ Pending = << >>
  BY <1>1, Parse DEF AtNext
<1>3. PICK h : h = log.handled
  OBVIOUS
<1>4. /\ Types /\ h \in Nat /\ h <= Len(sent) /\ Len(sent) \in Nat /\ rd \in Nat /\ rd <= arrived
      /\ loop \in Loop /\ End(sent, h) \in Nat
      /\ unread \in 0..SndBuf /\ replies \in Seq(Part) /\ log.cut \subseteq 1..log.handled
  <2>1. Types
    BY DEF IInv
  <2>2. /\ log.handled \in 0..Len(sent) /\ Len(sent) \in Nat /\ rd \in Nat /\ rd <= arrived
        /\ loop \in Loop /\ End(sent, log.handled) \in Nat
    BY <2>1, Known
  <2>3. unread \in 0..SndBuf /\ replies \in Seq(Part) /\ log.cut \subseteq 1..log.handled
    BY <2>1 DEF Types, TypeOK
  <2>4. h \in Nat /\ h <= Len(sent)
    BY <1>3, <2>2
  <2> QED
    BY <1>3, <2>1, <2>2, <2>3, <2>4
<1>5. h > 0 /\ stream[Curr].req = h /\ FirstNewline = End(sent, h) /\ Excuse(h)
  BY <1>2, <1>3 DEF AtData
<1>6. /\ Dispatched \in Conn /\ Dispatched.rbytes = rd - FirstNewline
      /\ Dispatched.rcurr + Dispatched.rbytes <= Dispatched.rsize
      /\ Dispatched.rbytes <= rd
      /\ Dispatched.noreply = FALSE /\ Dispatched.iov_used = 0 /\ Dispatched.msg = << >>
  BY <1>1, DispatchedFacts
<1>7. Written(Dispatched, 0, c')
  <2>1. 0 \in Nat
    OBVIOUS
  <2> QED
    BY <1>1, <1>6, <2>1, AwsFacts
<1>8. /\ c' \in Conn /\ c'.state = "CONN_WRITE" /\ c'.wbuf = 0 /\ c'.noreply = FALSE
      /\ c'.write_and_go = "CONN_NEW_CMD" /\ c'.rbytes = Dispatched.rbytes
      /\ c'.rcurr = Dispatched.rcurr /\ c'.rsize = Dispatched.rsize /\ c'.iov_used = 0
      /\ c'.msg = << >>
  BY <1>6, <1>7 DEF Written
<1>9. /\ log' \in Log /\ log'.handled = h /\ log'.missed = log.missed \cup {h}
      /\ log'.oom = log.oom /\ log'.cut = log.cut
  <2>1. log \in Log
    BY DEF IInv, Types, Log
  <2>2. log.missed \cup {h} \in SUBSET Nat
    BY <1>4, <2>1 DEF Log
  <2>3. PICK o \in SUBSET Nat : o = log.missed \cup {h}
    BY <2>2
  <2>4. PICK m : m = [log EXCEPT !.missed = o]
    OBVIOUS
  <2>5. m \in Log /\ m.handled = h /\ m.missed = o /\ m.oom = log.oom /\ m.cut = log.cut
    BY <1>3, <2>1, <2>4 DEF Log
  <2>6. log' = m
    BY <1>1, <1>5, <2>3, <2>4
  <2> QED
    BY <2>3, <2>5, <2>6
<1>10. Types'
  BY <1>1, <1>3, <1>4, <1>6, <1>8, <1>9, TypesStep DEF Log
<1>11. Bounds'
  BY <1>6, <1>8 DEF Bounds
<1>12. Place'
  <2>1. Pos' = End(sent, h)
    BY <1>1, <1>4, <1>5, <1>6, <1>8 DEF Pos
  <2>2. Synced' /\ ~AtBlock'
    BY <1>1, <1>8, <1>9, <2>1 DEF Synced, AtBlock
  <2> QED
    BY <1>8, <2>2 DEF Place
<1>13. InSync'
  <2>1. \A j \in log.missed : ~sent[j].good \/ (j \in log.oom /\ sent[j].noreply)
    BY DEF IInv, Rest, InSync
  <2> QED
    BY <1>1, <1>5, <1>9, <2>1 DEF InSync, Excuse
<1>14. Flags'
  BY <1>8 DEF Flags
<1>15. Sorted'
  <2>1. PICK q : q = Single(0)
    OBVIOUS
  <2>2. /\ q \in Seq(Part) /\ InOrder(q) /\ \A i \in DOMAIN q : q[i].req \in {0, 0}
        /\ Ended(q) = {}
    <3>1. 0 \in Nat
      OBVIOUS
    <3> QED
      BY <2>1, <3>1, SingleFacts
  <2>3. Pending' = q
    BY <1>8, <2>1, PendingAfter
  <2>4. Due' = Due
    BY <1>1, <1>2, <1>3, <1>8, <1>9 DEF Due, Owed
  <2>5. 0 \in Nat /\ log'.handled \in Nat /\ log.handled <= log'.handled /\ 0 <= log'.handled
    BY <1>3, <1>4, <1>9
  <2>6. c.state \notin Closing /\ Due' = Due \cup Ended(q)
    BY <1>2, <2>2, <2>4 DEF Closing
  <2> QED
    BY <1>1, <1>2, <2>2, <2>3, <2>5, <2>6, SortedNew
<1> QED
  BY <1>10, <1>11, <1>12, <1>13, <1>14, <1>15 DEF IInv, Rest

-----------------------------------------------------------------------------
(***************************************************************************)
(* Data.                                                                   *)
(***************************************************************************)

\* All the data is there: the request has its reply now.
LEMMA CompleteNread ==
    ASSUME IInv, core_complete_nread
    PROVE  IInv'
<1>1. /\ c.state = "CONN_NREAD" /\ c.rlbytes = 0 /\ c' = asc_write_string(c, log.handled)
      /\ loop' = loop
      /\ UNCHANGED <<sent, stream, arrived, eof, rd, unread, replies, log>>
  BY DEF core_complete_nread, In, GoOn, Current
<1>2. PICK k : k = log.handled
  OBVIOUS
<1>3. /\ c \in Conn /\ loop \in Loop /\ Pos \in Nat /\ rd \in Nat /\ c.rbytes <= rd
      /\ log.handled \in 0..Len(sent) /\ Len(sent) \in Nat
  BY Known DEF IInv
<1>4. k > 0 /\ Pos + c.rlbytes = End(sent, k)
  BY <1>1, <1>2 DEF IInv, Rest, Place
<1>5. k \in Nat /\ k \in 1..k /\ k # 0
  BY <1>2, <1>3, <1>4
<1>6. c.noreply = sent[k].noreply /\ c.iov_used = 0 /\ k \notin log.cut /\ c.msg = << >>
  BY <1>1, <1>2 DEF IInv, Rest, Flags, Closing
<1>7. Written(c, k, c')
  BY <1>1, <1>2, <1>3, <1>5, AwsFacts
<1>8. /\ c' \in Conn /\ c'.noreply = FALSE /\ c'.rsize = c.rsize /\ c'.rcurr = c.rcurr
      /\ c'.rbytes = c.rbytes /\ c'.iov_used = 0 /\ c'.msg = << >>
      /\ sent[k].noreply => c'.state = "CONN_NEW_CMD"
      /\ ~sent[k].noreply => /\ c'.state = "CONN_WRITE" /\ c'.wbuf = k
                             /\ c'.write_and_go = "CONN_NEW_CMD"
  BY <1>6, <1>7 DEF Written
<1>9. Types'
  BY <1>1, <1>3, <1>8, TypesConn
<1>10. Bounds'
  BY <1>8 DEF IInv, Bounds
<1>11. Place'
  <2>1. Pos' = End(sent, k)
    BY <1>1, <1>3, <1>4, <1>8 DEF Pos
  <2>2. Synced'
    BY <1>1, <1>2, <2>1 DEF Synced
  <2>3. ~AtBlock' /\ c'.state # "CONN_NREAD"
    BY <1>8 DEF AtBlock
  <2> QED
    BY <2>2, <2>3 DEF Place
<1>12. InSync'
  BY <1>1 DEF IInv, Rest, InSync
<1>13. Flags'
  BY <1>8 DEF Flags
<1>14. Sorted'
  <2>1. PICK q : q = IF sent[k].noreply THEN << >> ELSE Single(k)
    OBVIOUS
  <2>2. Pending' = q
    BY <1>8, <2>1, PendingAfter
  <2>3. << >> \in Seq(Part) /\ DOMAIN << >> = {}
    OBVIOUS
  <2>4. /\ q \in Seq(Part) /\ InOrder(q) /\ \A i \in DOMAIN q : q[i].req \in {0, k}
        /\ Ended(q) = IF sent[k].noreply THEN {} ELSE {k}
    <3>1. CASE sent[k].noreply
      <4>1. q = << >>
        BY <2>1, <3>1
      <4> QED
        BY <2>3, <3>1, <4>1 DEF InOrder, Ended
    <3>2. CASE ~sent[k].noreply
      <4>1. q = Single(k)
        BY <2>1, <3>2
      <4>2. /\ Single(k) \in Seq(Part) /\ InOrder(Single(k)) /\ Ended(Single(k)) = {k} \ {0}
            /\ \A i \in DOMAIN Single(k) : Single(k)[i].req \in {0, k}
        BY <1>5, SingleFacts
      <4> QED
        BY <1>5, <3>2, <4>1, <4>2
    <3> QED
      BY <3>1, <3>2
  <2>5. \A j : j \in Due <=> j \in 1..k /\ ~sent[j].noreply /\ j \notin log.cut /\ j # k
    BY <1>1, <1>2 DEF Due, Owed
  <2>6. \A j : j \in Due' <=> j \in 1..k /\ ~sent[j].noreply /\ j \notin log.cut
    <3>1. c'.state # "CONN_NREAD"
      BY <1>8
    <3> QED
      BY <1>1, <1>2, <3>1 DEF Due, Owed
  <2>7. Due' = Due \cup Ended(q)
    BY <1>5, <1>6, <2>4, <2>5, <2>6
  <2>8. c.state \notin Closing /\ Pending = << >>
    BY <1>1 DEF Closing, Pending
  <2>9. k \notin Due /\ log.handled <= k /\ log'.handled \in Nat /\ log.handled <= log'.handled
        /\ k <= log'.handled
    BY <1>1, <1>2, <1>5, <2>5
  <2> QED
    BY <1>1, <1>5, <2>2, <2>4, <2>7, <2>8, <2>9, SortedNew
<1> QED
  BY <1>9, <1>10, <1>11, <1>12, <1>13, <1>14 DEF IInv, Rest

\* Some of the data is used, and as much less is left of it.
LEMMA BlockStep ==
    ASSUME IInv, UNCHANGED <<sent, stream, arrived, eof, unread, replies, log>>,
           c.state \in {"CONN_NREAD", "CONN_SWALLOW"}, c'.state \in {c.state, "CONN_CLOSE"},
           c' \in Conn, loop' \in Loop, rd' \in Nat, rd' <= arrived, c'.rbytes <= rd',
           c'.rcurr + c'.rbytes <= c'.rsize,
           c'.noreply = c.noreply, c'.msg = c.msg, c'.iov_used = c.iov_used,
           c.state = "CONN_NREAD" => Pos' + c'.rlbytes = Pos + c.rlbytes,
           c.state = "CONN_SWALLOW" => Pos' + c'.sbytes = Pos + c.sbytes
    PROVE  IInv'
<1>1. Types'
  <2>1. Types /\ Len(sent) \in Nat /\ log.handled \in 0..Len(sent)
    BY Known DEF IInv
  <2>2. /\ unread \in 0..SndBuf /\ replies \in Seq(Part) /\ log.handled <= Len(sent)
        /\ log \in [handled : Nat, missed : SUBSET Nat, oom : SUBSET Nat, cut : SUBSET Nat]
        /\ log.cut \subseteq 1..log.handled
    BY LogTypes
  <2> QED
    BY <2>2, TypesStep
<1>2. Bounds'
  BY DEF Bounds
<1>3. Rest'
  <2>1. CASE c'.state = "CONN_CLOSE"
    <3>1. c'.state \in Closing
      BY <2>1 DEF Closing
    <3> QED
      BY <3>1, RestClosing
  <2>2. CASE c'.state = c.state
    <3>1. Place'
      <4>1. ~AtRequest'
        BY <2>2 DEF AtRequest, Between
      <4>2. CASE c.state = "CONN_NREAD"
        <5>1. log.handled > 0 /\ Pos + c.rlbytes = End(sent, log.handled)
          BY <4>2 DEF IInv, Rest, Place
        <5>2. ~AtBlock'
          BY <2>2, <4>2 DEF AtBlock
        <5> QED
          BY <4>1, <4>2, <5>1, <5>2 DEF Place
      <4>3. CASE c.state = "CONN_SWALLOW"
        <5>1. Pos + c.sbytes = End(sent, log.handled)
          BY <4>3 DEF IInv, Rest, Place, AtBlock
        <5> QED
          BY <2>2, <4>1, <4>3, <5>1 DEF Place
      <4> QED
        BY <4>2, <4>3
    <3>2. InSync'
      BY DEF IInv, Rest, InSync
    <3>3. Flags'
      BY <2>2 DEF IInv, Rest, Flags
    <3>4. Pending = << >> /\ Pending' = << >>
      BY <2>2 DEF Pending
    <3>5. Parts' = Parts /\ Due' = Due
      BY <2>2, <3>4 DEF Parts, Due, Owed
    <3>6. Sorted'
      BY <2>2, <3>5 DEF Sorted, InOrder, Before, Ended, IInv, Rest
    <3> QED
      BY <3>1, <3>2, <3>3, <3>6 DEF Rest
  <2> QED
    BY <2>1, <2>2
<1> QED
  BY <1>1, <1>2, <1>3 DEF IInv

\* What a reader takes of the buffer.
LEMMA TakeFacts ==
    ASSUME NEW x \in Conn, x.rcurr + x.rbytes <= x.rsize, NEW n \in Nat, n <= x.rbytes
    PROVE  /\ Consume(x, n) \in Conn
           /\ Consume(x, n).rcurr + Consume(x, n).rbytes <= Consume(x, n).rsize
           /\ Consume(x, n).rbytes = x.rbytes - n /\ Consume(x, n).state = x.state
           /\ Consume(x, n).rlbytes = x.rlbytes /\ Consume(x, n).sbytes = x.sbytes
           /\ Consume(x, n).noreply = x.noreply /\ Consume(x, n).msg = x.msg
           /\ Consume(x, n).iov_used = x.iov_used
<1>1. x.rcurr \in Nat /\ x.rbytes \in Nat /\ x.rsize \in Nat
  BY ConnFacts
<1>2. PICK a \in Nat, b \in Nat : a = x.rcurr + n /\ b = x.rbytes - n
  BY <1>1
<1>3. a + b <= x.rsize
  BY <1>1, <1>2
<1>4. PICK y : y = Consume(x, n)
  OBVIOUS
<1>5. y = [x EXCEPT !.rcurr = a, !.rbytes = b]
  BY <1>2, <1>4 DEF Consume
<1>6. /\ y \in Conn /\ y.rcurr = a /\ y.rbytes = b /\ y.rsize = x.rsize /\ y.state = x.state
      /\ y.rlbytes = x.rlbytes /\ y.sbytes = x.sbytes
      /\ y.noreply = x.noreply /\ y.msg = x.msg /\ y.iov_used = x.iov_used
  BY <1>5 DEF Conn
<1> QED
  BY <1>2, <1>3, <1>4, <1>6

LEMMA ConnNread ==
    ASSUME IInv, conn_nread
    PROVE  IInv'
<1>1. /\ c.state = "CONN_NREAD" /\ c.rlbytes > 0
      /\ UNCHANGED <<sent, stream, arrived, eof, unread, replies, log>>
  BY DEF conn_nread, In
<1>2. /\ c \in Conn /\ loop \in Loop /\ rd \in Nat /\ c.rbytes <= rd /\ rd <= arrived
      /\ arrived \in Nat
  BY Known DEF IInv
<1>3. c.rbytes \in Nat /\ c.rlbytes \in Nat /\ c.rcurr + c.rbytes <= c.rsize
  BY <1>2, ConnFacts DEF IInv, Bounds
<1>4. PICK t : t = Least(c.rbytes, c.rlbytes)
  OBVIOUS
<1>5. t \in Nat /\ t <= c.rbytes /\ c.rlbytes - t \in Nat
  BY <1>3, <1>4 DEF Least
<1>6. PICK w : w = Consume(c, t)
  OBVIOUS
<1>7. /\ w \in Conn /\ w.rcurr + w.rbytes <= w.rsize /\ w.rbytes = c.rbytes - t
      /\ w.state = c.state /\ w.rlbytes = c.rlbytes
      /\ w.noreply = c.noreply /\ w.msg = c.msg /\ w.iov_used = c.iov_used
  BY <1>2, <1>3, <1>5, <1>6, TakeFacts
<1>8. PICK r \in Nat : r = c.rlbytes - t
  BY <1>5
<1>9. PICK x : x = [w EXCEPT !.rlbytes = r]
  OBVIOUS
<1>10. /\ x \in Conn /\ x.rlbytes = r /\ x.rbytes = w.rbytes /\ x.rcurr = w.rcurr
       /\ x.rsize = w.rsize /\ x.state = w.state /\ x.noreply = w.noreply /\ x.msg = w.msg
       /\ x.iov_used = w.iov_used
  BY <1>7, <1>9 DEF Conn
<1>11. x = [Consume(c, t) EXCEPT !.rlbytes = @ - t]
  BY <1>6, <1>7, <1>8, <1>9
<1>12. PICK n : n = ReadSize(r)
  OBVIOUS
<1>13. n \in Nat /\ n <= r /\ rd + n \in Nat /\ rd + n <= arrived
  BY <1>12, ReadSizeFacts
<1>14. \/ GoOn(x) /\ UNCHANGED rd
       \/ rd' = rd + n /\ GoOn([x EXCEPT !.rlbytes = r - n])
       \/ StopFor(x, "EV_READ", "CONN_NREAD") /\ UNCHANGED rd
       \/ GoOn([x EXCEPT !.state = "CONN_CLOSE"]) /\ UNCHANGED rd
  <2>1. IF x.rlbytes = 0
        THEN GoOn(x) /\ UNCHANGED rd
        ELSE \/ /\ ReadSize(x.rlbytes) > 0
                /\ rd' = rd + ReadSize(x.rlbytes)
                /\ GoOn([x EXCEPT !.rlbytes = @ - ReadSize(x.rlbytes)])
             \/ StopFor(x, "EV_READ", "CONN_NREAD") /\ UNCHANGED rd
             \/ GoOn([x EXCEPT !.state = "CONN_CLOSE"]) /\ UNCHANGED rd
    BY <1>4, <1>11 DEF conn_nread
  <2> QED
    BY <1>10, <1>12, <2>1
<1>15. PICK m \in Nat : /\ rd' = rd + m /\ rd + m <= arrived
                        /\ c' \in Conn /\ c'.rbytes = x.rbytes /\ c'.rcurr = x.rcurr
                        /\ c'.rsize = x.rsize /\ c'.rlbytes = r - m
                        /\ c'.noreply = x.noreply /\ c'.msg = x.msg /\ c'.iov_used = x.iov_used
                        /\ c'.state \in {"CONN_NREAD", "CONN_CLOSE"} /\ loop' \in Loop
  <2>0. 0 \in Nat /\ rd = rd + 0 /\ rd + 0 <= arrived /\ r = r - 0
        /\ "CONN_NREAD" \in State /\ "CONN_CLOSE" \in State
    BY <1>2 DEF State
  <2>1. CASE GoOn(x) /\ UNCHANGED rd
    <3>1. c' = x /\ loop' = loop /\ rd' = rd
      BY <2>1 DEF GoOn
    <3> QED
      BY <1>1, <1>2, <1>7, <1>10, <2>0, <3>1
  <2>2. CASE rd' = rd + n /\ GoOn([x EXCEPT !.rlbytes = r - n])
    <3>1. PICK s \in Nat : s = r - n
      BY <1>13
    <3>2. PICK y : y = [x EXCEPT !.rlbytes = s]
      OBVIOUS
    <3>3. /\ y \in Conn /\ y.rlbytes = s /\ y.rbytes = x.rbytes /\ y.rcurr = x.rcurr
          /\ y.rsize = x.rsize /\ y.state = x.state /\ y.noreply = x.noreply /\ y.msg = x.msg
          /\ y.iov_used = x.iov_used
      BY <1>10, <3>2 DEF Conn
    <3>4. c' = y /\ loop' = loop
      BY <2>2, <3>1, <3>2 DEF GoOn
    <3> QED
      BY <1>1, <1>2, <1>7, <1>10, <1>13, <2>2, <3>1, <3>3, <3>4
  <2>3. CASE StopFor(x, "EV_READ", "CONN_NREAD") /\ UNCHANGED rd
    <3>1. /\ c' \in Conn /\ Alike(x, c') /\ c'.state \in {"CONN_NREAD", "CONN_CLOSE"}
          /\ loop' = Stopped \/ loop' = loop
      BY <1>10, <2>0, <2>3, StopForFacts
    <3>2. loop' \in Loop
      BY <1>2, <3>1, StoppedLoop
    <3> QED
      BY <1>10, <2>0, <2>3, <3>1, <3>2 DEF Alike
  <2>4. CASE GoOn([x EXCEPT !.state = "CONN_CLOSE"]) /\ UNCHANGED rd
    <3>1. c' \in Conn /\ Alike(x, c') /\ c'.state = "CONN_CLOSE" /\ loop' = loop
      BY <1>10, <2>0, <2>4, SetState DEF GoOn
    <3> QED
      BY <1>2, <1>10, <2>0, <2>4, <3>1 DEF Alike
  <2> QED
    BY <1>14, <2>1, <2>2, <2>3, <2>4
<1>16. Pos' + c'.rlbytes = Pos + c.rlbytes
  <2>1. Pos' = (rd + m) - (c.rbytes - t) /\ Pos = rd - c.rbytes /\ c'.rlbytes = (c.rlbytes - t) - m
    BY <1>7, <1>8, <1>10, <1>15 DEF Pos
  <2> QED
    BY <1>2, <1>3, <1>5, <2>1
<1>17. rd' \in Nat /\ rd' <= arrived /\ c'.rbytes <= rd' /\ c'.rcurr + c'.rbytes <= c'.rsize
  <2>1. c'.rbytes = c.rbytes - t /\ c'.rcurr + c'.rbytes <= c'.rsize
    BY <1>7, <1>10, <1>15
  <2> QED
    BY <1>2, <1>3, <1>5, <1>15, <2>1
<1>18. c'.noreply = c.noreply /\ c'.msg = c.msg /\ c'.iov_used = c.iov_used
  BY <1>7, <1>10, <1>15
<1>19. c.state \in {"CONN_NREAD", "CONN_SWALLOW"} /\ c'.state \in {c.state, "CONN_CLOSE"}
       /\ c.state # "CONN_SWALLOW"
  BY <1>1, <1>15
<1> QED
  BY <1>1, <1>15, <1>16, <1>17, <1>18, <1>19, BlockStep

\* The data is gone: the next request is at the parser.
LEMMA SwallowEnd ==
    ASSUME IInv, conn_swallow_end
    PROVE  IInv'
<1>1. /\ c.state = "CONN_SWALLOW" /\ c.sbytes = 0 /\ c' = [c EXCEPT !.state = "CONN_NEW_CMD"]
      /\ loop' = loop
      /\ UNCHANGED <<sent, stream, arrived, eof, rd, unread, replies, log>>
  BY DEF conn_swallow_end, In, GoOn
<1>2. c \in Conn /\ loop \in Loop /\ c.rbytes <= rd /\ Pos \in Nat
  BY Known DEF IInv
<1>3. c' \in Conn /\ Alike(c, c') /\ c'.state = "CONN_NEW_CMD"
  <2>1. "CONN_NEW_CMD" \in State
    BY DEF State
  <2> QED
    BY <1>1, <1>2, <2>1, SetState
<1>4. c'.rbytes = c.rbytes /\ c'.rcurr = c.rcurr /\ c'.rsize = c.rsize /\ c'.noreply = c.noreply
      /\ c'.msg = c.msg
  BY <1>3 DEF Alike
<1>5. Types'
  BY <1>1, <1>2, <1>3, <1>4, TypesConn
<1>6. Bounds'
  BY <1>4 DEF IInv, Bounds
<1>7. Place'
  <2>1. Pos + c.sbytes = End(sent, log.handled)
    BY <1>1 DEF IInv, Rest, Place, AtBlock
  <2>2. Pos' = Pos
    BY <1>1, <1>4 DEF Pos
  <2>3. Pos' = End(sent, log.handled)
    BY <1>1, <1>2, <2>1, <2>2
  <2>4. Synced' /\ ~AtBlock'
    BY <1>1, <1>3, <2>3 DEF Synced, AtBlock
  <2> QED
    BY <1>3, <2>4 DEF Place
<1>8. InSync'
  BY <1>1 DEF IInv, Rest, InSync
<1>9. Flags'
  BY <1>1, <1>3, <1>4 DEF IInv, Rest, Flags, Closing
<1>10. Sorted'
  <2>1. Pending = << >> /\ Pending' = << >>
    BY <1>1, <1>3 DEF Pending
  <2>2. Parts' = Parts /\ Due' = Due
    BY <1>1, <1>3, <2>1 DEF Parts, Due, Owed
  <2>3. c.state \notin Closing
    BY <1>1 DEF Closing
  <2> QED
    BY <1>1, <2>2, <2>3 DEF Sorted, InOrder, Before, Ended, IInv, Rest
<1> QED
  BY <1>5, <1>6, <1>7, <1>8, <1>9, <1>10 DEF IInv, Rest

\* Data is thrown away, out of the buffer.
LEMMA SwallowBuffered ==
    ASSUME IInv, conn_swallow_buffered
    PROVE  IInv'
<1>1. /\ c.state = "CONN_SWALLOW" /\ loop' = loop
      /\ UNCHANGED <<sent, stream, arrived, eof, rd, unread, replies, log>>
  BY DEF conn_swallow_buffered, In, GoOn
<1>2. /\ c \in Conn /\ loop \in Loop /\ rd \in Nat /\ c.rbytes <= rd /\ rd <= arrived
  BY Known DEF IInv
<1>3. c.rbytes \in Nat /\ c.sbytes \in Nat /\ c.rcurr + c.rbytes <= c.rsize
  BY <1>2, ConnFacts DEF IInv, Bounds
<1>4. PICK t : t = Least(c.rbytes, c.sbytes)
  OBVIOUS
<1>5. t \in Nat /\ t <= c.rbytes /\ c.sbytes - t \in Nat
  BY <1>3, <1>4 DEF Least
<1>6. PICK w : w = Consume(c, t)
  OBVIOUS
<1>7. /\ w \in Conn /\ w.rcurr + w.rbytes <= w.rsize /\ w.rbytes = c.rbytes - t
      /\ w.state = c.state /\ w.sbytes = c.sbytes
      /\ w.noreply = c.noreply /\ w.msg = c.msg /\ w.iov_used = c.iov_used
  BY <1>2, <1>3, <1>5, <1>6, TakeFacts
<1>8. PICK r \in Nat : r = c.sbytes - t
  BY <1>5
<1>9. c' = [w EXCEPT !.sbytes = r]
  <2>1. c' = [Consume(c, t) EXCEPT !.sbytes = @ - t]
    BY <1>4 DEF conn_swallow_buffered, GoOn
  <2> QED
    BY <1>6, <1>7, <1>8, <2>1
<1>10. /\ c' \in Conn /\ c'.sbytes = r /\ c'.rbytes = w.rbytes /\ c'.rcurr = w.rcurr
       /\ c'.rsize = w.rsize /\ c'.state = w.state /\ c'.noreply = w.noreply /\ c'.msg = w.msg
       /\ c'.iov_used = w.iov_used
  BY <1>7, <1>9 DEF Conn
<1>11. Pos' + c'.sbytes = Pos + c.sbytes
  <2>1. Pos' = rd - (c.rbytes - t) /\ Pos = rd - c.rbytes /\ c'.sbytes = c.sbytes - t
    BY <1>1, <1>7, <1>8, <1>10 DEF Pos
  <2> QED
    BY <1>2, <1>3, <1>5, <2>1
<1>12. rd' \in Nat /\ rd' <= arrived /\ c'.rbytes <= rd'
  <2>1. c'.rbytes = c.rbytes - t
    BY <1>7, <1>10
  <2> QED
    BY <1>1, <1>2, <1>3, <1>5, <2>1
<1>13. c'.noreply = c.noreply /\ c'.msg = c.msg /\ c'.iov_used = c.iov_used
       /\ c'.rcurr + c'.rbytes <= c'.rsize
  BY <1>7, <1>10
<1>14. c.state \in {"CONN_NREAD", "CONN_SWALLOW"} /\ c'.state \in {c.state, "CONN_CLOSE"}
       /\ c.state # "CONN_NREAD" /\ loop' \in Loop
  BY <1>1, <1>2, <1>7, <1>10
<1> QED
  BY <1>1, <1>10, <1>11, <1>12, <1>13, <1>14, BlockStep

\* Data is thrown away, out of the socket.
LEMMA Swallow ==
    ASSUME IInv, conn_swallow
    PROVE  IInv'
<1>1. /\ c.state = "CONN_SWALLOW" /\ c.rbytes = 0
      /\ UNCHANGED <<sent, stream, arrived, eof, unread, replies, log>>
  BY DEF conn_swallow, In
<1>2. c \in Conn /\ loop \in Loop /\ rd \in Nat /\ rd <= arrived /\ arrived \in Nat
  BY Known DEF IInv
<1>3. c.sbytes \in Nat /\ c.rsize \in Nat /\ c.rcurr \in Nat /\ c.rcurr + c.rbytes <= c.rsize
  BY <1>2, ConnFacts DEF IInv, Bounds
<1>4. PICK k : k = Least(c.rsize, c.sbytes)
  OBVIOUS
<1>5. k \in Nat /\ k <= c.sbytes
  BY <1>3, <1>4 DEF Least
<1>6. PICK n : n = ReadSize(k)
  OBVIOUS
<1>7. n \in Nat /\ n <= k /\ rd + n <= arrived
  BY <1>5, <1>6, ReadSizeFacts
<1>8. \/ rd' = rd + n /\ GoOn([c EXCEPT !.sbytes = c.sbytes - n])
      \/ StopFor(c, "EV_READ", "CONN_SWALLOW") /\ UNCHANGED rd
      \/ GoOn([c EXCEPT !.state = "CONN_CLOSE"]) /\ UNCHANGED rd
  BY <1>4, <1>6 DEF conn_swallow
<1>9. PICK m \in Nat : /\ rd' = rd + m /\ rd + m <= arrived
                       /\ c' \in Conn /\ c'.rbytes = c.rbytes /\ c'.rcurr = c.rcurr
                       /\ c'.rsize = c.rsize /\ c'.sbytes = c.sbytes - m
                       /\ c'.noreply = c.noreply /\ c'.msg = c.msg /\ c'.iov_used = c.iov_used
                       /\ c'.state \in {"CONN_SWALLOW", "CONN_CLOSE"} /\ loop' \in Loop
  <2>0. 0 \in Nat /\ rd = rd + 0 /\ rd + 0 <= arrived /\ c.sbytes = c.sbytes - 0
        /\ "CONN_SWALLOW" \in State /\ "CONN_CLOSE" \in State
    BY <1>2, <1>3 DEF State
  <2>1. CASE rd' = rd + n /\ GoOn([c EXCEPT !.sbytes = c.sbytes - n])
    <3>1. PICK s \in Nat : s = c.sbytes - n
      BY <1>3, <1>5, <1>7
    <3>2. PICK y : y = [c EXCEPT !.sbytes = s]
      OBVIOUS
    <3>3. /\ y \in Conn /\ y.sbytes = s /\ y.rbytes = c.rbytes /\ y.rcurr = c.rcurr
          /\ y.rsize = c.rsize /\ y.state = c.state /\ y.noreply = c.noreply /\ y.msg = c.msg
          /\ y.iov_used = c.iov_used
      BY <1>2, <3>2 DEF Conn
    <3>4. c' = y /\ loop' = loop
      BY <2>1, <3>1, <3>2 DEF GoOn
    <3> QED
      BY <1>1, <1>2, <1>7, <2>1, <3>1, <3>3, <3>4
  <2>2. CASE StopFor(c, "EV_READ", "CONN_SWALLOW") /\ UNCHANGED rd
    <3>1. /\ c' \in Conn /\ Alike(c, c') /\ c'.state \in {"CONN_SWALLOW", "CONN_CLOSE"}
          /\ loop' = Stopped \/ loop' = loop
      BY <1>2, <2>0, <2>2, StopForFacts
    <3>2. loop' \in Loop
      BY <1>2, <3>1, StoppedLoop
    <3> QED
      BY <2>0, <2>2, <3>1, <3>2 DEF Alike
  <2>3. CASE GoOn([c EXCEPT !.state = "CONN_CLOSE"]) /\ UNCHANGED rd
    <3>1. c' \in Conn /\ Alike(c, c') /\ c'.state = "CONN_CLOSE" /\ loop' = loop
      BY <1>2, <2>0, <2>3, SetState DEF GoOn
    <3> QED
      BY <1>2, <2>0, <2>3, <3>1 DEF Alike
  <2> QED
    BY <1>8, <2>1, <2>2, <2>3
<1>10. Pos' + c'.sbytes = Pos + c.sbytes
  <2>1. Pos' = (rd + m) - c.rbytes /\ Pos = rd - c.rbytes /\ c'.sbytes = c.sbytes - m
    BY <1>9 DEF Pos
  <2> QED
    BY <1>1, <1>2, <1>3, <2>1
<1>11. rd' \in Nat /\ rd' <= arrived /\ c'.rbytes <= rd' /\ c'.rcurr + c'.rbytes <= c'.rsize
  BY <1>1, <1>2, <1>3, <1>9
<1>12. c.state \in {"CONN_NREAD", "CONN_SWALLOW"} /\ c'.state \in {c.state, "CONN_CLOSE"}
       /\ c.state # "CONN_NREAD"
  BY <1>1, <1>9
<1> QED
  BY <1>1, <1>9, <1>10, <1>11, <1>12, BlockStep

-----------------------------------------------------------------------------
(***************************************************************************)
(* Writing.                                                                *)
(***************************************************************************)

\* The message that is written.
LEMMA MessageIs ==
    ASSUME c \in Conn, c.state \in {"CONN_WRITE", "CONN_MWRITE"}
    PROVE  /\ Message \in Conn /\ Message.state = c.state /\ Message.rbytes = c.rbytes
           /\ Message.rcurr = c.rcurr /\ Message.rsize = c.rsize /\ Message.sbytes = c.sbytes
           /\ Message.noreply = c.noreply /\ Message.write_and_go = c.write_and_go
           /\ Message.msg = Pending /\ Message.msg \in Seq(Part)
           /\ c.state = "CONN_WRITE" => Message.iov_used # 0
<1>1. Message \in Conn /\ Message.msg = Pending /\ Pending \in Seq(Part)
  BY MessageFacts DEF Pending
<1>2. CASE c.state = "CONN_WRITE" /\ c.iov_used = 0
  <2>1. Message = conn_add_iov(c)
    BY <1>2 DEF Message
  <2> QED
    BY <1>1, <2>1, AddIovFacts
<1>3. CASE ~(c.state = "CONN_WRITE" /\ c.iov_used = 0)
  <2>1. Message = c
    BY <1>3 DEF Message
  <2> QED
    BY <1>1, <1>3, <2>1
<1> QED
  BY <1>2, <1>3

\* Parts go from the message to the socket; or nothing goes.
LEMMA WriteStep ==
    ASSUME IInv, UNCHANGED <<sent, stream, arrived, eof, rd, log>>,
           c.state \in {"CONN_WRITE", "CONN_MWRITE"}, c'.state = c.state,
           c' \in Conn, loop' \in Loop, unread' \in 0..SndBuf, replies' \in Seq(Part),
           c'.rbytes = c.rbytes, c'.rcurr = c.rcurr, c'.rsize = c.rsize, c'.sbytes = c.sbytes,
           c'.noreply = c.noreply, c'.write_and_go = c.write_and_go,
           replies' \o Pending' = Parts
    PROVE  IInv'
<1>1. Types'
  <2>1. Types /\ rd \in Nat /\ rd <= arrived /\ c.rbytes <= rd /\ Len(sent) \in Nat
        /\ log.handled \in 0..Len(sent)
    BY Known DEF IInv
  <2>2. /\ log.handled <= Len(sent) /\ log.cut \subseteq 1..log.handled
        /\ log \in [handled : Nat, missed : SUBSET Nat, oom : SUBSET Nat, cut : SUBSET Nat]
    BY <2>1 DEF Types
  <2> QED
    BY <2>1, <2>2, TypesStep
<1>2. Bounds'
  BY DEF IInv, Bounds
<1>3. Place'
  <2>1. Pos' = Pos
    BY DEF Pos
  <2>2. (AtRequest' => AtRequest) /\ (AtBlock' => AtBlock) /\ c'.state # "CONN_NREAD"
    BY DEF AtRequest, AtBlock
  <2>3. Synced => Synced'
    BY <2>1 DEF Synced, Excuse
  <2> QED
    BY <2>1, <2>2, <2>3 DEF IInv, Rest, Place
<1>4. InSync'
  BY DEF IInv, Rest, InSync
<1>5. Flags'
  BY DEF IInv, Rest, Flags, Closing
<1>6. Parts' = Parts /\ Due' = Due
  BY DEF Parts, Due, Owed
<1>7. Sorted'
  BY <1>6 DEF Sorted, InOrder, Before, Ended, IInv, Rest
<1> QED
  BY <1>1, <1>2, <1>3, <1>4, <1>5, <1>7 DEF IInv, Rest

\* What is put on the socket and what is left are the message.
LEMMA SplitFacts ==
    ASSUME NEW s \in Seq(Part), NEW q \in Seq(Part), NEW n \in 0..Len(q)
    PROVE  /\ SubSeq(q, 1, n) \in Seq(Part) /\ SubSeq(q, n + 1, Len(q)) \in Seq(Part)
           /\ (s \o SubSeq(q, 1, n)) \o SubSeq(q, n + 1, Len(q)) = s \o q
           /\ s \o SubSeq(q, 1, n) \in Seq(Part)
<1> HIDE DEF Part
<1>1. Len(q) \in Nat /\ n \in Int /\ n + 1 \in Int /\ 1 \in Int /\ Len(q) \in Int
  OBVIOUS
<1>2. (\A i \in 1..n : q[i] \in Part) /\ (\A i \in (n + 1)..Len(q) : q[i] \in Part)
  BY <1>1
<1>3. SubSeq(q, 1, n) \in Seq(Part) /\ SubSeq(q, n + 1, Len(q)) \in Seq(Part)
  BY <1>1, <1>2, SubSeqProperties
<1>4. SubSeq(q, 1, n) \o SubSeq(q, n + 1, Len(q)) = SubSeq(q, 1, Len(q))
  <2>1. 1 \in 1..(Len(q) + 1) /\ n \in (1 - 1)..Len(q) /\ Len(q) \in n..Len(q)
    BY <1>1
  <2> QED
    BY <2>1, ConcatAdjacentSubSeq
<1>5. SubSeq(q, 1, Len(q)) = q
  BY SubSeqFull
<1>6. (s \o SubSeq(q, 1, n)) \o SubSeq(q, n + 1, Len(q))
        = s \o (SubSeq(q, 1, n) \o SubSeq(q, n + 1, Len(q)))
  <2>1. PICK a \in Seq(Part), b \in Seq(Part) :
           a = SubSeq(q, 1, n) /\ b = SubSeq(q, n + 1, Len(q))
    BY <1>3
  <2>2. (s \o a) \o b = s \o (a \o b)
    BY ConcatAssociative
  <2> QED
    BY <2>1, <2>2, Zenon
<1>7. s \o SubSeq(q, 1, n) \in Seq(Part)
  BY <1>3, ConcatFacts
<1> QED
  BY <1>3, <1>4, <1>5, <1>6, <1>7

LEMMA Transmit ==
    ASSUME IInv, core_transmit
    PROVE  IInv'
<1>1. /\ c.state \in {"CONN_WRITE", "CONN_MWRITE"}
      /\ UNCHANGED <<sent, stream, arrived, eof, rd, log>>
  BY DEF core_transmit, Writing
<1>2. c \in Conn /\ loop \in Loop /\ rd \in Nat /\ c.rbytes <= rd /\ replies \in Seq(Part)
  BY Known DEF IInv
<1>3. PICK m : m = Message
  OBVIOUS
<1>4. /\ m \in Conn /\ m.state = c.state /\ m.rbytes = c.rbytes /\ m.rcurr = c.rcurr
      /\ m.rsize = c.rsize /\ m.sbytes = c.sbytes /\ m.noreply = c.noreply
      /\ m.write_and_go = c.write_and_go /\ m.msg = Pending /\ m.msg \in Seq(Part)
      /\ c.state = "CONN_WRITE" => m.iov_used # 0
  BY <1>1, <1>2, <1>3, MessageIs
<1>5. PICK q \in Seq(Part) : q = m.msg
  BY <1>4
<1>6. Parts = replies \o q
  BY <1>4, <1>5 DEF Parts
<1>7. PICK n : n = Least(Len(q), SndBuf - unread)
  OBVIOUS
<1>8. unread \in 0..SndBuf /\ SndBuf \in Nat /\ Len(q) \in Nat
  <2>1. unread \in 0..SndBuf /\ SndBuf \in Nat
    BY FramingAssumption DEF IInv, Types, TypeOK
  <2>2. Len(q) \in Nat
    OBVIOUS
  <2> QED
    BY <2>1, <2>2
<1>9. n \in Nat /\ n \in 0..Len(q) /\ unread + n \in 0..SndBuf
  BY <1>7, <1>8 DEF Least
<1>10. \/ /\ GoOn([m EXCEPT !.msg = SubSeq(q, n + 1, Len(q))])
          /\ replies' = replies \o SubSeq(q, 1, n) /\ unread' = unread + n
       \/ StopFor(m, "EV_WRITE", c.state) /\ UNCHANGED <<replies, unread>>
       \/ GoOn([m EXCEPT !.state = "CONN_CLOSE"]) /\ UNCHANGED <<replies, unread>>
  BY <1>3, <1>5, <1>7 DEF core_transmit
<1>11. CASE /\ GoOn([m EXCEPT !.msg = SubSeq(q, n + 1, Len(q))])
            /\ replies' = replies \o SubSeq(q, 1, n) /\ unread' = unread + n
  <2>1. /\ SubSeq(q, 1, n) \in Seq(Part) /\ SubSeq(q, n + 1, Len(q)) \in Seq(Part)
        /\ (replies \o SubSeq(q, 1, n)) \o SubSeq(q, n + 1, Len(q)) = replies \o q
        /\ replies \o SubSeq(q, 1, n) \in Seq(Part)
    BY <1>2, <1>9, SplitFacts
  <2>2. PICK b \in Seq(Part) : b = SubSeq(q, n + 1, Len(q))
    BY <2>1
  <2>3. c' = [m EXCEPT !.msg = b] /\ loop' = loop
    BY <1>11, <2>2 DEF GoOn
  <2>4. /\ c' \in Conn /\ c'.msg = b /\ c'.state = m.state /\ c'.rbytes = m.rbytes
        /\ c'.rcurr = m.rcurr /\ c'.rsize = m.rsize /\ c'.sbytes = m.sbytes
        /\ c'.noreply = m.noreply /\ c'.write_and_go = m.write_and_go
        /\ c'.iov_used = m.iov_used
    BY <1>4, <2>3 DEF Conn
  <2>5. Pending' = b
    BY <1>1, <1>4, <2>4, PendingAfter
  <2>6. replies' \o Pending' = Parts
    BY <1>6, <1>11, <2>1, <2>2, <2>5
  <2>7. replies' \in Seq(Part) /\ unread' \in 0..SndBuf /\ loop' \in Loop
    BY <1>2, <1>9, <1>11, <2>1, <2>3
  <2>8. /\ c'.state = c.state /\ c'.rbytes = c.rbytes /\ c'.rcurr = c.rcurr
        /\ c'.rsize = c.rsize /\ c'.sbytes = c.sbytes /\ c'.noreply = c.noreply
        /\ c'.write_and_go = c.write_and_go
    BY <1>4, <2>4
  <2> QED
    BY <1>1, <2>4, <2>6, <2>7, <2>8, WriteStep
<1>12. CASE /\ c' \in Conn /\ Alike(m, c') /\ c'.state \in {c.state, "CONN_CLOSE"}
            /\ loop' \in Loop /\ UNCHANGED <<replies, unread>>
  <2>1. /\ c'.rbytes = c.rbytes /\ c'.rcurr = c.rcurr /\ c'.rsize = c.rsize
        /\ c'.sbytes = c.sbytes /\ c'.noreply = c.noreply /\ c'.write_and_go = c.write_and_go
        /\ c'.msg = q /\ c'.iov_used = m.iov_used
    BY <1>4, <1>5, <1>12 DEF Alike
  <2>2. CASE c'.state = c.state
    <3>1. Pending' = q
      BY <1>1, <1>4, <1>12, <2>1, <2>2, PendingAfter
    <3>2. replies' \o Pending' = Parts /\ unread' \in 0..SndBuf /\ replies' \in Seq(Part)
      BY <1>2, <1>6, <1>8, <1>12, <3>1
    <3> QED
      BY <1>1, <1>12, <2>1, <2>2, <3>2, WriteStep
  <2>3. CASE c'.state = "CONN_CLOSE"
    <3>1. Types'
      BY <1>1, <1>2, <1>12, <2>1, TypesConn
    <3>2. Bounds'
      BY <2>1 DEF IInv, Bounds
    <3>3. c'.state \in Closing
      BY <2>3 DEF Closing
    <3>4. Rest'
      BY <1>1, <1>12, <3>3, RestClosing
    <3> QED
      BY <3>1, <3>2, <3>4 DEF IInv
  <2> QED
    BY <1>12, <2>2, <2>3
<1>13. CASE StopFor(m, "EV_WRITE", c.state) /\ UNCHANGED <<replies, unread>>
  <2>1. c.state \in State
    BY <1>1 DEF State
  <2>2. /\ c' \in Conn /\ Alike(m, c') /\ c'.state \in {c.state, "CONN_CLOSE"}
        /\ loop' = Stopped \/ loop' = loop
    BY <1>4, <1>13, <2>1, StopForFacts
  <2>3. loop' \in Loop
    BY <1>2, <2>2, StoppedLoop
  <2> QED
    BY <1>12, <1>13, <2>2, <2>3
<1>14. CASE GoOn([m EXCEPT !.state = "CONN_CLOSE"]) /\ UNCHANGED <<replies, unread>>
  <2>1. "CONN_CLOSE" \in State
    BY DEF State
  <2>2. c' = [m EXCEPT !.state = "CONN_CLOSE"] /\ loop' = loop
    BY <1>14 DEF GoOn
  <2>3. c' \in Conn /\ Alike(m, c') /\ c'.state = "CONN_CLOSE"
    BY <1>4, <2>1, <2>2, SetState
  <2> QED
    BY <1>2, <1>12, <1>14, <2>2, <2>3
<1> QED
  BY <1>10, <1>11, <1>13, <1>14

\* All is written: the thread goes on with the next request, or where the
\* handler said.
LEMMA TransmitComplete ==
    ASSUME IInv, core_transmit_complete
    PROVE  IInv'
<1>1. /\ c.state \in {"CONN_WRITE", "CONN_MWRITE"} /\ Message.msg = << >>
      /\ loop' = loop
      /\ c' = [c EXCEPT !.state = IF c.state = "CONN_MWRITE" THEN "CONN_NEW_CMD" ELSE c.write_and_go]
      /\ UNCHANGED <<sent, stream, arrived, eof, rd, unread, replies, log>>
  BY DEF core_transmit_complete, Writing, GoOn
<1>2. c \in Conn /\ loop \in Loop /\ c.rbytes <= rd /\ replies \in Seq(Part)
  BY Known DEF IInv
<1>3. c.write_and_go \in {"CONN_NEW_CMD", "CONN_SWALLOW", "CONN_CLOSE"}
  BY <1>2, ConnFacts
<1>4. Pending = << >>
  BY <1>1, <1>2, MessageIs
<1>5. c.msg = << >>
  <2>1. CASE c.state = "CONN_WRITE" /\ c.iov_used = 0
    <3>1. Message.msg = Single(c.wbuf)
      BY <1>2, <2>1, AddIovFacts DEF Message
    <3>2. Single(c.wbuf) # << >>
      BY DEF Single
    <3> QED
      BY <1>1, <3>1, <3>2
  <2>2. CASE ~(c.state = "CONN_WRITE" /\ c.iov_used = 0)
    BY <1>1, <2>2 DEF Message
  <2> QED
    BY <2>1, <2>2
<1>6. PICK st \in {"CONN_NEW_CMD", "CONN_SWALLOW", "CONN_CLOSE"} :
         /\ st = IF c.state = "CONN_MWRITE" THEN "CONN_NEW_CMD" ELSE c.write_and_go
         /\ c' = [c EXCEPT !.state = st]
  BY <1>1, <1>3
<1>7. c' \in Conn /\ Alike(c, c') /\ c'.state = st
  <2>1. st \in State
    BY DEF State
  <2> QED
    BY <1>2, <1>6, <2>1, SetState
<1>8. c'.rbytes = c.rbytes /\ c'.rcurr = c.rcurr /\ c'.rsize = c.rsize /\ c'.sbytes = c.sbytes
      /\ c'.noreply = c.noreply /\ c'.msg = c.msg
  BY <1>7 DEF Alike
<1>9. Types'
  BY <1>1, <1>2, <1>7, <1>8, TypesConn
<1>10. Bounds'
  BY <1>8 DEF IInv, Bounds
<1>11. Rest'
  <2>1. CASE st = "CONN_CLOSE"
    <3>1. c'.state \in Closing
      BY <1>7, <2>1 DEF Closing
    <3> QED
      BY <1>1, <3>1, RestClosing
  <2>2. CASE st # "CONN_CLOSE"
    <3>1. Pos' = Pos
      BY <1>1, <1>8 DEF Pos
    <3>2. Place'
      <4>1. CASE st = "CONN_NEW_CMD"
        <5>1. AtRequest
          BY <1>1, <1>6, <4>1 DEF AtRequest
        <5>2. Synced'
          BY <1>1, <3>1, <5>1 DEF IInv, Rest, Place, Synced, Excuse
        <5>3. ~AtBlock' /\ c'.state # "CONN_NREAD"
          BY <1>7, <4>1 DEF AtBlock
        <5> QED
          BY <5>2, <5>3 DEF Place
      <4>2. CASE st = "CONN_SWALLOW"
        <5>1. AtBlock
          BY <1>1, <1>6, <4>2 DEF AtBlock
        <5>2. Pos' + c'.sbytes = End(sent, log.handled)
          BY <1>8, <3>1, <5>1 DEF IInv, Rest, Place
        <5>3. ~AtRequest' /\ c'.state # "CONN_NREAD"
          BY <1>7, <4>2 DEF AtRequest, Between
        <5> QED
          BY <1>1, <5>2, <5>3 DEF Place
      <4> QED
        BY <2>2, <4>1, <4>2
    <3>3. InSync'
      BY <1>1 DEF IInv, Rest, InSync
    <3>4. Flags'
      <4>1. ~c.noreply
        BY <1>1 DEF IInv, Rest, Flags, Closing
      <4>2. c'.state # "CONN_NREAD"
        BY <1>7
      <4> QED
        BY <1>5, <1>8, <4>1, <4>2 DEF Flags
    <3>5. Pending' = << >>
      BY <1>7, PendingAfter
    <3>6. Parts' = Parts /\ Due' = Due
      <4>1. c'.state # "CONN_NREAD" /\ c.state # "CONN_NREAD"
        BY <1>1, <1>7
      <4> QED
        BY <1>1, <1>4, <3>5, <4>1 DEF Parts, Due, Owed
    <3>7. c.state \notin Closing
      BY <1>1 DEF Closing
    <3>8. Sorted'
      BY <1>1, <3>6, <3>7 DEF Sorted, InOrder, Before, Ended, IInv, Rest
    <3> QED
      BY <3>2, <3>3, <3>4, <3>8 DEF Rest
  <2> QED
    BY <2>1, <2>2
<1> QED
  BY <1>9, <1>10, <1>11 DEF IInv

-----------------------------------------------------------------------------
(***************************************************************************)
(* The theorems.                                                           *)
(***************************************************************************)
LEMMA NextIInv ==
    ASSUME IInv, Next
    PROVE  IInv'
<1>1. CASE deliver \/ client_shutdown \/ client_read \/ core_event_handler
  BY <1>1, ClientSteps
<1>2. CASE conn_wait \/ asc_parse_eagain \/ conn_yield \/ core_close \/ conn_add_iov_assert
  BY <1>2, PauseSteps
<1>3. CASE core_read_tcp \/ core_read_limit \/ core_read_nomem
  BY <1>3, ReadTcp, ReadLimit, ReadNomem
<1>4. CASE asc_process_read \/ asc_process_update \/ asc_process_delete
  BY <1>4, ProcessRead, ProcessUpdate, ProcessDelete
<1>5. CASE asc_process_stats \/ asc_process_quit \/ asc_process_unknown
  BY <1>5, ProcessStats, ProcessQuit, ProcessUnknown
<1>6. CASE conn_new_cmd \/ core_complete_nread \/ conn_nread
  BY <1>6, NewCmd, CompleteNread, ConnNread
<1>7. CASE conn_swallow_end \/ conn_swallow_buffered \/ conn_swallow
  BY <1>7, SwallowEnd, SwallowBuffered, Swallow
<1>8. CASE core_transmit \/ core_transmit_complete
  BY <1>8, Transmit, TransmitComplete
<1> QED
  BY <1>1, <1>2, <1>3, <1>4, <1>5, <1>6, <1>7, <1>8 DEF Next, core_drive_machine, core_parse

LEMMA StutterIInv ==
    ASSUME IInv, UNCHANGED vars
    PROVE  IInv'
<1>1. UNCHANGED <<sent, stream, arrived, eof, rd, unread, c, loop, replies, log>>
  BY DEF vars
<1>2. Rest'
  BY <1>1, RestSame
<1>3. Bounds'
  BY <1>1 DEF IInv, Bounds
<1>4. Types'
  BY <1>1 DEF IInv, Types, TypeOK
<1> QED
  BY <1>2, <1>3, <1>4 DEF IInv

LEMMA Invariance == Spec => []IInv
<1>1. Init => IInv
  BY InitIInv
<1>2. IInv /\ [Next]_vars => IInv'
  BY NextIInv, StutterIInv
<1> QED
  BY <1>1, <1>2, PTL DEF Spec

\* For any stream of requests, sizes of buffers and ways the network cuts it
\* up, what is buffered lies within the read buffer and no count of units goes
\* below zero: through the reads and doublings of core_read_tcp, consumption by
\* asc_parse, conn_nread and conn_swallow, and the shrinking of conn_shrink.
THEOREM BufferIsNeverOverrun == Spec => []RbufBounds
<1>1. IInv => RbufBounds
  BY DEF IInv, Types, Bounds, RbufBounds
<1> QED
  BY <1>1, Invariance, PTL

\* core_drive_machine takes a data block for a command only when its line was
\* refused, or its request said noreply and there was no memory for the item.
THEOREM StreamStaysInSync == Spec => []InSync
<1>1. IInv => InSync
  BY DEF IInv, Rest
<1> QED
  BY <1>1, Invariance, PTL

\* Replies go out in the order of the requests, whatever sendmsg takes at a
\* time, and between two requests each one handled so far has had exactly the
\* reply it is owed, and none for noreply; what ends a get that failed after a
\* hit is left open (EndSent, which the run framing_end refutes).
THEOREM RepliesAreInOrder == Spec => []Answered
<1>1. ASSUME IInv
      PROVE  Answered
  <2>1. replies \in Seq(Part) /\ Pending \in Seq(Part)
    BY <1>1, Known DEF IInv
  <2>2. InOrder(replies)
    BY <1>1, <2>1, Prefix DEF IInv, Rest, Sorted, Parts
  <2>3. ASSUME AllSent
        PROVE  Ended(replies) \ log.cut = {k \in 1..log.handled : Owed(k)}
    <3>1. Pending = << >> /\ c.state \notin Closing
      BY <2>3 DEF AllSent, Pending, Closing
    <3>2. Parts = replies
      BY <2>1, <3>1 DEF Parts
    <3>3. Ended(replies) = Due
      BY <1>1, <3>1, <3>2 DEF IInv, Rest, Sorted
    <3>4. Due = {k \in 1..log.handled : Owed(k)}
      BY <2>3 DEF AllSent, Due
    <3> QED
      BY <3>3, <3>4 DEF Owed
  <2> QED
    BY <2>2, <2>3 DEF Answered, InOrder
<1> QED
  BY <1>1, Invariance, PTL
=============================================================================
