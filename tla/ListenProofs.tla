---------------------------- MODULE ListenProofs ----------------------------
(***************************************************************************)
(* Proofs about accepting and dispatching, for any number of workers and   *)
(* descriptors: a socket belongs to one connection, and no connection      *)
(* waits in the queue of a worker that was not told of it.  Both need that *)
(* no write to a notify pipe fails: core_accept then closes the socket of  *)
(* a connection that stays in the queue.                                   *)
(***************************************************************************)
EXTENDS Listen, FiniteSetTheorems, NaturalsInduction, TLAPS

Dispatching == dispatcher.at = "dispatch"

\* The connections that are queued, served or about to be queued have sockets
\* that are open,
OwnedOpen ==
    /\ \A t \in Worker : \A i \in DOMAIN new_cq[t] : new_cq[t][i] \in open
    /\ \A t \in Worker : serving[t] \subseteq open
    /\ Dispatching => dispatcher.sd \in open

\* these sockets are all different,
OwnedOnce ==
    /\ \A t, u \in Worker : \A i \in DOMAIN new_cq[t], j \in DOMAIN new_cq[u] :
           new_cq[t][i] = new_cq[u][j] => t = u /\ i = j
    /\ \A t, u \in Worker : t # u => serving[t] \cap serving[u] = {}
    /\ \A t, u \in Worker : \A i \in DOMAIN new_cq[t] : new_cq[t][i] \notin serving[u]
    /\ Dispatching => \A t \in Worker :
           /\ dispatcher.sd \notin serving[t]
           /\ \A i \in DOMAIN new_cq[t] : new_cq[t][i] # dispatcher.sd

\* and there is no other open socket.
OpenOwned ==
    \A sd \in open :
        \/ \E t \in Worker : sd \in serving[t] \/ \E i \in DOMAIN new_cq[t] : new_cq[t][i] = sd
        \/ Dispatching /\ dispatcher.sd = sd

Inv ==
    /\ TypeOK
    /\ Dispatching => dispatcher.sd \in Fd
    /\ OwnedOpen
    /\ OwnedOnce
    /\ OpenOwned
    /\ Notified

Owned == OwnedOpen /\ OwnedOnce /\ OpenOwned

-----------------------------------------------------------------------------
\* A nonempty set of naturals has a least element, the one accept returns.
LEMMA LeastFd ==
    ASSUME NEW I \in SUBSET Nat, I # {}
    PROVE  (CHOOSE x \in I : \A y \in I : x <= y) \in I
<1>1. IsWellFoundedOn(OpToRel(<, Nat), Nat)
  BY NatLessThanWellFounded
<1>2. PICK i \in I : \A j \in I : <<j, i>> \notin OpToRel(<, Nat)
  BY <1>1, WFMin
<1>3. \A j \in I : ~(j < i)
  BY <1>2 DEF OpToRel
<1>4. \A j \in I : i <= j
  BY <1>3
<1> QED
  BY <1>4

\* What a queue is after a connection was put behind the others.
LEMMA AppendFacts ==
    ASSUME NEW S, NEW q \in Seq(S), NEW x \in S
    PROVE  /\ Append(q, x) \in Seq(S) /\ Len(Append(q, x)) = Len(q) + 1
           /\ DOMAIN Append(q, x) = DOMAIN q \cup {Len(q) + 1}
           /\ \A i \in DOMAIN q : Append(q, x)[i] = q[i]
           /\ Append(q, x)[Len(q) + 1] = x
           /\ Len(q) + 1 \notin DOMAIN q
  OBVIOUS

\* What a queue is after its first connection was taken.
LEMMA TailFacts ==
    ASSUME NEW S, NEW q \in Seq(S), q # << >>
    PROVE  /\ Tail(q) \in Seq(S) /\ Len(Tail(q)) = Len(q) - 1 /\ Head(q) \in S
           /\ 1 \in DOMAIN q /\ Head(q) = q[1]
           /\ \A i \in DOMAIN Tail(q) : i + 1 \in DOMAIN q /\ Tail(q)[i] = q[i + 1] /\ i + 1 # 1
           /\ \A j \in DOMAIN q : j = 1 \/ (j - 1 \in DOMAIN Tail(q) /\ Tail(q)[j - 1] = q[j])
           /\ \A i, j \in DOMAIN Tail(q) : i + 1 = j + 1 => i = j
  OBVIOUS

\* The next worker in turn is a worker.
LEMMA NextWorker ==
    ASSUME TypeOK
    PROVE  (last_thread + 1) % num_workers \in Worker
<1>1. num_workers \in Nat /\ num_workers > 0 /\ last_thread + 1 \in Nat
  BY ListenAssumption DEF TypeOK
<1>2. (last_thread + 1) % num_workers \in 0..(num_workers - 1)
  BY <1>1
<1> QED
  BY <1>2 DEF Worker

-----------------------------------------------------------------------------
\* Nothing is open at the start.
LEMMA InitInv == Init => Inv
<1> SUFFICES ASSUME Init PROVE Inv
  OBVIOUS
<1>1. TypeOK
  BY ListenAssumption DEF Init, TypeOK, At
<1>2. ~Dispatching /\ \A t \in Worker : DOMAIN new_cq[t] = {} /\ serving[t] = {} /\ Len(new_cq[t]) = 0
  BY DEF Init, Dispatching
<1>3. Notified
  BY <1>2 DEF Init, Notified
<1> QED
  BY <1>1, <1>2, <1>3 DEF Init, Inv, OwnedOpen, OwnedOnce, OpenOwned

\* Steps that touch neither sockets nor queues.
LEMMA Untouched ==
    ASSUME Owned, UNCHANGED <<open, new_cq, serving>>, Dispatching' = Dispatching,
           dispatcher'.sd = dispatcher.sd
    PROVE  Owned'
  BY DEF Owned, OwnedOpen, OwnedOnce, OpenOwned

\* The same with the dispatcher not at a socket.
LEMMA Undispatched ==
    ASSUME Owned, UNCHANGED <<open, new_cq, serving>>, ~Dispatching, ~Dispatching'
    PROVE  Owned'
  BY DEF Owned, OwnedOpen, OwnedOnce, OpenOwned

\* accept returns a descriptor no connection has.
LEMMA AcceptStep ==
    ASSUME Inv, core_accept
    PROVE  Inv'
<1> DEFINE sd == CHOOSE x \in Free : \A y \in Free : x <= y
<1>1. sd \in Free
  <2>1. Free # {}
    BY DEF core_accept
  <2>2. Free \in SUBSET Nat
    BY ListenAssumption DEF Free, Fd
  <2> HIDE DEF Free
  <2> QED
    BY <2>1, <2>2, LeastFd
<1> HIDE DEF sd
<1>2. pending' \in 0..MaxPending /\ dispatcher.at = "idle"
  BY ListenAssumption DEF core_accept, Inv, TypeOK
<1>3. UNCHANGED <<accepting, last_thread, new_cq, notify, serving, worker>>
  BY DEF core_accept
<1>4. CASE dispatcher' = [at |-> "dispatch", sd |-> sd] /\ open' = open \cup {sd}
  <2>1. sd \in Fd /\ sd \notin open /\ open \subseteq Fd
    BY <1>1 DEF Free, Inv, TypeOK
  <2>2. dispatcher'.at = "dispatch" /\ dispatcher'.sd = sd /\ Dispatching' /\ ~Dispatching
    BY <1>2, <1>4 DEF Dispatching
  <2>3. TypeOK'
    BY <1>2, <1>3, <1>4, <2>1 DEF Inv, TypeOK, At
  <2>4. OwnedOpen'
    BY <1>3, <1>4, <2>2 DEF Inv, OwnedOpen
  <2>5. OwnedOnce'
    BY <1>3, <2>1, <2>2 DEF Inv, OwnedOpen, OwnedOnce
  <2>6. OpenOwned'
    BY <1>3, <1>4, <2>2 DEF Inv, OpenOwned
  <2>7. Notified'
    BY <1>2, <1>3, <2>2 DEF Inv, Notified
  <2> QED
    BY <2>1, <2>2, <2>3, <2>4, <2>5, <2>6, <2>7 DEF Inv
<1>5. CASE UNCHANGED <<dispatcher, open>>
  <2>1. Owned'
    BY <1>3, <1>5, Untouched DEF Inv, Owned, Dispatching
  <2>2. TypeOK'
    BY <1>2, <1>3, <1>5 DEF Inv, TypeOK
  <2>3. Notified'
    BY <1>3, <1>5 DEF Inv, Notified
  <2> QED
    BY <1>5, <2>1, <2>2, <2>3 DEF Inv, Owned, Dispatching
<1> QED
  BY <1>4, <1>5 DEF core_accept, sd

\* Without a descriptor the dispatcher stops listening.
LEMMA StopSteps ==
    ASSUME Inv, core_accept_emfile \/ core_accept_stop
    PROVE  Inv'
<1>1. /\ dispatcher.at \in {"idle", "emfile"} /\ dispatcher'.at \in {"idle", "emfile"}
      /\ dispatcher' \in [at : At, sd : Fd \cup {NoFd}]
      /\ accepting' \in BOOLEAN
      /\ UNCHANGED <<pending, open, last_thread, new_cq, notify, serving, worker>>
  BY DEF core_accept_emfile, core_accept_stop, Inv, TypeOK, At
<1>2. ~Dispatching /\ ~Dispatching'
  BY <1>1 DEF Dispatching
<1>3. Owned'
  BY <1>1, <1>2, Undispatched DEF Inv, Owned
<1>4. TypeOK' /\ Notified'
  BY <1>1 DEF Inv, TypeOK, Notified
<1> QED
  BY <1>2, <1>3, <1>4 DEF Inv, Owned

\* The dispatcher's socket becomes the last one of a queue, or is closed.
LEMMA DispatchStep ==
    ASSUME Inv, thread_dispatch
    PROVE  Inv'
<1> DEFINE sd == dispatcher.sd
           tid == (last_thread + 1) % num_workers
<1>1. /\ Dispatching /\ sd \in Fd /\ tid \in Worker
      /\ UNCHANGED <<pending, accepting, notify, serving, worker>>
  BY NextWorker DEF thread_dispatch, Inv, Dispatching
<1>2. CASE /\ new_cq' = [new_cq EXCEPT ![tid] = Append(@, sd)]
           /\ last_thread' = tid
           /\ dispatcher' = [dispatcher EXCEPT !.at = "notify"]
           /\ UNCHANGED open
  <2> DEFINE q == new_cq[tid]
  <2>1. q \in Seq(Fd) /\ Len(q) \in Nat
    BY <1>1 DEF Inv, TypeOK
  <2>2. /\ new_cq'[tid] \in Seq(Fd) /\ Len(new_cq'[tid]) = Len(q) + 1
        /\ DOMAIN new_cq'[tid] = DOMAIN q \cup {Len(q) + 1}
        /\ \A i \in DOMAIN q : new_cq'[tid][i] = q[i]
        /\ new_cq'[tid][Len(q) + 1] = sd
        /\ Len(q) + 1 \notin DOMAIN q
        /\ \A t \in Worker : t # tid => new_cq'[t] = new_cq[t]
        /\ new_cq' \in [Worker -> Seq(Fd)]
    <3>1. new_cq'[tid] = Append(q, sd) /\ \A t \in Worker : t # tid => new_cq'[t] = new_cq[t]
      BY <1>1, <1>2 DEF Inv, TypeOK
    <3>2. Append(q, sd) \in Seq(Fd)
      BY <1>1, <2>1
    <3>3. new_cq' \in [Worker -> Seq(Fd)]
      BY <1>2, <3>2 DEF Inv, TypeOK
    <3> QED
      BY <1>1, <2>1, <3>1, <3>3, AppendFacts
  <2>3. dispatcher'.at = "notify" /\ ~Dispatching' /\ dispatcher' \in [at : At, sd : Fd \cup {NoFd}]
    BY <1>2 DEF Inv, TypeOK, At, Dispatching
  <2> HIDE DEF q
  <2>4. TypeOK'
    BY <1>1, <1>2, <2>2, <2>3 DEF Inv, TypeOK, Worker
  <2> HIDE DEF tid, sd
  <2>5. OwnedOpen'
    BY <1>1, <1>2, <2>2, <2>3 DEF Inv, OwnedOpen, sd, q
  <2>6. OwnedOnce'
    <3>1. \A t \in Worker : \A i \in DOMAIN new_cq'[t] :
            \/ i \in DOMAIN new_cq[t] /\ new_cq'[t][i] = new_cq[t][i]
            \/ t = tid /\ i = Len(q) + 1 /\ new_cq'[t][i] = sd
      BY <2>2 DEF q
    <3>2. \A t, u \in Worker : \A i \in DOMAIN new_cq'[t], j \in DOMAIN new_cq'[u] :
            new_cq'[t][i] = new_cq'[u][j] => t = u /\ i = j
      BY <1>1, <3>1 DEF Inv, OwnedOnce, sd
    <3>3. \A t, u \in Worker : \A i \in DOMAIN new_cq'[t] : new_cq'[t][i] \notin serving'[u]
      BY <1>1, <3>1 DEF Inv, OwnedOnce, sd
    <3> QED
      BY <1>1, <2>3, <3>2, <3>3 DEF Inv, OwnedOnce
  <2>7. OpenOwned'
    <3>1. ASSUME NEW x \in open'
          PROVE  \E t \in Worker : x \in serving'[t] \/ \E i \in DOMAIN new_cq'[t] : new_cq'[t][i] = x
      <4>1. CASE x = sd
        BY <1>1, <2>2, <4>1
      <4>2. CASE x # sd
        <5>1. PICK t \in Worker : x \in serving[t] \/ \E i \in DOMAIN new_cq[t] : new_cq[t][i] = x
          BY <1>2, <3>1, <4>2 DEF Inv, OpenOwned, sd
        <5> QED
          BY <1>1, <2>2, <5>1 DEF q
      <4> QED
        BY <4>1, <4>2
    <3> QED
      BY <3>1 DEF OpenOwned
  <2>8. Notified'
    <3> SUFFICES ASSUME NEW t \in Worker
                 PROVE  Len(new_cq'[t]) <= notify'[t] + (IF worker'[t] = "pop" THEN 1 ELSE 0)
                           + (IF dispatcher'.at = "notify" /\ last_thread' = t THEN 1 ELSE 0)
      BY DEF Notified
    <3>1. /\ Len(new_cq[t]) <= notify[t] + (IF worker[t] = "pop" THEN 1 ELSE 0)
          /\ Len(new_cq[t]) \in Nat /\ notify[t] \in Nat
      BY <1>1 DEF Inv, Notified, TypeOK, Dispatching
    <3>2. CASE t = tid
      <4>1. Len(new_cq'[t]) = Len(new_cq[t]) + 1
        BY <2>2, <3>2 DEF q
      <4> QED
        BY <1>1, <1>2, <2>3, <3>1, <3>2, <4>1
    <3>3. CASE t # tid
      BY <1>1, <1>2, <2>2, <3>1, <3>3
    <3> QED
      BY <3>2, <3>3
  <2> QED
    BY <2>3, <2>4, <2>5, <2>6, <2>7, <2>8 DEF Inv
<1>3. CASE /\ open' = open \ {sd}
           /\ dispatcher' = [at |-> "idle", sd |-> NoFd]
           /\ UNCHANGED <<new_cq, last_thread>>
  <2>1. dispatcher'.at = "idle" /\ ~Dispatching' /\ dispatcher' \in [at : At, sd : Fd \cup {NoFd}]
    BY <1>3 DEF At, Dispatching
  <2>2. TypeOK'
    BY <1>1, <1>3, <2>1 DEF Inv, TypeOK
  <2>3. OwnedOpen'
    BY <1>1, <1>3, <2>1 DEF Inv, OwnedOpen, OwnedOnce
  <2>4. OwnedOnce' /\ OpenOwned'
    BY <1>1, <1>3, <2>1 DEF Inv, OwnedOnce, OpenOwned
  <2>5. Notified'
    BY <1>1, <1>3, <2>1 DEF Inv, Notified, Dispatching
  <2> QED
    BY <2>1, <2>2, <2>3, <2>4, <2>5 DEF Inv
<1> QED
  BY <1>2, <1>3 DEF thread_dispatch
\* The byte is written; where writes do not fail, nothing else happens.
LEMMA NotifyStep ==
    ASSUME Inv, thread_dispatch_notify, "pipe" \notin Faults
    PROVE  Inv'
<1>1. /\ dispatcher.at = "notify" /\ dispatcher' = [at |-> "idle", sd |-> NoFd]
      /\ notify' = [notify EXCEPT ![last_thread] = @ + 1]
      /\ UNCHANGED <<pending, open, accepting, last_thread, new_cq, serving, worker>>
  BY DEF thread_dispatch_notify
<1>2. dispatcher'.at = "idle" /\ ~Dispatching /\ ~Dispatching'
  BY <1>1 DEF Dispatching
<1>3. Owned'
  BY <1>1, <1>2, Undispatched DEF Inv, Owned
<1>4. TypeOK'
  <2>1. notify' \in [Worker -> Nat]
    <3>1. ASSUME NEW u \in Worker PROVE notify'[u] \in Nat
      BY <1>1 DEF Inv, TypeOK
    <3> QED
      BY <1>1, <3>1 DEF Inv, TypeOK
  <2>2. dispatcher' \in [at : At, sd : Fd \cup {NoFd}]
    BY <1>1 DEF At
  <2> QED
    BY <1>1, <2>1, <2>2 DEF Inv, TypeOK
<1>5. Notified'
  <2> SUFFICES ASSUME NEW t \in Worker
               PROVE  Len(new_cq'[t]) <= notify'[t] + (IF worker'[t] = "pop" THEN 1 ELSE 0)
    BY <1>2, <1>4 DEF Notified, TypeOK
  <2>1. /\ Len(new_cq[t]) <= notify[t] + (IF worker[t] = "pop" THEN 1 ELSE 0)
                             + (IF last_thread = t THEN 1 ELSE 0)
        /\ Len(new_cq[t]) \in Nat /\ notify[t] \in Nat
    BY <1>1 DEF Inv, Notified, TypeOK
  <2>2. notify'[t] = IF last_thread = t THEN notify[t] + 1 ELSE notify[t]
    BY <1>1 DEF Inv, TypeOK
  <2> QED
    BY <1>1, <2>1, <2>2
<1> QED
  BY <1>2, <1>3, <1>4, <1>5 DEF Inv, Owned

\* A client connects; a worker starts the listener again.
LEMMA ListenerSteps ==
    ASSUME Inv, connect \/ \E t \in Worker : conn_close_accept(t)
    PROVE  Inv'
<1> DEFINE Quiet == /\ pending' \in 0..MaxPending /\ accepting' \in BOOLEAN
                    /\ worker' \in [Worker -> {"idle", "pop", "close"}]
                    /\ \A t \in Worker : worker'[t] = "pop" <=> worker[t] = "pop"
                    /\ UNCHANGED <<open, dispatcher, last_thread, new_cq, notify, serving>>
<1>1. Quiet
  <2>1. CASE connect
    BY <2>1, ListenAssumption DEF connect, Inv, TypeOK
  <2>2. ASSUME NEW t \in Worker, conn_close_accept(t)
        PROVE  Quiet
    BY <2>2 DEF conn_close_accept, Inv, TypeOK
  <2> HIDE DEF Quiet
  <2> QED
    BY <2>1, <2>2
<1>2. Owned'
  BY <1>1, Untouched DEF Inv, Owned, Dispatching
<1>3. TypeOK'
  BY <1>1 DEF Inv, TypeOK
<1>4. Notified'
  BY <1>1 DEF Inv, Notified
<1> QED
  BY <1>1, <1>2, <1>3, <1>4 DEF Inv, Owned, Dispatching

\* A worker reads a byte and will look at its queue.
LEMMA ProcessStep ==
    ASSUME Inv, NEW t \in Worker, thread_libevent_process(t)
    PROVE  Inv'
<1>1. /\ worker[t] = "idle" /\ notify[t] > 0
      /\ worker' = [worker EXCEPT ![t] = "pop"]
      /\ \/ notify' = [notify EXCEPT ![t] = @ - 1]
         \/ UNCHANGED notify
      /\ UNCHANGED <<pending, open, accepting, dispatcher, last_thread, new_cq, serving>>
  BY DEF thread_libevent_process
<1>2. Owned'
  BY <1>1, Untouched DEF Inv, Owned, Dispatching
<1>3. /\ notify' \in [Worker -> Nat] /\ worker' \in [Worker -> {"idle", "pop", "close"}]
      /\ worker'[t] = "pop" /\ notify'[t] >= notify[t] - 1
      /\ \A u \in Worker : u # t => worker'[u] = worker[u] /\ notify'[u] = notify[u]
  <2>1. /\ worker' \in [Worker -> {"idle", "pop", "close"}] /\ worker'[t] = "pop"
        /\ \A u \in Worker : u # t => worker'[u] = worker[u]
    BY <1>1 DEF Inv, TypeOK
  <2>2. notify \in [Worker -> Nat] /\ notify[t] \in Nat /\ notify[t] - 1 \in Nat
    BY <1>1 DEF Inv, TypeOK
  <2>3. CASE notify' = [notify EXCEPT ![t] = @ - 1]
    BY <2>1, <2>2, <2>3
  <2>4. CASE UNCHANGED notify
    BY <2>1, <2>2, <2>4
  <2> QED
    BY <1>1, <2>3, <2>4
<1>4. TypeOK'
  BY <1>1, <1>3 DEF Inv, TypeOK
<1>5. Notified'
  <2> SUFFICES ASSUME NEW u \in Worker
               PROVE  Len(new_cq[u]) <= notify'[u] + (IF worker'[u] = "pop" THEN 1 ELSE 0)
                         + (IF dispatcher.at = "notify" /\ last_thread = u THEN 1 ELSE 0)
    BY <1>1 DEF Notified
  <2>1. /\ Len(new_cq[u]) <= notify[u] + (IF worker[u] = "pop" THEN 1 ELSE 0)
                             + (IF dispatcher.at = "notify" /\ last_thread = u THEN 1 ELSE 0)
        /\ Len(new_cq[u]) \in Nat /\ notify[u] \in Nat /\ notify'[u] \in Nat
    BY <1>3 DEF Inv, Notified, TypeOK
  <2>2. CASE u = t
    BY <1>1, <1>3, <2>1, <2>2
  <2>3. CASE u # t
    BY <1>3, <2>1, <2>3
  <2> QED
    BY <2>2, <2>3
<1> QED
  BY <1>1, <1>2, <1>4, <1>5 DEF Inv, Owned, Dispatching

\* The first connection of a queue becomes one its worker serves, or its
\* socket is closed.
LEMMA PopStep ==
    ASSUME Inv, NEW t \in Worker, conn_cq_pop(t)
    PROVE  Inv'
<1> DEFINE q == new_cq[t]
<1>1. /\ worker[t] = "pop" /\ worker' = [worker EXCEPT ![t] = "idle"]
      /\ UNCHANGED <<pending, accepting, dispatcher, last_thread, notify>>
  BY DEF conn_cq_pop
<1>2. /\ worker' \in [Worker -> {"idle", "pop", "close"}] /\ worker'[t] = "idle"
      /\ \A u \in Worker : u # t => worker'[u] = worker[u]
      /\ q \in Seq(Fd) /\ Len(q) \in Nat
      /\ \A u \in Worker : Len(new_cq[u]) \in Nat /\ notify[u] \in Nat
  BY <1>1 DEF Inv, TypeOK
<1>3. ASSUME \A u \in Worker : u # t => new_cq'[u] = new_cq[u],
             Len(new_cq'[t]) = 0 \/ Len(new_cq'[t]) = Len(q) - 1
      PROVE  Notified'
  <2> SUFFICES ASSUME NEW u \in Worker
               PROVE  Len(new_cq'[u]) <= notify[u] + (IF worker'[u] = "pop" THEN 1 ELSE 0)
                         + (IF dispatcher.at = "notify" /\ last_thread = u THEN 1 ELSE 0)
    BY <1>1 DEF Notified
  <2>1. Len(new_cq[u]) <= notify[u] + (IF worker[u] = "pop" THEN 1 ELSE 0)
                             + (IF dispatcher.at = "notify" /\ last_thread = u THEN 1 ELSE 0)
    BY DEF Inv, Notified
  <2>2. CASE u = t
    BY <1>1, <1>2, <1>3, <2>1, <2>2
  <2>3. CASE u # t
    BY <1>2, <1>3, <2>1, <2>3
  <2> QED
    BY <2>2, <2>3
<1>4. CASE q = << >> /\ UNCHANGED <<new_cq, serving, open>>
  <2>1. Owned'
    BY <1>1, <1>4, Untouched DEF Inv, Owned, Dispatching
  <2>2. TypeOK'
    BY <1>1, <1>2, <1>4 DEF Inv, TypeOK
  <2>3. Len(new_cq'[t]) = 0
    BY <1>4
  <2>4. Notified'
    BY <1>3, <1>4, <2>3
  <2> QED
    BY <1>1, <2>1, <2>2, <2>4 DEF Inv, Owned, Dispatching
<1>5. CASE q # << >> /\ new_cq' = [new_cq EXCEPT ![t] = Tail(@)]
  <2> DEFINE sd == Head(q)
  <2>1. /\ new_cq'[t] = Tail(q) /\ \A u \in Worker : u # t => new_cq'[u] = new_cq[u]
        /\ Tail(q) \in Seq(Fd) /\ Len(Tail(q)) = Len(q) - 1 /\ sd \in Fd
        /\ 1 \in DOMAIN q /\ sd = q[1]
        /\ \A i \in DOMAIN Tail(q) : i + 1 \in DOMAIN q /\ Tail(q)[i] = q[i + 1] /\ i + 1 # 1
        /\ \A j \in DOMAIN q : j = 1 \/ (j - 1 \in DOMAIN Tail(q) /\ Tail(q)[j - 1] = q[j])
        /\ \A i, j \in DOMAIN Tail(q) : i + 1 = j + 1 => i = j
    <3>1. new_cq'[t] = Tail(q) /\ \A u \in Worker : u # t => new_cq'[u] = new_cq[u]
      BY <1>5 DEF Inv, TypeOK
    <3> QED
      BY <1>2, <1>5, <3>1, TailFacts
  <2>2. new_cq' \in [Worker -> Seq(Fd)] /\ Notified'
    BY <1>3, <1>5, <2>1 DEF Inv, TypeOK
  \* Where a connection still queued was before.
  <2> DEFINE At0(u, i) == IF u = t THEN i + 1 ELSE i
  <2>3. \A u \in Worker : \A i \in DOMAIN new_cq'[u] :
          /\ At0(u, i) \in DOMAIN new_cq[u] /\ new_cq'[u][i] = new_cq[u][At0(u, i)]
          /\ u = t => At0(u, i) # 1
    BY <2>1
  <2>4. \A u \in Worker : \A i, j \in DOMAIN new_cq'[u] : At0(u, i) = At0(u, j) => i = j
    BY <2>1
  <2> HIDE DEF At0, q, sd
  <2>5. /\ \A u, v \in Worker : \A i \in DOMAIN new_cq'[u], j \in DOMAIN new_cq'[v] :
               new_cq'[u][i] = new_cq'[v][j] => u = v /\ i = j
        /\ \A u \in Worker : \A i \in DOMAIN new_cq'[u] :
               /\ new_cq'[u][i] # sd /\ new_cq'[u][i] \in open
               /\ \A v \in Worker : new_cq'[u][i] \notin serving[v]
               /\ Dispatching => new_cq'[u][i] # dispatcher.sd
    <3>1. ASSUME NEW u \in Worker, NEW v \in Worker,
                 NEW i \in DOMAIN new_cq'[u], NEW j \in DOMAIN new_cq'[v],
                 new_cq'[u][i] = new_cq'[v][j]
          PROVE  u = v /\ i = j
      <4>1. u = v /\ At0(u, i) = At0(v, j)
        BY <2>3, <3>1 DEF Inv, OwnedOnce
      <4> QED
        BY <2>4, <4>1
    <3>2. ASSUME NEW u \in Worker, NEW i \in DOMAIN new_cq'[u]
          PROVE  /\ new_cq'[u][i] # sd /\ new_cq'[u][i] \in open
                 /\ \A v \in Worker : new_cq'[u][i] \notin serving[v]
                 /\ Dispatching => new_cq'[u][i] # dispatcher.sd
      <4>1. new_cq'[u][i] # sd
        BY <2>1, <2>3 DEF Inv, OwnedOnce, q
      <4> QED
        BY <2>3, <4>1 DEF Inv, OwnedOnce, OwnedOpen
    <3> QED
      BY <3>1, <3>2
  <2>6. /\ sd \in open /\ \A u \in Worker : sd \notin serving[u]
        /\ Dispatching => dispatcher.sd # sd
    BY <2>1 DEF Inv, OwnedOpen, OwnedOnce, q
  <2>7. \A x \in open : \/ x = sd
                        \/ \E u \in Worker : \/ x \in serving[u]
                                             \/ \E i \in DOMAIN new_cq'[u] : new_cq'[u][i] = x
                        \/ Dispatching /\ dispatcher.sd = x
    <3>1. ASSUME NEW x \in open, x # sd,
                 NEW u \in Worker, NEW i \in DOMAIN new_cq[u], new_cq[u][i] = x
          PROVE  \E j \in DOMAIN new_cq'[u] : new_cq'[u][j] = x
      <4>1. CASE u # t
        BY <2>1, <3>1, <4>1
      <4>2. CASE u = t
        <5>1. i \in DOMAIN q /\ q[i] = x /\ i # 1
          BY <2>1, <3>1, <4>2 DEF q
        <5>2. i - 1 \in DOMAIN Tail(q) /\ Tail(q)[i - 1] = x
          BY <2>1, <5>1
        <5> QED
          BY <2>1, <4>2, <5>2
      <4> QED
        BY <4>1, <4>2
    <3> QED
      BY <3>1 DEF Inv, OpenOwned
  <2>8. Dispatching' = Dispatching
    BY <1>1 DEF Dispatching
  <2>9. CASE serving' = [serving EXCEPT ![t] = @ \cup {sd}] /\ UNCHANGED open
    <3>1. /\ serving'[t] = serving[t] \cup {sd} /\ \A u \in Worker : u # t => serving'[u] = serving[u]
          /\ serving' \in [Worker -> SUBSET Fd]
      BY <2>1, <2>9 DEF Inv, TypeOK
    <3>2. TypeOK'
      BY <1>1, <1>2, <2>2, <2>9, <3>1 DEF Inv, TypeOK
    <3>3. OwnedOpen'
      BY <1>1, <2>5, <2>6, <2>8, <2>9, <3>1 DEF Inv, OwnedOpen
    <3>4. OwnedOnce'
      <4>1. \A u, v \in Worker : u # v => serving'[u] \cap serving'[v] = {}
        BY <2>6, <3>1 DEF Inv, OwnedOnce
      <4>2. \A u, v \in Worker : \A i \in DOMAIN new_cq'[u] : new_cq'[u][i] \notin serving'[v]
        BY <2>5, <3>1
      <4>3. Dispatching => \A u \in Worker : dispatcher.sd \notin serving'[u]
        BY <2>6, <3>1 DEF Inv, OwnedOnce
      <4> QED
        BY <1>1, <2>5, <2>8, <4>1, <4>2, <4>3 DEF OwnedOnce
    <3>5. OpenOwned'
      BY <1>1, <2>7, <2>8, <2>9, <3>1 DEF OpenOwned
    <3> QED
      BY <1>1, <2>2, <2>8, <3>2, <3>3, <3>4, <3>5 DEF Inv
  <2>10. CASE open' = open \ {sd} /\ UNCHANGED serving
    <3>1. TypeOK'
      BY <1>1, <1>2, <2>2, <2>10 DEF Inv, TypeOK
    <3>2. OwnedOpen'
      BY <1>1, <2>5, <2>6, <2>8, <2>10 DEF Inv, OwnedOpen
    <3>3. OwnedOnce'
      BY <1>1, <2>5, <2>8, <2>10 DEF Inv, OwnedOnce
    <3>4. OpenOwned'
      BY <1>1, <2>7, <2>8, <2>10 DEF OpenOwned
    <3> QED
      BY <1>1, <2>2, <2>8, <3>1, <3>2, <3>3, <3>4 DEF Inv
  <2> QED
    BY <1>5, <2>9, <2>10 DEF conn_cq_pop, q, sd
<1> QED
  BY <1>4, <1>5 DEF conn_cq_pop

\* A connection ends: its event is deleted before its socket is closed.
LEMMA CloseStep ==
    ASSUME Inv, NEW t \in Worker, conn_close(t)
    PROVE  Inv'
<1>1. PICK sd \in serving[t] :
        /\ worker[t] = "idle"
        /\ serving' = [serving EXCEPT ![t] = @ \ {sd}]
        /\ open' = open \ {sd}
        /\ worker' = [worker EXCEPT ![t] = "close"]
        /\ UNCHANGED <<pending, accepting, dispatcher, last_thread, new_cq, notify>>
  BY DEF conn_close
<1>2. /\ serving'[t] = serving[t] \ {sd} /\ \A u \in Worker : u # t => serving'[u] = serving[u]
      /\ serving' \in [Worker -> SUBSET Fd]
      /\ worker' \in [Worker -> {"idle", "pop", "close"}]
      /\ \A u \in Worker : worker'[u] = "pop" <=> worker[u] = "pop"
  BY <1>1 DEF Inv, TypeOK
<1>3. TypeOK'
  BY <1>1, <1>2 DEF Inv, TypeOK
<1>4. Notified'
  BY <1>1, <1>2 DEF Inv, Notified
<1>5. Dispatching' = Dispatching
  BY <1>1 DEF Dispatching
<1>6. /\ \A u \in Worker : u # t => sd \notin serving[u]
      /\ \A u \in Worker : \A i \in DOMAIN new_cq[u] : new_cq[u][i] # sd
      /\ Dispatching => dispatcher.sd # sd
  BY DEF Inv, OwnedOnce
<1>7. OwnedOpen'
  BY <1>1, <1>2, <1>5, <1>6 DEF Inv, OwnedOpen
<1>8. OwnedOnce'
  <2>1. \A u \in Worker : serving'[u] \subseteq serving[u]
    BY <1>2
  <2> QED
    BY <1>1, <1>5, <2>1 DEF Inv, OwnedOnce
<1>9. OpenOwned'
  BY <1>1, <1>2, <1>5 DEF Inv, OpenOwned
<1> QED
  BY <1>1, <1>3, <1>4, <1>5, <1>7, <1>8, <1>9 DEF Inv
\* Inv is inductive.
LEMMA NextInv == "pipe" \notin Faults /\ Inv /\ [Next]_vars => Inv'
<1> SUFFICES ASSUME "pipe" \notin Faults, Inv, [Next]_vars PROVE Inv'
  OBVIOUS
<1>1. CASE UNCHANGED vars
  <2>1. UNCHANGED <<pending, open, accepting, dispatcher, last_thread, new_cq, notify,
                    serving, worker>>
    BY <1>1 DEF vars
  <2>2. Owned'
    BY <2>1, Untouched DEF Inv, Owned, Dispatching
  <2>3. TypeOK' /\ Notified'
    BY <2>1 DEF Inv, TypeOK, Notified
  <2> QED
    BY <2>1, <2>2, <2>3 DEF Inv, Owned, Dispatching
<1>2. CASE Dispatch
  BY <1>2, AcceptStep, StopSteps, DispatchStep, NotifyStep DEF Dispatch
<1>3. ASSUME NEW t \in Worker, Work(t) \/ conn_close(t)
      PROVE  Inv'
  BY <1>3, ProcessStep, PopStep, ListenerSteps, CloseStep DEF Work
<1> QED
  BY <1>1, <1>2, <1>3, ListenerSteps DEF Next

\* The owners of a descriptor, counted.
LEMMA CountOwners ==
    ASSUME Inv, NEW sd \in Fd
    PROVE  Cardinality(Owners(sd)) = IF sd \in open THEN 1 ELSE 0
<1>1. \A o : o \in Owners(sd) <=>
        \/ \E t \in Worker : \E i \in DOMAIN new_cq[t] : new_cq[t][i] = sd /\ o = <<t, i>>
        \/ \E t \in Worker : sd \in serving[t] /\ o = <<t, 0>>
        \/ dispatcher = [at |-> "dispatch", sd |-> sd] /\ o = <<-1, 0>>
  <2> DEFINE A == UNION {{<<t, i>> : i \in {j \in DOMAIN new_cq[t] : new_cq[t][j] = sd}} : t \in Worker}
             B == {<<t, 0>> : t \in {u \in Worker : sd \in serving[u]}}
             C == IF dispatcher = [at |-> "dispatch", sd |-> sd] THEN {<<-1, 0>>} ELSE {}
  <2>1. \A o : o \in A <=> \E t \in Worker : \E i \in DOMAIN new_cq[t] :
                                new_cq[t][i] = sd /\ o = <<t, i>>
    <3> DEFINE P(t) == {<<t, i>> : i \in {j \in DOMAIN new_cq[t] : new_cq[t][j] = sd}}
    <3>1. \A o : \A t : o \in P(t) <=> \E i \in DOMAIN new_cq[t] : new_cq[t][i] = sd /\ o = <<t, i>>
      BY Zenon
    <3>2. A = UNION {P(t) : t \in Worker}
      BY Zenon
    <3> HIDE DEF P, A
    <3>3. \A o : o \in A <=> \E t \in Worker : o \in P(t)
      BY <3>2, Zenon
    <3> QED
      BY <3>1, <3>3, Zenon
  <2>2. \A o : o \in B <=> \E t \in Worker : sd \in serving[t] /\ o = <<t, 0>>
    BY Zenon
  <2>3. \A o : o \in C <=> dispatcher = [at |-> "dispatch", sd |-> sd] /\ o = <<-1, 0>>
    BY Zenon
  <2>4. Owners(sd) = (A \cup B) \cup C
    BY Zenon DEF Owners
  <2> HIDE DEF A, B, C
  <2>5. \A o : o \in Owners(sd) <=> o \in A \/ o \in B \/ o \in C
    BY <2>4
  <2> QED
    BY <2>1, <2>2, <2>3, <2>5, Zenon
<1>2. dispatcher = [at |-> "dispatch", sd |-> sd] <=> Dispatching /\ dispatcher.sd = sd
  BY DEF Inv, TypeOK, Dispatching
<1>3. CASE sd \notin open
  <2>1. Owners(sd) = {}
    BY <1>1, <1>2, <1>3 DEF Inv, OwnedOpen
  <2> QED
    BY <1>3, <2>1, FS_EmptySet
<1>4. CASE sd \in open
  <2>1. \E o : o \in Owners(sd)
    BY <1>1, <1>2, <1>4 DEF Inv, OpenOwned
  <2>2. ASSUME NEW o \in Owners(sd), NEW p \in Owners(sd)
        PROVE  o = p
    <3>1. CASE \E t \in Worker : \E i \in DOMAIN new_cq[t] : new_cq[t][i] = sd /\ o = <<t, i>>
      BY <1>1, <1>2, <3>1 DEF Inv, OwnedOnce
    <3>2. CASE \E t \in Worker : sd \in serving[t] /\ o = <<t, 0>>
      BY <1>1, <1>2, <3>2 DEF Inv, OwnedOnce
    <3>3. CASE Dispatching /\ dispatcher.sd = sd /\ o = <<-1, 0>>
      BY <1>1, <1>2, <3>3 DEF Inv, OwnedOnce
    <3> QED
      BY <1>1, <1>2, <3>1, <3>2, <3>3
  <2>3. PICK o : Owners(sd) = {o}
    BY <2>1, <2>2
  <2> QED
    BY <1>4, <2>3, FS_Singleton
<1> QED
  BY <1>3, <1>4

\* Where no write to a notify pipe fails, the inductive invariant holds.
LEMMA Invariance ==
    ASSUME "pipe" \notin Faults
    PROVE  Spec => []Inv
<1>1. Inv /\ [Next]_vars => Inv'
  BY NextInv
<1> QED
  BY <1>1, InitInv, PTL DEF Spec

\* SocketsOwned: from core_accept through thread_dispatch and the queue to the
\* worker and conn_close every open socket has one owner and no owner's socket
\* is closed, though descriptors are used again at once, if no write to a
\* notify pipe fails.
THEOREM OneOwner ==
    ASSUME "pipe" \notin Faults
    PROVE  Spec => []SocketsOwned
<1>1. Inv => SocketsOwned
  BY CountOwners DEF Inv, SocketsOwned
<1> QED
  BY <1>1, Invariance, PTL

\* Notified: a worker has a byte to read, or to act on, for every connection
\* in its queue (thread_dispatch, thread_libevent_process), if no write to a
\* notify pipe fails.
THEOREM EveryoneNotified ==
    ASSUME "pipe" \notin Faults
    PROVE  Spec => []Notified
<1>1. Inv => Notified
  BY DEF Inv
<1> QED
  BY <1>1, Invariance, PTL
=============================================================================
