------------------------------- MODULE Listen -------------------------------
(***************************************************************************)
(* How connections reach the worker threads: the dispatcher thread accepts *)
(* (core_accept), queues the connection for a worker and writes a byte to  *)
(* the worker's notify pipe (thread_dispatch); the worker reads the byte   *)
(* and takes a connection off its queue (thread_libevent_process).  Out of *)
(* descriptors, the dispatcher stops listening; a worker that closes a     *)
(* connection starts it again (conn_close).  A connection is named by its  *)
(* socket descriptor.                                                      *)
(***************************************************************************)
EXTENDS Integers, Sequences, FiniteSets

CONSTANTS
    num_workers,    \* settings.num_workers
    maxconns,       \* descriptors the process has for connections
    MaxPending,     \* bound: clients in the backlog of the listening socket
    MaxNotify,      \* bound: no read of a pipe with more bytes than this fails
    Faults          \* faults of the environment that may occur

ASSUME ListenAssumption ==
    /\ num_workers \in Nat \ {0}
    /\ maxconns \in Nat
    /\ MaxPending \in Nat
    /\ MaxNotify \in Nat
    /\ Faults \subseteq {"nonblock", "malloc", "pipe", "read", "event"}

Worker == 0..(num_workers - 1)
Fd     == 1..maxconns
NoFd   == 0

VARIABLES
    pending,        \* clients waiting to be accepted
    open,           \* descriptors in use
    accepting,      \* the listening socket's event is registered
    dispatcher,     \* where the dispatcher thread is, and its sd
    last_thread,
    new_cq,         \* per worker, the queue of new connections
    notify,         \* per worker, bytes in the notify pipe
    serving,        \* per worker, the connections with a registered event
    worker          \* per worker, where it is

vars == <<pending, open, accepting, dispatcher, last_thread, new_cq, notify,
          serving, worker>>

Init ==
    /\ pending = 0
    /\ open = {}
    /\ accepting = TRUE
    /\ dispatcher = [at |-> "idle", sd |-> NoFd]
    /\ last_thread = -1
    /\ new_cq = [t \in Worker |-> << >>]
    /\ notify = [t \in Worker |-> 0]
    /\ serving = [t \in Worker |-> {}]
    /\ worker = [t \in Worker |-> "idle"]

Free == Fd \ open

\* A client connects.
connect ==
    /\ pending < MaxPending
    /\ pending' = pending + 1
    /\ UNCHANGED <<open, accepting, dispatcher, last_thread, new_cq, notify, serving, worker>>

-----------------------------------------------------------------------------
(***************************************************************************)
(* The dispatcher thread.                                                  *)
(***************************************************************************)

\* accept returns the lowest free descriptor; if the socket cannot be made
\* non-blocking it is closed again.
core_accept ==
    /\ dispatcher.at = "idle" /\ accepting /\ pending > 0
    /\ Free # {}
    /\ pending' = pending - 1
    /\ \/ LET sd == CHOOSE x \in Free : \A y \in Free : x <= y
          IN  /\ dispatcher' = [at |-> "dispatch", sd |-> sd]
              /\ open' = open \cup {sd}
       \/ "nonblock" \in Faults /\ UNCHANGED <<dispatcher, open>>
    /\ UNCHANGED <<accepting, last_thread, new_cq, notify, serving, worker>>

\* accept fails with EMFILE.
core_accept_emfile ==
    /\ dispatcher.at = "idle" /\ accepting /\ pending > 0
    /\ Free = {}
    /\ dispatcher' = [dispatcher EXCEPT !.at = "emfile"]
    /\ UNCHANGED <<pending, open, accepting, last_thread, new_cq, notify, serving, worker>>

\* core_accept_conns(false), under accept_lock.
core_accept_stop ==
    /\ dispatcher.at = "emfile"
    /\ accepting' = FALSE
    /\ dispatcher' = [dispatcher EXCEPT !.at = "idle"]
    /\ UNCHANGED <<pending, open, last_thread, new_cq, notify, serving, worker>>

\* Mutant: the worker is notified before the connection is in its queue.
thread_dispatch_bug ==
    LET tid == (last_thread + 1) % num_workers
    IN  \/ /\ dispatcher.at = "dispatch"
           /\ dispatcher' = [dispatcher EXCEPT !.at = "push"]
           /\ last_thread' = tid
           /\ notify' = [notify EXCEPT ![tid] = @ + 1]
           /\ UNCHANGED <<pending, open, accepting, new_cq, serving, worker>>
        \/ /\ dispatcher.at = "push"
           /\ new_cq' = [new_cq EXCEPT ![last_thread] = Append(@, dispatcher.sd)]
           /\ dispatcher' = [at |-> "idle", sd |-> NoFd]
           /\ UNCHANGED <<pending, open, accepting, last_thread, notify, serving, worker>>

\* The next worker in turn gets the connection; without memory for it the
\* socket is closed.
thread_dispatch ==
    /\ dispatcher.at = "dispatch"
    /\ LET tid == (last_thread + 1) % num_workers
       IN  \/ /\ new_cq' = [new_cq EXCEPT ![tid] = Append(@, dispatcher.sd)]
              /\ last_thread' = tid
              /\ dispatcher' = [dispatcher EXCEPT !.at = "notify"]
              /\ UNCHANGED open
           \/ /\ "malloc" \in Faults        \* conn_get returns NULL
              /\ open' = open \ {dispatcher.sd}
              /\ dispatcher' = [at |-> "idle", sd |-> NoFd]
              /\ UNCHANGED <<new_cq, last_thread>>
    /\ UNCHANGED <<pending, accepting, notify, serving, worker>>

\* The byte is written; if that fails core_accept closes the socket.
thread_dispatch_notify ==
    /\ dispatcher.at = "notify"
    /\ \/ /\ notify' = [notify EXCEPT ![last_thread] = @ + 1]
          /\ UNCHANGED open
       \/ /\ "pipe" \in Faults
          /\ open' = open \ {dispatcher.sd}
          /\ UNCHANGED notify
    /\ dispatcher' = [at |-> "idle", sd |-> NoFd]
    /\ UNCHANGED <<pending, accepting, last_thread, new_cq, serving, worker>>

-----------------------------------------------------------------------------
(***************************************************************************)
(* A worker thread.                                                        *)
(***************************************************************************)

\* Mutant: one byte stands for all connections in the queue.
thread_libevent_process_bug(t) ==
    /\ worker[t] = "idle" /\ notify[t] > 0
    /\ notify' = [notify EXCEPT ![t] = 0]
    /\ worker' = [worker EXCEPT ![t] = "pop"]
    /\ UNCHANGED <<pending, open, accepting, dispatcher, last_thread, new_cq, serving>>

\* The notify pipe is readable: read a byte.  A failure to do so is ignored.
thread_libevent_process(t) ==
    /\ worker[t] = "idle" /\ notify[t] > 0
    /\ \/ notify' = [notify EXCEPT ![t] = @ - 1]
       \/ "read" \in Faults /\ notify[t] <= MaxNotify /\ UNCHANGED notify
    /\ worker' = [worker EXCEPT ![t] = "pop"]
    /\ UNCHANGED <<pending, open, accepting, dispatcher, last_thread, new_cq, serving>>

\* conn_cq_pop, and the event of the connection; if that cannot be registered
\* the socket is closed.
conn_cq_pop(t) ==
    /\ worker[t] = "pop"
    /\ worker' = [worker EXCEPT ![t] = "idle"]
    /\ \/ /\ new_cq[t] = << >>
          /\ UNCHANGED <<new_cq, serving, open>>
       \/ /\ new_cq[t] # << >>
          /\ new_cq' = [new_cq EXCEPT ![t] = Tail(@)]
          /\ \/ /\ serving' = [serving EXCEPT ![t] = @ \cup {Head(new_cq[t])}]
                /\ UNCHANGED open
             \/ /\ "event" \in Faults
                /\ open' = open \ {Head(new_cq[t])}
                /\ UNCHANGED serving
    /\ UNCHANGED <<pending, accepting, dispatcher, last_thread, notify>>

\* Mutant: the socket is closed while the event is still registered.
conn_close_bug(t) ==
    \E sd \in serving[t] :
        /\ worker[t] = "idle"
        /\ open' = open \ {sd}
        /\ worker' = [worker EXCEPT ![t] = "close"]
        /\ UNCHANGED <<pending, accepting, dispatcher, last_thread, new_cq, notify, serving>>

\* The connection ends: its event is deleted and its socket closed.
conn_close(t) ==
    \E sd \in serving[t] :
        /\ worker[t] = "idle"
        /\ serving' = [serving EXCEPT ![t] = @ \ {sd}]
        /\ open' = open \ {sd}
        /\ worker' = [worker EXCEPT ![t] = "close"]
        /\ UNCHANGED <<pending, accepting, dispatcher, last_thread, new_cq, notify>>

\* core_accept_conns(true), under accept_lock.
conn_close_accept(t) ==
    /\ worker[t] = "close"
    /\ accepting' = TRUE
    /\ worker' = [worker EXCEPT ![t] = "idle"]
    /\ UNCHANGED <<pending, open, dispatcher, last_thread, new_cq, notify, serving>>

Dispatch == \/ core_accept \/ core_accept_emfile \/ core_accept_stop
            \/ thread_dispatch \/ thread_dispatch_notify

Work(t) == \/ thread_libevent_process(t) \/ conn_cq_pop(t) \/ conn_close_accept(t)

Next ==
    \/ connect
    \/ Dispatch
    \/ \E t \in Worker : Work(t) \/ conn_close(t)

\* Threads go on with what they have to do, and libevent reports a readable
\* pipe or socket in the end.  No client need ever connect or go away.
Fairness ==
    /\ WF_vars(Dispatch)
    /\ \A t \in Worker : WF_vars(Work(t))

Spec == Init /\ [][Next]_vars /\ Fairness

-----------------------------------------------------------------------------
At == {"idle", "emfile", "dispatch", "notify"}

\* The variables have their types.
TypeOK ==
    /\ pending \in 0..MaxPending
    /\ open \subseteq Fd
    /\ accepting \in BOOLEAN
    /\ dispatcher \in [at : At, sd : Fd \cup {NoFd}]
    /\ last_thread \in -1..(num_workers - 1)
    /\ new_cq \in [Worker -> Seq(Fd)]
    /\ notify \in [Worker -> Nat]
    /\ serving \in [Worker -> SUBSET Fd]
    /\ worker \in [Worker -> {"idle", "pop", "close"}]

\* Where a connection with descriptor sd is: places of the queues, worker
\* threads that serve it, and the dispatcher before it has queued it.
Owners(sd) ==
    (UNION {{<<t, i>> : i \in {j \in DOMAIN new_cq[t] : new_cq[t][j] = sd}} : t \in Worker})
    \cup {<<t, 0>> : t \in {u \in Worker : sd \in serving[u]}}
    \cup (IF dispatcher = [at |-> "dispatch", sd |-> sd] THEN {<<-1, 0>>} ELSE {})

\* Every open descriptor belongs to exactly one connection, and no connection
\* has a descriptor that is closed: reuse of a descriptor the moment it is
\* closed never makes two threads work on one socket.
SocketsOwned ==
    /\ TypeOK
    /\ \A sd \in Fd : Cardinality(Owners(sd)) = IF sd \in open THEN 1 ELSE 0

\* No wakeup is lost: a worker has a byte to read, or to act on, for every
\* connection in its queue but the one the dispatcher is about to notify.
Notified ==
    \A t \in Worker :
        Len(new_cq[t]) <= notify[t] + (IF worker[t] = "pop" THEN 1 ELSE 0)
                          + (IF dispatcher.at = "notify" /\ last_thread = t THEN 1 ELSE 0)

\* Every connection that was queued is taken by its worker.
Served ==
    \A t \in Worker, sd \in Fd :
        (\E i \in DOMAIN new_cq[t] : new_cq[t][i] = sd)
            ~> ~(\E i \in DOMAIN new_cq[t] : new_cq[t][i] = sd)
=============================================================================
