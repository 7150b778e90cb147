------------------------------ MODULE Framing -------------------------------
(***************************************************************************)
(* One TCP connection between its client and the worker thread that serves *)
(* it: core_drive_machine cuts the stream of bytes into requests and puts  *)
(* the replies on the socket.  A unit stands for a run of bytes of a       *)
(* request line or of a data block; the unit with the newline ends either. *)
(* What a request does to the cache is in Cache; here it only matters      *)
(* which reply it has and how many units of data follow its line.          *)
(***************************************************************************)
EXTENDS Integers, Sequences, FiniteSets

CONSTANTS
    Scripts,            \* the sequences of requests a client may send
    TCP_BUFFER_SIZE,    \* in units
    RSIZE_HIGHWAT,
    MAX_LINE,           \* the longest line without newline, unless it is a get
    MAX_ALLOCS,         \* doublings of the read buffer in one core_read_tcp
    reqs_per_event,     \* settings.reqs_per_event
    SndBuf,             \* bound: parts of replies the socket holds
    MaxHits,            \* bound: values in the reply to a get
    Faults

\* A request: its type, the units of its line, those of its data block with
\* the CRLF, whether it says noreply, and whether its line is accepted.  Only
\* those that store have data, and only some can say noreply.
RequestLine ==
    {r \in [type : {"get", "store", "delete", "stats", "quit"}, line : Nat \ {0},
            data : Nat, noreply : BOOLEAN, good : BOOLEAN] :
        /\ r.data > 0 => r.type = "store"
        /\ r.noreply => r.type \in {"store", "delete"}}

ASSUME FramingAssumption ==
    /\ Scripts \subseteq Seq(RequestLine)
    /\ {TCP_BUFFER_SIZE, RSIZE_HIGHWAT, MAX_LINE, reqs_per_event, SndBuf} \subseteq Nat \ {0}
    /\ {MAX_ALLOCS, MaxHits} \subseteq Nat
    /\ Faults \subseteq {"realloc", "oom", "iov", "io", "event"}

VARIABLES
    sent,           \* the requests the client sends
    stream,         \* their units
    arrived,        \* units that have reached the server's socket
    eof,            \* the client sends no more
    rd,             \* units the server has read
    unread,         \* parts of replies the client has not read yet
    c,              \* struct conn
    loop,           \* the locals of core_drive_machine and core_read_tcp
    replies,        \* history: the parts of replies put on the socket
    log             \* history: what became of the requests

vars == <<sent, stream, arrived, eof, rd, unread, c, loop, replies, log>>

\* The i-th unit of request k.
Unit(k, r, i) ==
    [req |-> k, first |-> i = 1, get |-> i = 1 /\ r.type = "get",
     nl |-> i \in {r.line, r.line + r.data}]

\* Where the k-th of the requests ends in the stream: after all the units of
\* those up to it.
Units(reqs, k) == UNION {{j} \X (1..(reqs[j].line + reqs[j].data)) : j \in 1..k}
End(reqs, k) == Cardinality(Units(reqs, k))

\* What the client sends: the requests one after the other.
Stream(reqs) ==
    [p \in 1..End(reqs, Len(reqs)) |->
        LET k == CHOOSE k \in DOMAIN reqs : p \in (End(reqs, k - 1) + 1)..End(reqs, k)
        IN  Unit(k, reqs[k], p - End(reqs, k - 1))]

conn_get ==
    [state |-> "CONN_NEW_CMD", ev_flags |-> "EV_READ", registered |-> TRUE,
     rsize |-> TCP_BUFFER_SIZE, rcurr |-> 0, rbytes |-> 0, rlbytes |-> 0, sbytes |-> 0,
     noreply |-> FALSE, write_and_go |-> "CONN_NEW_CMD", msg_used |-> 0, iov_used |-> 0,
     msg |-> << >>, wbuf |-> 0]

Stopped == [active |-> FALSE, nreqs |-> 0, num_allocs |-> 0, gotdata |-> FALSE]

Init ==
    /\ sent \in Scripts
    /\ stream = Stream(sent)
    /\ arrived = 0 /\ eof = FALSE /\ rd = 0 /\ unread = 0
    /\ c = conn_get
    /\ loop = Stopped
    /\ replies = << >>
    /\ log = [handled |-> 0, missed |-> {}, oom |-> {}, cut |-> {}]

-----------------------------------------------------------------------------
(***************************************************************************)
(* The client and the network.                                             *)
(***************************************************************************)

deliver ==
    /\ ~eof /\ arrived < Len(stream)
    /\ \E n \in (arrived + 1)..Len(stream) : arrived' = n
    /\ UNCHANGED <<sent, stream, eof, rd, unread, c, loop, replies, log>>

client_shutdown ==
    /\ ~eof
    /\ eof' = TRUE
    /\ UNCHANGED <<sent, stream, arrived, rd, unread, c, loop, replies, log>>

client_read ==
    /\ unread > 0
    /\ unread' = 0
    /\ UNCHANGED <<sent, stream, arrived, eof, rd, c, loop, replies, log>>

-----------------------------------------------------------------------------
(***************************************************************************)
(* Helpers that work on the connection x.                                  *)
(***************************************************************************)

In(state) == loop.active /\ c.state = state

\* The reply of request k is put in wbuf, unless it said noreply.
asc_write_string_bug(x, k) ==
    IF x.noreply
    THEN [x EXCEPT !.state = "CONN_NEW_CMD"]
    ELSE [x EXCEPT !.wbuf = k, !.state = "CONN_WRITE", !.write_and_go = "CONN_NEW_CMD"]
asc_write_string(x, k) ==
    IF x.noreply
    THEN [x EXCEPT !.noreply = FALSE, !.state = "CONN_NEW_CMD"]
    ELSE [x EXCEPT !.wbuf = k, !.state = "CONN_WRITE", !.write_and_go = "CONN_NEW_CMD"]

\* stats replies are written from a buffer of their own, whatever noreply is.
core_write_and_free(x, k) ==
    [x EXCEPT !.wbuf = k, !.state = "CONN_WRITE", !.write_and_go = "CONN_NEW_CMD"]

\* Registers the connection for other events: the results it can have.
core_update(x, flags) ==
    {[ok |-> TRUE, conn |-> [x EXCEPT !.ev_flags = flags]]}
    \cup IF x.ev_flags # flags /\ "event" \in Faults
         THEN {[ok |-> FALSE, conn |-> x],
               [ok |-> FALSE, conn |-> [x EXCEPT !.ev_flags = flags, !.registered = FALSE]]}
         ELSE {}

\* n buffered units are used up.
Consume(x, n) == [x EXCEPT !.rcurr = @ + n, !.rbytes = @ - n]

\* A large read buffer is given back, if what it holds fits the small one.
conn_shrink_bug(x) ==
    IF x.rsize > RSIZE_HIGHWAT
    THEN [x EXCEPT !.rsize = TCP_BUFFER_SIZE, !.rcurr = 0]
    ELSE x
conn_shrink(x) ==
    IF x.rsize > RSIZE_HIGHWAT /\ x.rbytes < TCP_BUFFER_SIZE
    THEN [x EXCEPT !.rsize = TCP_BUFFER_SIZE, !.rcurr = 0]
    ELSE x

core_reset_cmd_handler(x) ==
    [conn_shrink(x) EXCEPT !.state = IF x.rbytes > 0 THEN "CONN_PARSE" ELSE "CONN_WAIT"]

\* The thread goes on in the state machine, or stops until the next event.
GoOn(x) == c' = x /\ UNCHANGED loop
Stop(x) == c' = x /\ loop' = Stopped

\* Needs other events; stops when they are registered.
StopFor(x, flags, next) ==
    \E u \in core_update(x, flags) :
        IF u.ok THEN Stop([u.conn EXCEPT !.state = next])
        ELSE GoOn([u.conn EXCEPT !.state = "CONN_CLOSE"])

Least(m, n) == IF m <= n THEN m ELSE n

\* What read(2) gives for up to size units.
Avail == arrived - rd
ReadSize(size) == Least(size, Avail)

-----------------------------------------------------------------------------
(***************************************************************************)
(* core_drive_machine, one action per state or way through it.             *)
(***************************************************************************)

core_event_handler ==
    /\ ~loop.active /\ c.registered /\ c.state \notin {"CLOSED", "ABORTED"}
    /\ IF c.ev_flags = "EV_READ" THEN Avail > 0 \/ eof ELSE unread < SndBuf
    /\ loop' = [Stopped EXCEPT !.active = TRUE, !.nreqs = reqs_per_event]
    /\ UNCHANGED <<sent, stream, arrived, eof, rd, unread, c, replies, log>>

conn_wait ==
    /\ In("CONN_WAIT")
    /\ StopFor(c, "EV_READ", "CONN_READ")
    /\ UNCHANGED <<sent, stream, arrived, eof, rd, unread, replies, log>>

\* The end of core_read.
ReadReturns(x, next) ==
    /\ c' = [x EXCEPT !.state = next]
    /\ loop' = [loop EXCEPT !.num_allocs = 0, !.gotdata = FALSE]

\* One round of the loop of core_read_tcp: a buffer that is full is doubled;
\* a read that fills it is followed by another one.
core_read_tcp ==
    /\ In("CONN_READ")
    /\ c.rbytes < c.rsize \/ loop.num_allocs < MAX_ALLOCS
    /\ LET grow == c.rbytes >= c.rsize
           size == (IF grow THEN 2 * c.rsize ELSE c.rsize) - c.rbytes
           n    == ReadSize(size)
           x    == [c EXCEPT !.rcurr = 0, !.rsize = size + c.rbytes, !.rbytes = @ + n]
       IN  /\ rd' = rd + n
           /\ IF n > 0 /\ n = size
              THEN /\ c' = x
                   /\ loop' = [loop EXCEPT !.gotdata = TRUE,
                                           !.num_allocs = IF grow THEN @ + 1 ELSE @]
              ELSE \/ /\ n = 0 => ~eof
                      /\ ReadReturns(x, IF n > 0 \/ loop.gotdata THEN "CONN_PARSE" ELSE "CONN_WAIT")
                   \/ /\ n = 0 /\ (eof \/ "io" \in Faults)
                      /\ ReadReturns(x, "CONN_CLOSE")
    /\ UNCHANGED <<sent, stream, arrived, eof, unread, replies, log>>

\* The buffer was doubled often enough.
core_read_limit ==
    /\ In("CONN_READ")
    /\ c.rbytes >= c.rsize /\ loop.num_allocs = MAX_ALLOCS
    /\ ReadReturns([c EXCEPT !.rcurr = 0], IF loop.gotdata THEN "CONN_PARSE" ELSE "CONN_WAIT")
    /\ UNCHANGED <<sent, stream, arrived, eof, rd, unread, replies, log>>

\* The buffer cannot be doubled: READ_MEMORY_ERROR.
core_read_nomem ==
    /\ In("CONN_READ")
    /\ c.rbytes >= c.rsize /\ loop.num_allocs < MAX_ALLOCS
    /\ "realloc" \in Faults
    /\ LET x == asc_write_string([c EXCEPT !.rcurr = 0, !.rbytes = 0], 0)
       IN  ReadReturns([x EXCEPT !.write_and_go = "CONN_CLOSE"], x.state)
    /\ UNCHANGED <<sent, stream, arrived, eof, rd, unread, replies, log>>

-----------------------------------------------------------------------------
(***************************************************************************)
(* asc_parse and asc_dispatch.                                             *)
(***************************************************************************)

Curr     == rd - c.rbytes + 1
Newlines == {i \in Curr..rd : stream[i].nl}
FirstNewline == CHOOSE i \in Newlines : \A j \in Newlines : i <= j

\* No newline yet: more has to be read, and only a get may be that long.
asc_parse_eagain ==
    /\ In("CONN_PARSE")
    /\ Newlines = {}
    /\ GoOn([c EXCEPT !.state = IF c.rbytes > MAX_LINE /\ ~stream[Curr].get
                                THEN "CONN_CLOSE" ELSE "CONN_WAIT"])
    /\ UNCHANGED <<sent, stream, arrived, eof, rd, unread, replies, log>>

\* The connection as the handler of the request finds it and leaves rcurr.
Dispatched ==
    [Consume(c, FirstNewline - Curr + 1) EXCEPT !.msg_used = 1, !.iov_used = 0, !.msg = << >>]

\* The parser is at the line of request k, of one of these types.
AtLine(k, types) ==
    /\ In("CONN_PARSE")
    /\ Newlines # {}
    /\ stream[Curr].first
    /\ k = stream[Curr].req
    /\ sent[k].type \in types

\* The tokens of the line are as many as they should be and in range.
Accepted(k) == sent[k].good

asc_set_noreply_maybe(x, k) == [x EXCEPT !.noreply = @ \/ sent[k].noreply]

Handled(k) == [log EXCEPT !.handled = k]

\* A get has found h items; their values are in msg.  It goes on with END,
\* or with an error: no memory for END, a bad line, a later key that is too long.
asc_process_read ==
    \E k \in DOMAIN sent, h \in 0..MaxHits :
        /\ AtLine(k, {"get"})
        /\ LET part(last) == [req |-> k, last |-> last]
               values == [i \in 1..h |-> part(FALSE)]
           IN  \/ /\ Accepted(k)
                  /\ GoOn([Dispatched EXCEPT !.msg = Append(values, part(TRUE)),
                                             !.iov_used = h + 1, !.state = "CONN_MWRITE"])
                  /\ log' = Handled(k)
               \/ /\ Accepted(k) => "iov" \in Faults /\ h > 0
                  /\ GoOn(asc_write_string([Dispatched EXCEPT !.msg = values, !.iov_used = h], k))
                  /\ log' = [Handled(k) EXCEPT !.cut = IF h > 0 THEN @ \cup {k} ELSE @]
        /\ UNCHANGED <<sent, stream, arrived, eof, rd, unread, replies>>

\* set, add, replace, cas, append, ...: the data is read next, into an item.
store_data(x, k) == [x EXCEPT !.rlbytes = sent[k].data, !.state = "CONN_NREAD"]

\* No memory for the item: the data is swallowed once the error is written.
store_oom_bug(x, k) ==
    [asc_write_string(x, k) EXCEPT !.write_and_go = "CONN_SWALLOW", !.sbytes = sent[k].data - 1]
store_oom(x, k) ==
    [asc_write_string(x, k) EXCEPT !.write_and_go = "CONN_SWALLOW", !.sbytes = sent[k].data]

asc_process_update ==
    \E k \in DOMAIN sent :
        /\ AtLine(k, {"store"})
        /\ LET x == asc_set_noreply_maybe(Dispatched, k)
           IN  \/ /\ ~Accepted(k)
                  /\ GoOn(asc_write_string(x, k)) /\ log' = Handled(k)
               \/ /\ Accepted(k)
                  /\ GoOn(store_data(x, k)) /\ log' = Handled(k)
               \/ /\ Accepted(k) /\ "oom" \in Faults
                  /\ GoOn(store_oom(x, k)) /\ log' = [Handled(k) EXCEPT !.oom = @ \cup {k}]
        /\ UNCHANGED <<sent, stream, arrived, eof, rd, unread, replies>>

\* delete, incr, flush_all, version, config, ...: one line, one reply.
asc_process_delete ==
    \E k \in DOMAIN sent :
        /\ AtLine(k, {"delete"})
        /\ GoOn(asc_write_string(asc_set_noreply_maybe(Dispatched, k), k))
        /\ log' = Handled(k)
        /\ UNCHANGED <<sent, stream, arrived, eof, rd, unread, replies>>

asc_process_stats ==
    \E k \in DOMAIN sent :
        /\ AtLine(k, {"stats"})
        /\ \/ Accepted(k) /\ GoOn(core_write_and_free(Dispatched, k))
           \/ ~Accepted(k) /\ GoOn(asc_write_string(Dispatched, k))
        /\ log' = Handled(k)
        /\ UNCHANGED <<sent, stream, arrived, eof, rd, unread, replies>>

asc_process_quit ==
    \E k \in DOMAIN sent :
        /\ AtLine(k, {"quit"})
        /\ GoOn([Dispatched EXCEPT !.state = "CONN_CLOSE"])
        /\ log' = Handled(k)
        /\ UNCHANGED <<sent, stream, arrived, eof, rd, unread, replies>>

\* Anything else is taken for a command nobody knows: here, a data block.
asc_process_unknown ==
    /\ In("CONN_PARSE")
    /\ Newlines # {}
    /\ ~stream[Curr].first
    /\ GoOn(asc_write_string(Dispatched, 0))
    /\ log' = [log EXCEPT !.missed = @ \cup {stream[Curr].req}]
    /\ UNCHANGED <<sent, stream, arrived, eof, rd, unread, replies>>

-----------------------------------------------------------------------------
(***************************************************************************)
(* The other states.                                                       *)
(***************************************************************************)

conn_new_cmd ==
    /\ In("CONN_NEW_CMD")
    /\ loop.nreqs > 0
    /\ c' = core_reset_cmd_handler(c)
    /\ loop' = [loop EXCEPT !.nreqs = @ - 1]
    /\ UNCHANGED <<sent, stream, arrived, eof, rd, unread, replies, log>>

\* Enough requests for this event.  If others are in the buffer the thread
\* waits until it can write.
conn_yield_bug ==
    /\ In("CONN_NEW_CMD")
    /\ loop.nreqs = 0
    /\ Stop(c)
    /\ UNCHANGED <<sent, stream, arrived, eof, rd, unread, replies, log>>
conn_yield ==
    /\ In("CONN_NEW_CMD")
    /\ loop.nreqs = 0
    /\ IF c.rbytes = 0
       THEN Stop(c)
       ELSE \E u \in core_update(c, "EV_WRITE") :
                Stop(IF u.ok THEN u.conn ELSE [u.conn EXCEPT !.state = "CONN_CLOSE"])
    /\ UNCHANGED <<sent, stream, arrived, eof, rd, unread, replies, log>>

\* The request the data being read belongs to.
Current == log.handled

\* All the data is there: the item is stored or not, there is one reply.
core_complete_nread ==
    /\ In("CONN_NREAD")
    /\ c.rlbytes = 0
    /\ GoOn(asc_write_string(c, Current))
    /\ UNCHANGED <<sent, stream, arrived, eof, rd, unread, replies, log>>

\* Data is taken from the buffer, and if that is not enough from the socket.
conn_nread ==
    /\ In("CONN_NREAD")
    /\ c.rlbytes > 0
    /\ LET tocopy == Least(c.rbytes, c.rlbytes)
           x      == [Consume(c, tocopy) EXCEPT !.rlbytes = @ - tocopy]
           n      == ReadSize(x.rlbytes)
       IN  IF x.rlbytes = 0
           THEN GoOn(x) /\ UNCHANGED rd
           ELSE \/ /\ n > 0
                   /\ rd' = rd + n
                   /\ GoOn([x EXCEPT !.rlbytes = @ - n])
                \/ /\ n = 0 /\ ~eof
                   /\ StopFor(x, "EV_READ", "CONN_NREAD")
                   /\ UNCHANGED rd
                \/ /\ n = 0 /\ (eof \/ "io" \in Faults)
                   /\ GoOn([x EXCEPT !.state = "CONN_CLOSE"])
                   /\ UNCHANGED rd
    /\ UNCHANGED <<sent, stream, arrived, eof, unread, replies, log>>

conn_swallow_end ==
    /\ In("CONN_SWALLOW")
    /\ c.sbytes = 0
    /\ GoOn([c EXCEPT !.state = "CONN_NEW_CMD"])
    /\ UNCHANGED <<sent, stream, arrived, eof, rd, unread, replies, log>>

\* Data is thrown away: what is buffered first.
conn_swallow_buffered ==
    /\ In("CONN_SWALLOW")
    /\ c.sbytes > 0 /\ c.rbytes > 0
    /\ LET tocopy == Least(c.rbytes, c.sbytes)
       IN  GoOn([Consume(c, tocopy) EXCEPT !.sbytes = @ - tocopy])
    /\ UNCHANGED <<sent, stream, arrived, eof, rd, unread, replies, log>>

conn_swallow ==
    /\ In("CONN_SWALLOW")
    /\ c.sbytes > 0 /\ c.rbytes = 0
    /\ LET n == ReadSize(Least(c.rsize, c.sbytes))
       IN  \/ /\ n > 0
              /\ rd' = rd + n
              /\ GoOn([c EXCEPT !.sbytes = @ - n])
           \/ /\ n = 0 /\ ~eof
              /\ StopFor(c, "EV_READ", "CONN_SWALLOW")
              /\ UNCHANGED rd
           \/ /\ n = 0 /\ (eof \/ "io" \in Faults)
              /\ GoOn([c EXCEPT !.state = "CONN_CLOSE"])
              /\ UNCHANGED rd
    /\ UNCHANGED <<sent, stream, arrived, eof, unread, replies, log>>

\* wbuf becomes the message, unless there is one already.
conn_add_iov(x) ==
    [x EXCEPT !.msg = <<[req |-> x.wbuf, last |-> TRUE]>>, !.iov_used = 1]
Message ==
    IF c.state = "CONN_WRITE" /\ c.iov_used = 0 THEN conn_add_iov(c) ELSE c

Writing == loop.active /\ c.state \in {"CONN_WRITE", "CONN_MWRITE"}

\* conn_add_iov finds no msghdr: its assertion fails.
conn_add_iov_assert ==
    /\ In("CONN_WRITE")
    /\ c.iov_used = 0 /\ c.msg_used = 0
    /\ Stop([c EXCEPT !.state = "ABORTED"])
    /\ UNCHANGED <<sent, stream, arrived, eof, rd, unread, replies, log>>

\* sendmsg takes what the socket has room for.
core_transmit ==
    /\ Writing /\ c.msg_used > 0
    /\ Message.msg # << >>
    /\ LET n == Least(Len(Message.msg), SndBuf - unread)
       IN  \/ /\ n > 0
              /\ GoOn([Message EXCEPT !.msg = SubSeq(@, n + 1, Len(@))])
              /\ replies' = replies \o SubSeq(Message.msg, 1, n)
              /\ unread' = unread + n
           \/ /\ n = 0
              /\ StopFor(Message, "EV_WRITE", c.state)
              /\ UNCHANGED <<replies, unread>>
           \/ /\ "io" \in Faults
              /\ GoOn([Message EXCEPT !.state = "CONN_CLOSE"])
              /\ UNCHANGED <<replies, unread>>
    /\ UNCHANGED <<sent, stream, arrived, eof, rd, log>>

core_transmit_complete ==
    /\ Writing
    /\ Message.msg = << >>
    /\ GoOn([c EXCEPT !.state = IF @ = "CONN_MWRITE" THEN "CONN_NEW_CMD" ELSE c.write_and_go])
    /\ UNCHANGED <<sent, stream, arrived, eof, rd, unread, replies, log>>

core_close ==
    /\ In("CONN_CLOSE")
    /\ Stop([c EXCEPT !.state = "CLOSED"])
    /\ UNCHANGED <<sent, stream, arrived, eof, rd, unread, replies, log>>

core_parse ==
    \/ asc_parse_eagain
    \/ asc_process_read \/ asc_process_update \/ asc_process_delete
    \/ asc_process_stats \/ asc_process_quit \/ asc_process_unknown

core_drive_machine ==
    \/ core_event_handler
    \/ conn_wait
    \/ core_read_tcp \/ core_read_limit \/ core_read_nomem
    \/ core_parse
    \/ conn_new_cmd \/ conn_yield
    \/ core_complete_nread \/ conn_nread
    \/ conn_swallow_end \/ conn_swallow_buffered \/ conn_swallow
    \/ conn_add_iov_assert \/ core_transmit \/ core_transmit_complete
    \/ core_close

Next == deliver \/ client_shutdown \/ client_read \/ core_drive_machine

\* The network delivers, the client reads what it is sent, and the thread
\* runs and gets its events.
Fairness ==
    /\ WF_vars(deliver)
    /\ WF_vars(client_read)
    /\ WF_vars(core_drive_machine)

Spec == Init /\ [][Next]_vars /\ Fairness

-----------------------------------------------------------------------------
\* The values of the connection's fields: counts of units never go below
\* zero, which the code keeps in ints.
TypeOK ==
    /\ c \in [state : {"CONN_WAIT", "CONN_READ", "CONN_PARSE", "CONN_NEW_CMD", "CONN_NREAD",
                       "CONN_SWALLOW", "CONN_WRITE", "CONN_MWRITE", "CONN_CLOSE", "CLOSED",
                       "ABORTED"},
              ev_flags : {"EV_READ", "EV_WRITE"}, registered : BOOLEAN,
              rsize : Nat, rcurr : Nat, rbytes : Nat, rlbytes : Nat, sbytes : Nat,
              noreply : BOOLEAN,
              write_and_go : {"CONN_NEW_CMD", "CONN_SWALLOW", "CONN_CLOSE"},
              msg_used : {0, 1}, iov_used : Nat,
              msg : Seq([req : Nat, last : BOOLEAN]), wbuf : Nat]
    /\ loop \in [active : BOOLEAN, nreqs : Nat, num_allocs : 0..MAX_ALLOCS, gotdata : BOOLEAN]
    /\ arrived \in 0..Len(stream) /\ rd \in 0..arrived /\ c.rbytes <= rd
    /\ unread \in 0..SndBuf
    /\ log.handled \in 0..Len(sent)

\* What is buffered lies within the read buffer, through reads, consumption
\* by the three readers, doubling and shrinking (the assertions of asc_parse
\* and core_read_tcp).
RbufBounds == TypeOK /\ c.rcurr + c.rbytes <= c.rsize

\* A data block is parsed as a command only if its line was refused, or if
\* its request said noreply and there was no memory.
InSync ==
    \A k \in log.missed : \/ ~sent[k].good
                          \/ k \in log.oom /\ sent[k].noreply

\* A data block is parsed as a command only if its line was refused: without
\* memory for the item, asc_process_update says, it is swallowed.
DataSwallowed == \A k \in log.missed : ~sent[k].good

\* The connection is between two requests: nothing is left to send.
AllSent == c.state \in {"CONN_NEW_CMD", "CONN_SWALLOW", "CONN_WAIT", "CONN_READ", "CONN_PARSE"}

\* Replies are in the order of the requests, with nothing of a reply after its
\* end; and between two requests each one handled so far has had its reply, and
\* those that said noreply none.  What ends the reply of a get that failed after
\* a hit is another matter (EndSent).
Owed(k) == ~sent[k].noreply /\ k \notin log.cut
Before(p, q) == p.req # 0 /\ q.req # 0 => p.req < q.req \/ (p.req = q.req /\ ~p.last)
Ended(parts) == {parts[i].req : i \in {j \in DOMAIN parts : parts[j].last}} \ {0}
Answered ==
    /\ \A i, j \in DOMAIN replies : i < j => Before(replies[i], replies[j])
    /\ AllSent => Ended(replies) \ log.cut = {k \in 1..log.handled : Owed(k)}

\* A get that runs out of memory after a hit ends in an error: it is not
\* reliable to add END, asc_process_read says, "So we send SERVER_ERROR instead".
EndSent ==
    AllSent => \A k \in log.cut : sent[k].good => k \in Ended(replies)

\* Whatever way the requests are cut up by the network, and however many
\* arrive at once, all of them are handled, or the connection is closed.
Done ==
    \/ c.state \in {"CLOSED", "ABORTED"}
    \/ log.handled = Len(sent) /\ rd = Len(stream) /\ c.rbytes = 0 /\ ~loop.active
Completed == <>Done
=============================================================================
