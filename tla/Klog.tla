-------------------------------- MODULE Klog --------------------------------
(***************************************************************************)
(* The command log (mc_klog.c): a worker thread writes entries into its    *)
(* circular buffer, the klogger thread drains the buffer into a file, and  *)
(* neither takes a lock: the worker moves w_idx only, the klogger r_idx    *)
(* only.  One buffer is modelled, as every worker has its own.             *)
(*                                                                         *)
(* The bytes a worker logs are numbered 1, 2, 3, ..., so that the contents *)
(* of buffer and file say which bytes they are.  Stores of one thread      *)
(* become visible in the order the thread makes them (x86).                *)
(***************************************************************************)
EXTENDS Integers, Sequences

CONSTANTS
    KLOG_ENTRY_SIZE,    \* longest entry, the final NUL included
    klog_entry,         \* settings.klog_entry, option -x
    KLOG_MAX_SIZE,      \* bytes after which the file is rotated
    SampleRate,         \* arguments of config klog sampling, and of -y
    EntryLen,           \* lengths klog_fmt may return, 0 if strftime fails
    Faults,             \* faults of the environment that may occur
    MaxByte,            \* bound on the bytes logged
    MaxFail             \* bound on the system calls that fail

ASSUME KlogAssumption ==
    /\ KLOG_ENTRY_SIZE \in Nat \ {0}
    /\ klog_entry \in Nat \ {0}         \* mc_get_options refuses others
    /\ KLOG_MAX_SIZE \in Nat
    /\ SampleRate \subseteq Nat \ {0}   \* asc_process_klog refuses others
    /\ EntryLen \subseteq 0..(KLOG_ENTRY_SIZE - 1)
    /\ Faults \subseteq {"short", "first", "second", "reopen"}
    /\ MaxByte \in Nat
    /\ MaxFail \in Nat

VARIABLES
    kbuf,       \* the struct kbuf: indices, bytes and sampling counter
    worker,     \* the worker thread: where it is, and the entry it composes
    klogger,    \* the klogger thread: where it is, and its local variables
    file,       \* the bytes written, in the file and its backups
    fd_open,    \* fd >= 0
    kfs,        \* size of the current file
    running,    \* settings.klog_running
    rate,       \* settings.klog_sampling_rate
    logged,     \* bytes in entries logged so far
    read,       \* of these, bytes that klog_read has moved r_idx past
    nfail

vars == <<kbuf, worker, klogger, file, fd_open, kfs, running, rate, logged,
          read, nfail>>

size == KLOG_ENTRY_SIZE * klog_entry
NUL  == 0

Index == 0..(size - 1)

Init ==
    /\ kbuf = [r_idx |-> 0, w_idx |-> 0, entries |-> 0, buf |-> [i \in Index |-> NUL]]
    /\ worker = [at |-> "idle", len |-> 0]
    /\ klogger = [at |-> "idle", w_idx |-> 0, ret |-> 0]
    /\ file = << >>
    /\ fd_open = TRUE
    /\ kfs = 0
    /\ running = TRUE
    /\ rate \in SampleRate
    /\ logged = 0
    /\ read = 0
    /\ nfail = 0

CIRCULAR_INCR(i, d) == (i + d) % size

-----------------------------------------------------------------------------
(***************************************************************************)
(* The worker thread: _klog_write.                                         *)
(***************************************************************************)

\* Mutant: two bytes are left free.
klog_remain_bug ==
    LET d == kbuf.r_idx - kbuf.w_idx
    IN  (IF d <= 0 THEN d + size ELSE d) - 2

\* Space for new bytes.  One byte is left free, as r_idx = w_idx means empty.
klog_remain ==
    LET d == kbuf.r_idx - kbuf.w_idx
    IN  (IF d <= 0 THEN d + size ELSE d) - 1

\* Mutant: any space at all is enough.
klog_write_bug ==
    /\ worker.at = "idle"
    /\ running
    /\ klog_remain > 0
    /\ \E n \in EntryLen : /\ logged + n <= MaxByte
                           /\ worker' = [at |-> "compose", len |-> n]
    /\ UNCHANGED <<kbuf, klogger, file, fd_open, kfs, running, rate, logged, read, nfail>>

\* The decision to log a command: logging is on, the command is sampled, and
\* any entry would fit.
klog_write ==
    /\ worker.at = "idle"
    /\ running
    /\ LET sampled == (kbuf.entries + 1) % rate = 0
       IN  /\ kbuf' = [kbuf EXCEPT !.entries = IF sampled THEN 0 ELSE @ + 1]
           /\ \/ /\ sampled
                 /\ klog_remain >= KLOG_ENTRY_SIZE
                 /\ \E n \in EntryLen : /\ logged + n <= MaxByte
                                        /\ worker' = [at |-> "compose", len |-> n]
              \/ /\ sampled => klog_remain < KLOG_ENTRY_SIZE    \* skip or discard
                 /\ UNCHANGED worker
    /\ UNCHANGED <<klogger, file, fd_open, kfs, running, rate, logged, read, nfail>>

\* The bytes of the entry: formatted in place, with a NUL behind them, if the
\* longest entry would not wrap around, else copied in one or two pieces.
klog_compose ==
    LET n      == worker.len
        w      == kbuf.w_idx
        direct == size - w >= KLOG_ENTRY_SIZE
    IN  /\ worker.at = "compose"
        /\ kbuf' = [kbuf EXCEPT !.buf = [j \in Index |->
                      LET i == CIRCULAR_INCR(j, size - w)   \* j is i behind w
                      IN  IF i < n THEN logged + 1 + i
                          ELSE IF i = n /\ direct THEN NUL
                          ELSE @[j]]]
        /\ worker' = [worker EXCEPT !.at = "publish"]
        /\ UNCHANGED <<klogger, file, fd_open, kfs, running, rate, logged, read, nfail>>

\* The entry is made visible to the klogger.
klog_publish ==
    /\ worker.at = "publish"
    /\ kbuf' = [kbuf EXCEPT !.w_idx = CIRCULAR_INCR(@, worker.len)]
    /\ logged' = logged + worker.len
    /\ worker' = [at |-> "idle", len |-> 0]
    /\ UNCHANGED <<klogger, file, fd_open, kfs, running, rate, read, nfail>>

-----------------------------------------------------------------------------
(***************************************************************************)
(* The klogger thread: _klog_collect and klog_read, at every timer event.  *)
(***************************************************************************)

\* Mutant: a buffer that wraps around is taken for an empty one.
klog_collect_bug ==
    /\ klogger.at = "idle"
    /\ running
    /\ kbuf.r_idx <= kbuf.w_idx
    /\ klogger' = [at |-> "first", w_idx |-> kbuf.w_idx, ret |-> 0]
    /\ UNCHANGED <<kbuf, worker, file, fd_open, kfs, running, rate, logged, read, nfail>>

\* A timer event: klog_read takes a copy of w_idx.
klog_collect ==
    /\ klogger.at = "idle"
    /\ running
    /\ klogger' = [at |-> "first", w_idx |-> kbuf.w_idx, ret |-> 0]
    /\ UNCHANGED <<kbuf, worker, file, fd_open, kfs, running, rate, logged, read, nfail>>

\* What the next call of write is given: where it starts and how many bytes.
Piece ==
    LET r == kbuf.r_idx
        w == klogger.w_idx
    IN  IF klogger.at = "second" THEN [from |-> 0, len |-> w]
        ELSE IF r <= w THEN [from |-> r, len |-> w - r]
        ELSE [from |-> r, len |-> size - r]

Wraps == kbuf.r_idx > klogger.w_idx

\* A write of n bytes succeeds; n is the whole piece unless the write is
\* short.  Without wrap-around nothing is written from an empty buffer.
klog_read_write ==
    LET p == Piece
    IN  \E n \in IF "short" \in Faults THEN 0..p.len ELSE {p.len} :
          /\ klogger.at \in {"first", "second"}
          /\ fd_open \/ p.len = 0
          /\ n = 0 => p.len = 0             \* write returns 0 for no bytes only
          /\ file' = file \o [i \in 1..n |-> kbuf.buf[p.from + i - 1]]
          /\ klogger' = [klogger EXCEPT
                           !.at = IF @ = "first" /\ Wraps /\ n = p.len
                                  THEN "second" ELSE "end",
                           !.ret = @ + n]
          /\ UNCHANGED <<kbuf, worker, fd_open, kfs, running, rate, logged, read, nfail>>

\* A write fails: r_idx stays.
klog_read_error ==
    /\ \/ klogger.at = "first" /\ "first" \in Faults
       \/ klogger.at = "second" /\ "second" \in Faults
       \/ klogger.at = "first" /\ ~fd_open
    /\ Piece.len > 0
    /\ fd_open => nfail < MaxFail
    /\ nfail' = IF fd_open THEN nfail + 1 ELSE nfail
    /\ klogger' = [klogger EXCEPT !.at = "idle"]
    /\ UNCHANGED <<kbuf, worker, file, fd_open, kfs, running, rate, logged, read>>

\* Mutant: r_idx moves up to the current w_idx.
klog_read_end_bug ==
    /\ klogger.at = "end"
    /\ kbuf' = [kbuf EXCEPT !.r_idx = kbuf.w_idx]
    /\ read' = read + klogger.ret
    /\ klogger' = [klogger EXCEPT !.at = "idle"]
    /\ UNCHANGED <<worker, file, fd_open, kfs, running, rate, logged, nfail>>

\* The writes are done: move r_idx, and rotate the file if it has become too
\* large; if it cannot be opened again the klogger is off.
klog_read_end ==
    /\ klogger.at = "end"
    /\ kbuf' = [kbuf EXCEPT !.r_idx = CIRCULAR_INCR(@, klogger.ret)]
    /\ read' = read + klogger.ret
    /\ klogger' = [klogger EXCEPT !.at = "idle"]
    /\ LET n == kfs + klogger.ret
       IN  /\ kfs' = IF n > KLOG_MAX_SIZE THEN 0 ELSE n
           /\ \/ /\ UNCHANGED <<fd_open, running, nfail>>
              \/ \* klog_reopen fails
                 /\ n > KLOG_MAX_SIZE /\ fd_open
                 /\ "reopen" \in Faults /\ nfail < MaxFail
                 /\ fd_open' = FALSE
                 /\ running' = FALSE
                 /\ nfail' = nfail + 1
    /\ UNCHANGED <<worker, file, rate, logged>>

\* config klog run start, config klog run stop and config klog sampling, from
\* any worker thread.
asc_process_klog ==
    /\ \/ running' \in BOOLEAN /\ UNCHANGED rate
       \/ rate' \in SampleRate /\ UNCHANGED running
    /\ UNCHANGED <<kbuf, worker, klogger, file, fd_open, kfs, logged, read, nfail>>

Next ==
    \/ klog_write \/ klog_compose \/ klog_publish
    \/ klog_collect \/ klog_read_write \/ klog_read_error \/ klog_read_end
    \/ asc_process_klog

\* The klogger's timer goes off again and again, and each of its steps ends.
Fairness == WF_vars(klog_collect \/ klog_read_write \/ klog_read_end)

Spec == Init /\ [][Next]_vars /\ Fairness

-----------------------------------------------------------------------------
(***************************************************************************)
(* Properties.                                                             *)
(***************************************************************************)

\* Indices stay inside the buffer, and what is read never passes what was
\* logged.
TypeOK ==
    /\ kbuf \in [r_idx : Index, w_idx : Index, entries : Nat,
                 buf : [Index -> 0..MaxByte]]
    /\ worker \in [at : {"idle", "compose", "publish"}, len : 0..(KLOG_ENTRY_SIZE - 1)]
    /\ klogger \in [at : {"idle", "first", "second", "end"}, w_idx : Index, ret : Index]
    /\ file \in Seq(0..MaxByte)
    /\ fd_open \in BOOLEAN
    /\ running \in BOOLEAN
    /\ kfs \in 0..KLOG_MAX_SIZE
    /\ rate \in SampleRate
    /\ logged \in 0..MaxByte
    /\ read \in 0..logged
    /\ nfail \in 0..MaxFail

\* From r_idx to w_idx the buffer holds exactly the bytes that were logged and
\* not read yet, in order: the worker, with its stale r_idx, never overwrites
\* what is unread, and the klogger, with its stale w_idx, never skips or
\* reads ahead.
RingFaithful ==
    /\ TypeOK
    /\ (kbuf.w_idx - kbuf.r_idx) % size = logged - read
    /\ \A i \in 1..(logged - read) :
          kbuf.buf[CIRCULAR_INCR(kbuf.r_idx, i - 1)] = read + i

\* What the klogger has passed is in the file, and the file never shows a byte
\* before the byte logged before it: failed and short writes lose nothing.  (A
\* byte may be there twice: when the second of two writes fails, the bytes of
\* the first one are written again.)
FileComplete ==
    /\ \A n \in 1..read : \E i \in DOMAIN file : file[i] = n
    /\ \A i \in DOMAIN file : file[i] = 1 \/ \E j \in 1..(i - 1) : file[j] = file[i] - 1

\* A command that is to be logged is not.
Discard == klog_write /\ (kbuf.entries + 1) % rate = 0 /\ UNCHANGED worker

\* "to hold at least this many entries": an entry is discarded only when the
\* unread bytes are more than klog_entry - 1 entries of the largest length.
DiscardOnlyWhenFull ==
    [][Discard => logged - read > (klog_entry - 1) * (KLOG_ENTRY_SIZE - 1)]_vars

\* Every byte logged gets into the file, unless the klogger is switched off or
\* has lost its file.
Drained ==
    \A n \in 1..MaxByte :
        logged >= n ~> (\E i \in DOMAIN file : file[i] = n) \/ ~running \/ ~fd_open
=============================================================================
