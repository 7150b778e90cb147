------------------------------ MODULE MCFraming -----------------------------
(***************************************************************************)
(* TLC instances of Framing: what the client sends.                        *)
(***************************************************************************)
EXTENDS Framing

Req(type, line, data, noreply, good) ==
    [type |-> type, line |-> line, data |-> data, noreply |-> noreply, good |-> good]

ShortGet == Req("get", 1, 0, FALSE, TRUE)
BadGet   == Req("get", 1, 0, FALSE, FALSE)
LongGet  == Req("get", 5, 0, FALSE, TRUE)
Set      == Req("store", 2, 2, FALSE, TRUE)
SetNoreply == Req("store", 2, 2, TRUE, TRUE)
BadSet   == Req("store", 1, 2, FALSE, FALSE)
Delete   == Req("delete", 1, 0, FALSE, TRUE)
DeleteNoreply == Req("delete", 1, 0, TRUE, TRUE)
LongLine == Req("delete", 4, 0, FALSE, TRUE)
Stats    == Req("stats", 1, 0, FALSE, TRUE)
BadStats == Req("stats", 1, 0, FALSE, FALSE)
Quit     == Req("quit", 1, 0, FALSE, TRUE)

\* Every pair of requests, and longer pipelines.
AnyTwo ==
    LET all == {ShortGet, BadGet, LongGet, Set, SetNoreply, BadSet, Delete, DeleteNoreply,
                LongLine, Stats, BadStats, Quit}
    IN  [1..2 -> all]
Pipelines ==
    {<<LongGet, SetNoreply, DeleteNoreply, ShortGet>>,
     <<Set, Delete, Set, ShortGet>>,
     <<DeleteNoreply, SetNoreply, Stats, Set>>}
TwoAndPipelines == AnyTwo \cup Pipelines
=============================================================================
