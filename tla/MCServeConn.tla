---------------------------- MODULE MCServeConn ----------------------------
(***************************************************************************)
(* ServeConn for TLC: sequences of MaxRequests pipelined requests out of a *)
(* handful whose bodies lie around maxPostHandlerReadBytes.                *)
(***************************************************************************)
EXTENDS ServeConn

Req(len, chunked, expect, close) ==
    [len |-> len, chunked |-> chunked, expect |-> expect, close |-> close]

NoBody       == Req(0, FALSE, FALSE, FALSE)
Short        == Req(1, FALSE, FALSE, FALSE)
Long         == Req(3, FALSE, FALSE, FALSE)
ChunkedShort == Req(1, TRUE, FALSE, FALSE)
ChunkedLong  == Req(3, TRUE, FALSE, FALSE)
Expect       == Req(1, FALSE, TRUE, FALSE)
LastRequest  == Req(1, FALSE, FALSE, TRUE)

MCRequests == {NoBody, Short, Long, ChunkedShort, ChunkedLong, Expect, LastRequest}

\* Each kind comes first, and behind a request without and with a body, always
\* with a request behind it.
MCScripts ==
    {<<k, NoBody, NoBody>> : k \in MCRequests}
        \cup {<<p, k, NoBody>> : p \in {NoBody, ChunkedShort}, k \in MCRequests}

MCInit == Init /\ script \in MCScripts
MCSpec == MCInit /\ [][Next]_vars /\ WF_vars(Background) /\ WF_vars(Serve)
=============================================================================
