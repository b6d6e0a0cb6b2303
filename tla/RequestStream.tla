--------------------------- MODULE RequestStream ---------------------------
(***************************************************************************)
(* What one HTTP/1.x connection promises to the code that answers its      *)
(* requests, whatever buffers and goroutines carry the bytes.              *)
(*                                                                         *)
(* The client's bytes are one stream.  A request begins at a header, only  *)
(* between two requests; while it is served the stream gives the bytes of  *)
(* its body and no others; and the next request may begin only once the    *)
(* whole body has gone by, or the stream has ended.  Hijack gives the rest *)
(* of the stream to the handler, from the byte it had reached.             *)
(*                                                                         *)
(* A byte is a pair <<r, i>>: the i-th of request r, whose header is       *)
(* <<r, 0>>.  Request r has script[r] bytes.                              *)
(***************************************************************************)
EXTENDS Naturals, Sequences

VARIABLES
    script,     \* how many bytes each request has; never changes
    stream,     \* the bytes between the client and the code that reads them
    gone,       \* the client has closed its side
    stage,      \* idle, busy with a request, hijacked or closed
    cur,        \* the last request that began
    pos         \* how many of its bytes have been read

vars == <<script, stream, gone, stage, cur, pos>>

Init ==
    /\ script \in Seq(Nat)
    /\ stream = <<>> /\ gone = FALSE
    /\ stage = "idle" /\ cur = 0 /\ pos = 0

Send ==
    /\ ~gone
    /\ \E r \in DOMAIN script : \E i \in 0..(script[r] - 1) :
          stream' = Append(stream, <<r, i>>)
    /\ UNCHANGED <<script, gone, stage, cur, pos>>

HangUp ==
    /\ gone' = TRUE
    /\ UNCHANGED <<script, stream, stage, cur, pos>>

Begin ==
    /\ stage = "idle" /\ stream # <<>>
    /\ Head(stream)[1] > cur /\ Head(stream)[2] = 0
    /\ stage' = "busy" /\ cur' = Head(stream)[1] /\ pos' = 1
    /\ stream' = Tail(stream)
    /\ UNCHANGED <<script, gone>>

ReadBody ==
    /\ stage = "busy" /\ stream # <<>>
    /\ Head(stream) = <<cur, pos>>
    /\ pos' = pos + 1
    /\ stream' = Tail(stream)
    /\ UNCHANGED <<script, gone, stage, cur>>

Finish ==
    /\ stage = "busy"
    /\ \/ pos = script[cur]
       \/ gone /\ stream = <<>>
    /\ stage' = "idle"
    /\ UNCHANGED <<script, stream, gone, cur, pos>>

Hijack ==
    /\ stage = "busy" /\ stage' = "hijacked"
    /\ UNCHANGED <<script, stream, gone, cur, pos>>

ReadHijacked ==
    /\ stage = "hijacked" /\ stream # <<>>
    /\ stream' = Tail(stream)
    /\ UNCHANGED <<script, gone, stage, cur, pos>>

Close ==
    /\ stage \in {"idle", "busy"} /\ stage' = "closed"
    /\ UNCHANGED <<script, stream, gone, cur, pos>>

Next == Send \/ HangUp \/ Begin \/ ReadBody \/ Finish \/ Hijack
        \/ ReadHijacked \/ Close

Spec == Init /\ [][Next]_vars
=============================================================================
