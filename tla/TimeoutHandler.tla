--------------------------- MODULE TimeoutHandler ---------------------------
(***************************************************************************)
(* http.TimeoutHandler: a handler that runs on a goroutine of its own and  *)
(* writes to a timeoutWriter, against the serving goroutine that waits for *)
(* it to return, to panic or to run out of time, and sends one reply.      *)
(*                                                                         *)
(* tw.mu guards the timeoutWriter.  The handler's calls take it for one    *)
(* step, the serving goroutine for as long as it writes the reply to the   *)
(* connection.  Push, which goes to the connection without the mutex,      *)
(* belongs to HTTP/2 and is left out.                                      *)
(***************************************************************************)
EXTENDS Naturals, Sequences

CONSTANTS Codes,       \* the status codes a handler passes to WriteHeader
          Names,       \* the header fields it sets
          MaxWrites    \* bound on the handler's calls of Write

ASSUME CodesAssumption == Codes \subseteq Nat
ASSUME MaxWritesAssumption == MaxWrites \in Nat

VARIABLES
    handler,      \* where the handler's goroutine is
    call,         \* the call of the timeoutWriter it is in, with its argument
    writes,       \* how many calls of Write it has made
    serve,        \* where timeoutHandler.ServeHTTP is
    mu,           \* who holds tw.mu
    ctxDone,      \* the context has expired, or the client has gone
    done,         \* the channel done is closed
    panicChan,    \* the panic in the channel of that name, of capacity one
    h, wbuf,      \* tw.h, tw.wbuf: a write is a number
    timedOut, wroteHeader, code,    \* the fields of tw
    reply         \* what ServeHTTP has passed to the connection's writer

handlerVars == <<handler, call, writes, h>>
twVars == <<wbuf, timedOut, wroteHeader, code>>
vars == <<handlerVars, twVars, serve, mu, ctxDone, done, panicChan, reply>>

StatusOK == 200
StatusServiceUnavailable == 503
NoReply == [code |-> 0, header |-> {}, body |-> <<>>]
errorBody == <<0>>
TimeoutReply == [code |-> StatusServiceUnavailable, header |-> {}, body |-> errorBody]
NoCall == [op |-> "none", arg |-> 0]

TypeOK ==
    /\ handler \in {"running", "locked", "panicking", "returning", "returned", "ended"}
    /\ call \in [op : {"none", "Write", "WriteHeader"}, arg : Nat]
    /\ writes \in Nat
    /\ serve \in {"select", "lockDone", "header", "body", "lockTimeout", "header503",
                  "body503", "mark", "returned", "panicked"}
    /\ mu \in {"free", "handler", "serve"}
    /\ ctxDone \in BOOLEAN /\ done \in BOOLEAN /\ panicChan \in BOOLEAN
    /\ timedOut \in BOOLEAN /\ wroteHeader \in BOOLEAN
    /\ h \subseteq Names
    /\ wbuf \in Seq(Nat)
    /\ code \in Nat
    /\ reply \in [code : Nat, header : SUBSET Names, body : Seq(Nat)]

Init ==
    /\ handler = "running" /\ call = NoCall /\ writes = 0 /\ h = {}
    /\ wbuf = <<>> /\ timedOut = FALSE /\ wroteHeader = FALSE /\ code = 0
    /\ serve = "select" /\ mu = "free" /\ ctxDone = FALSE
    /\ done = FALSE /\ panicChan = FALSE /\ reply = NoReply
-----------------------------------------------------------------------------
(* The handler's goroutine. *)

\* The handler sets a field of tw.Header(), which no mutex guards.
SetHeader(n) ==
    /\ handler = "running"
    /\ h' = h \cup {n}
    /\ UNCHANGED <<handler, call, writes, twVars, serve, mu, ctxDone, done, panicChan, reply>>

\* A call of the timeoutWriter: its first step takes tw.mu.
Call(op, arg) ==
    /\ handler = "running" /\ mu = "free"
    /\ handler' = "locked" /\ mu' = "handler"
    /\ call' = [op |-> op, arg |-> arg]
    /\ writes' = IF op = "Write" THEN writes + 1 ELSE writes
    /\ UNCHANGED <<h, twVars, serve, ctxDone, done, panicChan, reply>>

CallWrite == writes < MaxWrites /\ Call("Write", writes + 1)
CallWriteHeader(c) == Call("WriteHeader", c)

\* checkWriteHeaderCode: a code without three digits panics.
ValidCode(c) == c >= 100 /\ c <= 999

\* writeHeaderLocked: the first code stands, and none after the timeout.
writeHeaderLocked(c) ==
    IF timedOut \/ wroteHeader THEN UNCHANGED <<wroteHeader, code>>
    ELSE wroteHeader' = TRUE /\ code' = c

\* timeoutWriter.Write: ErrHandlerTimeout once timed out.
Write ==
    /\ handler = "locked" /\ call.op = "Write"
    /\ IF timedOut THEN UNCHANGED <<wbuf, wroteHeader, code>>
       ELSE writeHeaderLocked(StatusOK) /\ wbuf' = Append(wbuf, call.arg)
    /\ handler' = "running" /\ call' = NoCall /\ mu' = "free"
    /\ UNCHANGED <<writes, h, timedOut, serve, ctxDone, done, panicChan, reply>>

\* timeoutWriter.WriteHeader; the deferred Unlock runs when it panics too.
WriteHeader ==
    /\ handler = "locked" /\ call.op = "WriteHeader"
    /\ IF ValidCode(call.arg)
       THEN writeHeaderLocked(call.arg) /\ handler' = "running"
       ELSE handler' = "panicking" /\ UNCHANGED <<wroteHeader, code>>
    /\ call' = NoCall /\ mu' = "free"
    /\ UNCHANGED <<writes, h, wbuf, timedOut, serve, ctxDone, done, panicChan, reply>>

\* The handler returns, panics with a value, or ends without either: by
\* runtime.Goexit or panic(nil), for which recover returns nil.
HandlerEnds(how) ==
    /\ handler = "running"
    /\ handler' = how
    /\ UNCHANGED <<call, writes, h, twVars, serve, mu, ctxDone, done, panicChan, reply>>

CloseDone ==
    /\ handler = "returning"
    /\ handler' = "returned" /\ done' = TRUE
    /\ UNCHANGED <<call, writes, h, twVars, serve, mu, ctxDone, panicChan, reply>>

\* Mutant of SendPanic: done is closed by a deferred call, whatever happened.
SendPanicDone ==
    /\ handler = "panicking" /\ ~panicChan
    /\ handler' = "ended" /\ panicChan' = TRUE /\ done' = TRUE
    /\ UNCHANGED <<call, writes, h, twVars, serve, mu, ctxDone, reply>>

\* Mutant of SendPanic: the channel has no buffer.
SendPanicUnbuffered ==
    /\ handler = "panicking" /\ ~panicChan /\ serve = "select"
    /\ handler' = "ended" /\ panicChan' = TRUE
    /\ UNCHANGED <<call, writes, h, twVars, serve, mu, ctxDone, done, reply>>

\* The deferred function sends what it recovered: there is room for one.
SendPanic ==
    /\ handler = "panicking" /\ ~panicChan
    /\ handler' = "ended" /\ panicChan' = TRUE
    /\ UNCHANGED <<call, writes, h, twVars, serve, mu, ctxDone, done, reply>>
-----------------------------------------------------------------------------
(* The serving goroutine, in timeoutHandler.ServeHTTP. *)

Goto(from, to) == serve = from /\ serve' = to

\* The three cases of the select; it takes any that is ready.
SelectPanic ==
    /\ Goto("select", "panicked") /\ panicChan
    /\ panicChan' = FALSE
    /\ UNCHANGED <<handlerVars, twVars, mu, ctxDone, done, reply>>

SelectDone ==
    /\ Goto("select", "lockDone") /\ done
    /\ UNCHANGED <<handlerVars, twVars, mu, ctxDone, done, panicChan, reply>>

SelectTimeout ==
    /\ Goto("select", "lockTimeout") /\ ctxDone
    /\ UNCHANGED <<handlerVars, twVars, mu, ctxDone, done, panicChan, reply>>

LockDone ==
    /\ Goto("lockDone", "header")
    /\ mu = "free" /\ mu' = "serve"
    /\ code' = IF wroteHeader THEN code ELSE StatusOK
    /\ UNCHANGED <<handlerVars, wbuf, timedOut, wroteHeader, ctxDone, done, panicChan, reply>>

SendHeader ==
    /\ Goto("header", "body")
    /\ reply' = [reply EXCEPT !.code = code, !.header = h]
    /\ UNCHANGED <<handlerVars, twVars, mu, ctxDone, done, panicChan>>

SendBody ==
    /\ Goto("body", "returned")
    /\ reply' = [reply EXCEPT !.body = wbuf]
    /\ mu' = "free"
    /\ UNCHANGED <<handlerVars, twVars, ctxDone, done, panicChan>>

\* Mutant of LockTimeout: the 503 is sent without tw.mu.
LockTimeoutFree ==
    /\ Goto("lockTimeout", "header503")
    /\ UNCHANGED <<handlerVars, twVars, mu, ctxDone, done, panicChan, reply>>

LockTimeout ==
    /\ Goto("lockTimeout", "header503")
    /\ mu = "free" /\ mu' = "serve"
    /\ UNCHANGED <<handlerVars, twVars, ctxDone, done, panicChan, reply>>

SendHeader503 ==
    /\ Goto("header503", "body503")
    /\ reply' = [reply EXCEPT !.code = StatusServiceUnavailable]
    /\ UNCHANGED <<handlerVars, twVars, mu, ctxDone, done, panicChan>>

SendBody503 ==
    /\ Goto("body503", "mark")
    /\ reply' = [reply EXCEPT !.body = errorBody]
    /\ UNCHANGED <<handlerVars, twVars, mu, ctxDone, done, panicChan>>

MarkTimedOut ==
    /\ Goto("mark", "returned")
    /\ timedOut' = TRUE /\ mu' = "free"
    /\ UNCHANGED <<handlerVars, wbuf, wroteHeader, code, ctxDone, done, panicChan, reply>>

\* The deadline passes or the client goes; a ServeHTTP that has returned has
\* cancelled the context itself.
ContextEnds ==
    /\ ~ctxDone
    /\ ctxDone' = TRUE
    /\ UNCHANGED <<handlerVars, twVars, serve, mu, done, panicChan, reply>>
-----------------------------------------------------------------------------
HandlerCalls ==
    \/ \E n \in Names : SetHeader(n)
    \/ CallWrite
    \/ \E c \in Codes : CallWriteHeader(c)
    \/ \E how \in {"returning", "panicking", "ended"} : HandlerEnds(how)

HandlerRuns == Write \/ WriteHeader \/ CloseDone \/ SendPanic

Serve ==
    \/ SelectPanic \/ SelectDone \/ SelectTimeout
    \/ LockDone \/ SendHeader \/ SendBody
    \/ LockTimeout \/ SendHeader503 \/ SendBody503 \/ MarkTimedOut

Next == HandlerCalls \/ HandlerRuns \/ Serve \/ ContextEnds

\* Goroutines run and time passes; what the handler itself does is up to it.
\* A sync.Mutex is handed to a waiter it has starved, however busy it is.
Fairness ==
    /\ WF_vars(HandlerRuns) /\ WF_vars(Serve) /\ WF_vars(ContextEnds)
    /\ SF_vars(LockDone) /\ SF_vars(LockTimeout)

Spec == Init /\ [][Next]_vars /\ Fairness
-----------------------------------------------------------------------------
\* When ServeHTTP has returned, the connection has got exactly one whole
\* reply: the code, header and bytes of a handler that returned, all of them
\* and no more, or else the 503.  A handler that panics or vanishes never
\* passes for one that has returned.
OneReply ==
    serve = "returned" =>
        \/ /\ done /\ handler = "returned" /\ ~timedOut
           /\ reply = [code |-> IF wroteHeader THEN code ELSE StatusOK,
                       header |-> h, body |-> wbuf]
        \/ timedOut /\ reply = TimeoutReply

\* Once the reply has begun tw.Write accepts nothing more: what it takes with
\* a nil error is in the reply, or the reply is a 503 that came later.
AcceptedInTime == [][wbuf' # wbuf => reply = NoReply]_vars

\* ServeHTTP returns even if the handler never does.
Returns == <>(serve \in {"returned", "panicked"})

\* A handler that panics after the reply was sent does not leave its goroutine
\* behind, although nobody receives from panicChan any more.
PanicEndsGoroutine == handler = "panicking" ~> handler = "ended"
=============================================================================
