--------------------------- MODULE ResponseWriter ---------------------------
(***************************************************************************)
(* http.response: what a handler writes, on its way through the buffer w.w *)
(* and the chunkWriter to the connection, and what a client that reads it  *)
(* by the rules of Transfer makes of it.                                   *)
(*                                                                         *)
(* The handler's header stands when the reply is begun.  While the handler *)
(* writes, another of its goroutines may read the request's body, which    *)
(* sends a "100 Continue" if the client asked for one.  What the request's *)
(* own body and the keep-alive flag of the server do to the connection is  *)
(* in ServeConn and HTTPServer: here the body has been read to its end, or *)
(* there is none.                                                          *)
(***************************************************************************)
EXTENDS Transfer

CONSTANTS Exchanges,     \* the requests, with the header the handler sets
          BufSize,       \* bufferBeforeChunkingSize
          SniffLen,      \* sniffLen
          MaxBody,       \* bound on the bytes the handler writes
          HeadReadFrom,  \* whether a handler copies a file in answer to HEAD
          FlushBeforeReading  \* whether it flushes before it reads a body
                              \* that the client holds back

\* A request of HTTP/1.0 or 1.1 and the header its handler sets: a length or
\* none, an encoding that is understood, at most one token of Connection.  Only
\* a request of HTTP/1.1 with a body gets an expectContinueReader.
Exchange ==
    {e \in [method : STRING, minor : {0, 1}, wants10KeepAlive : BOOLEAN, wantsClose : BOOLEAN,
            status : Nat, cl : Nat \cup {NoLength}, te : Encodings,
            conn : {{}, {"close"}, {"keep-alive"}}, trailers : BOOLEAN, expects : BOOLEAN] :
        /\ e.wants10KeepAlive => e.minor = 0
        /\ e.wantsClose => e.minor = 1
        /\ e.expects => e.minor = 1 /\ e.method # "HEAD"}

WriterAssumption ==
    /\ BufSize \in Nat \ {0} /\ SniffLen \in Nat \ {0} /\ MaxBody \in Nat
    /\ {HeadReadFrom, FlushBeforeReading} \subseteq BOOLEAN
    /\ Exchanges \subseteq Exchange

VARIABLES
    x,              \* the request and the header set for the reply
    state,          \* "handler", "finished" or "panicked"
    wroteHeader,    \* response.wroteHeader, as opposed to cw.wroteHeader
    contentLength, closeAfterReply, handlerDone,
    buffered,       \* the bytes in w.w
    written,        \* response.written
    cw,             \* the chunkWriter: wroteHeader and chunking
    continue,       \* canWriteContinue: "unset", "set", or "locked" while it is used
    accepted,       \* the bytes for which a call returned no error
    out             \* what the connection has been sent

vars == <<x, state, wroteHeader, contentLength, closeAfterReply, handlerDone,
          buffered, written, cw, continue, accepted, out>>

Init ==
    /\ x \in Exchanges
    /\ state = "handler" /\ wroteHeader = FALSE /\ handlerDone = FALSE
    /\ contentLength = NoLength /\ closeAfterReply = FALSE
    /\ buffered = 0 /\ written = 0 /\ accepted = 0
    /\ cw = [wroteHeader |-> FALSE, chunking |-> FALSE]
    /\ continue = IF x.expects THEN "set" ELSE "unset"
    /\ out = [head |-> NoFields, continues |-> <<>>, wire |-> NoWire]

\* The state a step of the code works on.
Response == [contentLength |-> contentLength, close |-> closeAfterReply, buffered |-> buffered,
             cw |-> cw, done |-> handlerDone, wire |-> out.wire, head |-> out.head]
Becomes(w) ==
    /\ contentLength' = w.contentLength /\ closeAfterReply' = w.close
    /\ buffered' = w.buffered /\ cw' = w.cw
    /\ out' = [out EXCEPT !.wire = w.wire, !.head = w.head]

\* response.WriteHeader: a Content-Length the handler set counts from here on.
LogicalHeader(w) == IF wroteHeader THEN w ELSE [w EXCEPT !.contentLength = x.cl]
-----------------------------------------------------------------------------
(* chunkWriter.                                                            *)

bodyAllowed == bodyAllowedForStatus(x.status)
is11 == x.minor = 1

\* A Content-Length is computed when the handler is done with nothing sent.
AutoLength(w, p) ==
    w.done /\ ~x.trailers /\ x.te = <<>> /\ bodyAllowed /\ x.cl = NoLength
    /\ (x.method # "HEAD" \/ p > 0)

Chunking(w) ==
    /\ is11 /\ x.method # "HEAD" /\ bodyAllowed
    /\ w.contentLength = NoLength \/ chunked(x.te)
    /\ ~isIdentity(x.te)

\* Whether the connection is to be closed: a Content-Length makes a 1.0
\* connection that asked for it persistent, everything else may end one.
CloseAfter(w) ==
    LET hasCL == w.contentLength # NoLength
        kept == x.wants10KeepAlive /\ (x.method = "HEAD" \/ hasCL \/ ~bodyAllowed)
    IN  \/ w.close /\ ~(x.wants10KeepAlive /\ x.cl # NoLength /\ x.conn = {"keep-alive"})
        \/ ~kept /\ (~is11 \/ x.wantsClose)
        \/ x.conn = {"close"}
        \/ /\ x.method # "HEAD" /\ bodyAllowed /\ (~hasCL \/ chunked(x.te))
           /\ ~is11 \/ isIdentity(x.te)

\* The fields sent.  Connection: close replaces the handler's Connection
\* unless that says close already; keep-alive is added only when it set none.
HeadOf(w, closes) ==
    LET hasCL == w.contentLength # NoLength /\ ~chunked(x.te)
        kept == x.wants10KeepAlive /\ (x.method = "HEAD" \/ w.contentLength # NoLength \/ ~bodyAllowed)
    IN  [cl |-> IF hasCL /\ bodyAllowed THEN <<w.contentLength>> ELSE <<>>,
         te |-> IF Chunking(w) THEN <<"chunked">> ELSE <<>>,
         conn |-> IF closes /\ is11 THEN {"close"}
                  ELSE IF x.conn = {} /\ kept THEN {"keep-alive"}
                  ELSE IF closes THEN x.conn \cap {"close"} ELSE x.conn,
         trailer |-> x.trailers]

\* chunkWriter.writeHeader, for a first chunk of p bytes.
PhysicalHeader(w, p) ==
    IF w.cw.wroteHeader THEN w
    ELSE LET v == IF AutoLength(w, p) THEN [w EXCEPT !.contentLength = p] ELSE w
             closes == CloseAfter(v)
         IN  [v EXCEPT !.close = closes, !.head = HeadOf(v, closes),
                       !.cw = [wroteHeader |-> TRUE, chunking |-> Chunking(v)]]

Sent(w, n) ==
    IF w.cw.chunking THEN [w EXCEPT !.wire.chunks = Append(@, n)]
    ELSE [w EXCEPT !.wire.raw = @ + n]

\* Mutant of ChunkWrite: the body of a reply to HEAD is sent.
ChunkWriteHead(w, n) == Sent(PhysicalHeader(w, n), n)

\* chunkWriter.Write
ChunkWrite(w, n) ==
    LET v == PhysicalHeader(w, n) IN IF x.method = "HEAD" THEN v ELSE Sent(v, n)

\* bufio.Writer.Flush of w.w, and Write to it: what does not fit is sent.
FlushBuffer(w) ==
    IF w.buffered = 0 THEN w ELSE [ChunkWrite(w, w.buffered) EXCEPT !.buffered = 0]
BufferedWrite(w, n) ==
    LET room == BufSize - w.buffered
        full == FlushBuffer([w EXCEPT !.buffered = BufSize])
        over == n - room
    IN  IF n <= room THEN [w EXCEPT !.buffered = @ + n]
        ELSE IF w.buffered = 0 THEN ChunkWrite(w, n)
        ELSE IF over <= BufSize THEN [full EXCEPT !.buffered = over]
        ELSE ChunkWrite(full, over)

FlushChunks(w) == PhysicalHeader(FlushBuffer(w), 0)
-----------------------------------------------------------------------------
(* The handler's calls.                                                    *)

\* A handler that means another status than 200 has called WriteHeader.
InHandler == state = "handler" /\ (wroteHeader \/ x.status = 200)
MaySend(n) == InHandler /\ written + n <= MaxBody

WriteHeader ==
    /\ state = "handler" /\ ~wroteHeader
    /\ wroteHeader' = TRUE /\ Becomes(LogicalHeader(Response))
    /\ UNCHANGED <<x, state, handlerDone, written, continue, accepted>>

\* What Write does with n bytes: refuse them, count and refuse them, or take them.
WrittenTo(w, n, sofar) ==
    LET v == LogicalHeader(w)
    IN  IF ~bodyAllowed THEN [w |-> v, n |-> 0, written |-> sofar]
        ELSE IF v.contentLength # NoLength /\ sofar + n > v.contentLength
        THEN [w |-> v, n |-> 0, written |-> sofar + n]
        ELSE [w |-> BufferedWrite(v, n), n |-> n, written |-> sofar + n]

\* Mutant of Write: the lock of the 100 Continue is not taken.
WriteUnlocked(n) ==
    LET r == WrittenTo(Response, n, written)
    IN  /\ MaySend(n)
        /\ wroteHeader' = TRUE /\ Becomes(r.w)
        /\ written' = r.written /\ accepted' = accepted + r.n
        /\ UNCHANGED <<x, state, handlerDone, continue>>

\* response.Write: from now on no 100 Continue.
Write(n) ==
    LET r == WrittenTo(Response, n, written)
    IN  /\ MaySend(n) /\ continue # "locked"
        /\ continue' = "unset"
        /\ wroteHeader' = TRUE /\ Becomes(r.w)
        /\ written' = r.written /\ accepted' = accepted + r.n
        /\ UNCHANGED <<x, state, handlerDone>>

\* response.Flush
Flush ==
    /\ InHandler
    /\ continue = "unset" \/ FlushBeforeReading
    /\ wroteHeader' = TRUE
    /\ Becomes(FlushChunks(LogicalHeader(Response)))
    /\ UNCHANGED <<x, state, handlerDone, written, continue, accepted>>

\* response.ReadFrom a source of n bytes, on a TCP connection: the first
\* bytes are written as usual; the rest goes to the connection directly when
\* the reply is not chunked.
ReadFrom(n) ==
    LET first == IF cw.wroteHeader THEN 0 ELSE MinOf(n, SniffLen)
        a == IF first = 0 THEN [w |-> Response, n |-> 0, written |-> written]
             ELSE WrittenTo(Response, first, written)
        short == ~cw.wroteHeader /\ (a.n < first \/ first < SniffLen)
        w == FlushChunks(a.w)
        rest == n - first
        b == WrittenTo(w, rest, a.written)
        direct == ~w.cw.chunking /\ bodyAllowed
    IN  /\ MaySend(n) /\ continue # "locked"
        /\ x.method # "HEAD" \/ HeadReadFrom
        /\ wroteHeader' = TRUE
        /\ continue' = IF first = 0 /\ direct THEN continue ELSE "unset"
        /\ IF short \/ (rest = 0 /\ ~direct) THEN
                /\ Becomes(IF short THEN a.w ELSE w)
                /\ written' = a.written /\ accepted' = accepted + a.n
           ELSE IF direct THEN
                /\ Becomes([w EXCEPT !.wire.raw = @ + rest])
                /\ written' = a.written + rest /\ accepted' = accepted + n
           ELSE Becomes(b.w) /\ written' = b.written /\ accepted' = accepted + a.n + b.n
        /\ UNCHANGED <<x, state, handlerDone>>

\* expectContinueReader.Read, on another goroutine of the handler.
StartContinue ==
    /\ InHandler /\ continue = "set"
    /\ continue' = "locked"
    /\ UNCHANGED <<x, state, wroteHeader, contentLength, closeAfterReply, handlerDone,
                   buffered, written, cw, accepted, out>>

WriteContinue ==
    /\ continue = "locked"
    /\ continue' = "unset"
    /\ out' = [out EXCEPT !.continues = Append(@, IF cw.wroteHeader THEN "late" ELSE "first")]
    /\ UNCHANGED <<x, state, wroteHeader, contentLength, closeAfterReply, handlerDone,
                   buffered, written, cw, accepted>>

\* The handler returns once its own goroutines are done: finishRequest.
finishRequest ==
    LET w == PhysicalHeader(FlushBuffer(LogicalHeader([Response EXCEPT !.done = TRUE])), 0)
    IN  /\ InHandler /\ continue # "locked"
        /\ state' = "finished" /\ handlerDone' = TRUE /\ wroteHeader' = TRUE
        /\ Becomes(IF w.cw.chunking THEN [w EXCEPT !.wire.last = TRUE] ELSE w)
        /\ UNCHANGED <<x, written, continue, accepted>>

Next ==
    \/ WriteHeader \/ Flush \/ StartContinue \/ WriteContinue \/ finishRequest
    \/ \E n \in 1..MaxBody : Write(n) \/ ReadFrom(n)

Spec == Init /\ [][Next]_vars
-----------------------------------------------------------------------------
\* shouldReuseConnection
shouldReuseConnection ==
    /\ ~closeAfterReply
    /\ ~(x.method # "HEAD" /\ contentLength # NoLength /\ bodyAllowed
         /\ contentLength # written)

Reply == readTransfer(TRUE, x.status, x.method, x.minor, out.head)
Body == ReadBody(Reply, out.wire)

\* A client that reads the reply by its header gets the bytes the handler
\* wrote, all of them and nothing else, or sees that some are missing.  When
\* the server keeps the connection nothing of the reply is left on it and the
\* client keeps it too.  A 100 Continue never follows the header.  (A file
\* longer than the Content-Length declared is cut off, as the client must.)
Framed ==
    state = "finished" =>
        /\ ~Reply.err
        /\ Body.ok /\ (contentLength = NoLength \/ accepted <= contentLength) =>
                Body.bytes = IF x.method = "HEAD" THEN 0 ELSE accepted
        /\ shouldReuseConnection => Body.ok /\ ~Body.left /\ ~Reply.close

ContinueFirst == "late" \notin {out.continues[i] : i \in DOMAIN out.continues}
=============================================================================
