----------------------------- MODULE ServeConn -----------------------------
(***************************************************************************)
(* One HTTP/1.x connection of net/http's Server: the goroutine that serves *)
(* it, the connReader between its bufio.Reader and the socket, and the     *)
(* background goroutine that reads one byte ahead while a handler runs, to *)
(* learn that the client has gone.                                         *)
(*                                                                         *)
(* The background read begins when the request's body has been read to its *)
(* end (body.onHitEOF) and must be over before anyone else reads the       *)
(* socket: abortPendingRead moves the read deadline into the past, waits   *)
(* on cr.cond until inRead is false and clears the deadline.  The byte it  *)
(* may have read in the meantime waits in byteBuf for the next Read.       *)
(*                                                                         *)
(* A byte is a pair <<r, i>>, the i-th of request r: <<r, 0>> stands for   *)
(* the header, then come the bytes of the body and, when it is chunked,    *)
(* its last chunk and its trailer.  A section under cr.mu is one step; a   *)
(* read of the socket is a step of its own.  Handlers read, close, flush,  *)
(* hijack, panic and return as they like, on the goroutine that serves the *)
(* connection; they do not replace r.Body.                                 *)
(***************************************************************************)
EXTENDS Integers, Sequences

CONSTANTS
    Requests,                \* the requests a client may send
    MaxRequests,             \* how many it sends at most
    BufCap,                  \* the size of c.bufr
    maxPostHandlerReadBytes,
    ReadTimeout              \* whether ReadTimeout and IdleTimeout are set

(* len is the declared length, or what the chunks hold in all; expect and  *)
(* close are the headers Expect: 100-continue and Connection: close.       *)
ASSUME RequestsAssumption ==
    /\ Requests \subseteq [len : Nat, chunked : BOOLEAN,
                           expect : BOOLEAN, close : BOOLEAN]
    /\ Requests # {}
    /\ MaxRequests \in Nat \ {0}

ASSUME LimitsAssumption ==
    /\ BufCap \in Nat \ {0}
    /\ maxPostHandlerReadBytes \in Nat \ {0}
    /\ ReadTimeout \in BOOLEAN

VARIABLES
    script,     \* the requests of this client, in order; never changes
    creq, cpos, \* the byte <<creq, cpos>> is the next the client sends
    peer,       \* "open", or "closed": the client sends no more
    sock,       \* the bytes in the socket's receive queue
    deadline,   \* the read deadline: none, armed (in the future) or past
    expired,    \* an armed deadline has ended a read (a history variable)
    byte,       \* cr.byteBuf: <<b>> when cr.hasByte, else <<>>
    inRead,     \* cr.inRead
    aborted,    \* cr.aborted
    bg,         \* the background read: off, read (in rwc.Read), what it got
    bgByte,     \* the byte it got, until it takes cr.mu
    bcast,      \* background reads about to call cr.cond.Broadcast
    waiting,    \* abortPendingRead is in cr.cond.Wait
    pc,         \* where conn.serve is
    ret,        \* where it goes on after a header, an abort or a body.Close
    filling,    \* conn.serve is in rwc.Read, called by connReader.Read
    bufr,       \* what c.bufr has buffered
    cur,        \* the request being served, or the last one
    left,       \* its *body: lr.N, or what the chunks still hold,
    sawEOF, closed, earlyClose,    \* the fields of these names,
    trailer,    \* the last chunk has been read, the trailer not yet,
    badChunk,   \* and the chunked reader has failed
    copied,     \* how many bytes io.CopyN has copied
    wroteHeader, closeAfterReply,  \* its response: the fields of these names,
    wroteContinue,                 \* and when it expects 100-continue this one
    ecrClosed, ecrSawEOF,          \* and those of its expectContinueReader
    reply,      \* what the flushed header told the client: none, keep, close
    ctxDone,    \* the connection's context is cancelled
    panicked    \* "invalid concurrent Body.Read call"

clientVars == <<script, creq, cpos, peer>>
rwcVars    == <<sock, deadline, expired>>
crVars     == <<byte, inRead, aborted>>
bgVars     == <<bg, bgByte, bcast>>
bodyVars   == <<left, sawEOF, closed, earlyClose, trailer, badChunk>>
respVars   == <<wroteHeader, closeAfterReply, wroteContinue, ecrClosed, ecrSawEOF>>
requestVars == <<cur, bodyVars, copied, respVars, reply>>
vars == <<clientVars, rwcVars, crVars, bgVars, waiting, pc, ret, filling, bufr,
          requestVars, ctxDone, panicked>>

Bytes == (1..MaxRequests) \X Nat
Total(r)   == 1 + script[r].len + IF script[r].chunked THEN 2 ELSE 0
HasBody(r) == script[r].chunked \/ script[r].len > 0      \* else NoBody
Wrapped(r) == script[r].expect /\ HasBody(r)    \* in an expectContinueReader

IsData(b)      == b[2] \in 1..script[b[1]].len
IsLastChunk(b) == script[b[1]].chunked /\ b[2] = script[b[1]].len + 1

ServePc == {"read", "dispatch", "handler", "bodyRead", "header", "discard",
            "flush", "abort", "wait", "hijack", "hijacked", "hijackFailed",
            "closeReq", "closeBody", "reuse", "idle", "peek", "close", "closed"}

Reading == {"read", "peek", "bodyRead", "discard", "closeBody"}

NewDeadline == IF ReadTimeout THEN "armed" ELSE "none"

StreamType ==
    /\ script \in [1..MaxRequests -> Requests]
    /\ creq \in 1..(MaxRequests + 1) /\ cpos \in Nat
    /\ sock \in Seq(Bytes)
    /\ byte \in Seq(Bytes) /\ Len(byte) <= 1
    /\ bgByte \in Seq(Bytes) /\ Len(bgByte) <= 1
    /\ bufr \in Seq(Bytes) /\ Len(bufr) <= BufCap
    /\ cur \in 0..MaxRequests

ReaderType ==
    /\ peer \in {"open", "closed"}
    /\ deadline \in {"none", "armed", "past"} /\ expired \in BOOLEAN
    /\ inRead \in BOOLEAN /\ aborted \in BOOLEAN
    /\ bg \in {"off", "read", "data", "error", "timeout"}
    /\ bcast \in Nat /\ waiting \in BOOLEAN
    /\ pc \in ServePc
    /\ ret \in {"none", "handler", "abort", "hijack", "reuse"}
    /\ filling \in BOOLEAN /\ ctxDone \in BOOLEAN /\ panicked \in BOOLEAN

RequestType ==
    /\ left \in Int /\ sawEOF \in BOOLEAN /\ closed \in BOOLEAN
    /\ earlyClose \in BOOLEAN /\ trailer \in BOOLEAN /\ badChunk \in BOOLEAN
    /\ copied \in Nat
    /\ wroteHeader \in BOOLEAN /\ closeAfterReply \in BOOLEAN
    /\ wroteContinue \in BOOLEAN
    /\ ecrClosed \in BOOLEAN /\ ecrSawEOF \in BOOLEAN
    /\ reply \in {"none", "keep", "close"}

TypeOK == StreamType /\ ReaderType /\ RequestType

Init ==
    /\ script \in [1..MaxRequests -> Requests]
    /\ creq = 1 /\ cpos = 0 /\ peer = "open"
    /\ sock = <<>> /\ deadline = NewDeadline /\ expired = FALSE
    /\ byte = <<>> /\ inRead = FALSE /\ aborted = FALSE
    /\ bg = "off" /\ bgByte = <<>> /\ bcast = 0 /\ waiting = FALSE
    /\ pc = "read" /\ ret = "none" /\ filling = FALSE /\ bufr = <<>>
    /\ cur = 0
    /\ left = 0 /\ sawEOF = TRUE /\ closed = TRUE /\ earlyClose = FALSE
    /\ trailer = FALSE /\ badChunk = FALSE /\ copied = 0
    /\ wroteHeader = FALSE /\ closeAfterReply = FALSE /\ wroteContinue = FALSE
    /\ ecrClosed = FALSE /\ ecrSawEOF = FALSE /\ reply = "none"
    /\ ctxDone = FALSE /\ panicked = FALSE

-----------------------------------------------------------------------------
(* The client sends its requests byte by byte and hangs up when it likes.  *)
(* It pipelines, except past a request that expects 100-continue: there it *)
(* waits for a reply that keeps the connection, and it may send the body   *)
(* at once, after the 100, or not at all when the reply came first.        *)

ClientSend ==
    /\ peer = "open" /\ creq <= MaxRequests
    /\ cpos = 0 /\ creq > 1 /\ Wrapped(creq - 1) =>
          cur = creq - 1 /\ reply = "keep"
    /\ sock' = Append(sock, <<creq, cpos>>)
    /\ IF cpos + 1 = Total(creq) THEN creq' = creq + 1 /\ cpos' = 0
                                 ELSE creq' = creq /\ cpos' = cpos + 1
    /\ UNCHANGED <<script, peer, deadline, expired, crVars, bgVars, waiting, pc,
                   ret, filling, bufr, requestVars, ctxDone, panicked>>

ClientSkipBody ==
    /\ peer = "open" /\ creq <= MaxRequests /\ cpos = 1 /\ Wrapped(creq)
    /\ cur = creq /\ reply # "none" /\ ~wroteContinue
    /\ creq' = creq + 1 /\ cpos' = 0
    /\ UNCHANGED <<script, peer, rwcVars, crVars, bgVars, waiting, pc, ret,
                   filling, bufr, requestVars, ctxDone, panicked>>

ClientClose ==
    /\ peer = "open" /\ peer' = "closed"
    /\ UNCHANGED <<script, creq, cpos, rwcVars, crVars, bgVars, waiting, pc,
                   ret, filling, bufr, requestVars, ctxDone, panicked>>

-----------------------------------------------------------------------------
(* connReader.  startBackgroundRead runs on the serving goroutine.         *)

startBackgroundRead(next) ==
    IF inRead
      THEN /\ panicked' = TRUE /\ pc' = "close"
           /\ UNCHANGED <<inRead, deadline, bg>>
      ELSE /\ pc' = next
           /\ IF byte # <<>> THEN UNCHANGED <<inRead, deadline, bg>>
                             ELSE inRead' = TRUE /\ deadline' = "none" /\ bg' = "read"
           /\ UNCHANGED panicked

(* rwc.Read of the background goroutine.  A read that has not yet looked   *)
(* at the deadline may return data when the deadline is past.              *)
BackgroundRead ==
    /\ bg = "read"
    /\ \/ /\ pc # "closed" /\ sock # <<>>
          /\ bg' = "data" /\ bgByte' = <<Head(sock)>> /\ sock' = Tail(sock)
       \/ /\ pc = "closed" \/ (peer = "closed" /\ sock = <<>>)
          /\ bg' = "error" /\ UNCHANGED <<bgByte, sock>>
       \/ /\ deadline = "past"
          /\ bg' = "timeout" /\ UNCHANGED <<bgByte, sock>>
    /\ UNCHANGED <<clientVars, deadline, expired, crVars, bcast, waiting, pc,
                   ret, filling, bufr, requestVars, ctxDone, panicked>>

\* Mutant of BackgroundDone: cr.aborted is not looked at.
BackgroundDoneCancels ==
    /\ bg \in {"data", "error", "timeout"}
    /\ byte' = IF bg = "data" THEN bgByte ELSE byte
    /\ ctxDone' = (ctxDone \/ bg # "data")
    /\ aborted' = FALSE /\ inRead' = FALSE
    /\ bg' = "off" /\ bgByte' = <<>> /\ bcast' = bcast + 1
    /\ UNCHANGED <<clientVars, rwcVars, waiting, pc, ret, filling, bufr,
                   requestVars, panicked>>

\* Mutant of BackgroundDone: an error of the read is dropped.
BackgroundDoneSilent ==
    /\ bg \in {"data", "error", "timeout"}
    /\ byte' = IF bg = "data" THEN bgByte ELSE byte
    /\ aborted' = FALSE /\ inRead' = FALSE
    /\ bg' = "off" /\ bgByte' = <<>> /\ bcast' = bcast + 1
    /\ UNCHANGED <<clientVars, rwcVars, waiting, pc, ret, filling, bufr,
                   requestVars, ctxDone, panicked>>

\* Mutant of Broadcast: the waiter is not woken.
BroadcastLost ==
    /\ bcast > 0 /\ bcast' = bcast - 1
    /\ UNCHANGED <<clientVars, rwcVars, crVars, bg, bgByte, waiting, pc, ret,
                   filling, bufr, requestVars, ctxDone, panicked>>

(* What backgroundRead does under cr.mu; handleReadError cancels.          *)
BackgroundDone ==
    /\ bg \in {"data", "error", "timeout"}
    /\ byte' = IF bg = "data" THEN bgByte ELSE byte
    /\ ctxDone' = (ctxDone \/ bg = "error" \/ (bg = "timeout" /\ ~aborted))
    /\ aborted' = FALSE /\ inRead' = FALSE
    /\ bg' = "off" /\ bgByte' = <<>> /\ bcast' = bcast + 1
    /\ UNCHANGED <<clientVars, rwcVars, waiting, pc, ret, filling, bufr,
                   requestVars, panicked>>

Broadcast ==
    /\ bcast > 0 /\ bcast' = bcast - 1
    /\ waiting' = FALSE
    /\ UNCHANGED <<clientVars, rwcVars, crVars, bg, bgByte, pc, ret, filling,
                   bufr, requestVars, ctxDone, panicked>>

AfterAbort == IF ret = "hijack" THEN "hijack" ELSE "closeReq"

abortPendingRead ==
    /\ pc = "abort"
    /\ IF inRead THEN /\ aborted' = TRUE /\ deadline' = "past"
                      /\ waiting' = TRUE /\ pc' = "wait"
                 ELSE /\ pc' = AfterAbort
                      /\ UNCHANGED <<aborted, deadline, waiting>>
    /\ UNCHANGED <<clientVars, sock, expired, byte, inRead, bgVars, ret,
                   filling, bufr, requestVars, ctxDone, panicked>>

\* Mutant of AbortWake: "if cr.inRead" instead of "for cr.inRead".
AbortWakeOnce ==
    /\ pc = "wait" /\ ~waiting
    /\ deadline' = "none" /\ pc' = AfterAbort
    /\ UNCHANGED <<clientVars, sock, expired, crVars, bgVars, waiting, ret,
                   filling, bufr, requestVars, ctxDone, panicked>>

(* cond.Wait returns and the loop tests inRead again.                      *)
AbortWake ==
    /\ pc = "wait" /\ ~waiting
    /\ IF inRead THEN waiting' = TRUE /\ UNCHANGED <<deadline, pc>>
                 ELSE deadline' = "none" /\ pc' = AfterAbort /\ UNCHANGED waiting
    /\ UNCHANGED <<clientVars, sock, expired, crVars, bgVars, ret, filling,
                   bufr, requestVars, ctxDone, panicked>>

(* connReader.Read, called when conn.serve needs a byte and c.bufr is      *)
(* empty: it takes the byte of the background read or reads the socket.    *)
Read ==
    /\ pc \in Reading /\ bufr = <<>> /\ ~filling
    /\ IF inRead THEN panicked' = TRUE /\ pc' = "close"
                 ELSE UNCHANGED <<panicked, pc>>
    /\ bufr' = IF inRead THEN bufr ELSE byte
    /\ byte' = IF inRead THEN byte ELSE <<>>
    /\ inRead' = (inRead \/ byte = <<>>)
    /\ filling' = (~inRead /\ byte = <<>>)
    /\ UNCHANGED <<clientVars, rwcVars, aborted, bgVars, waiting, ret,
                   requestVars, ctxDone>>

ReadData ==
    /\ filling
    /\ \E n \in 1..Len(sock) :
          /\ n <= BufCap
          /\ bufr' = SubSeq(sock, 1, n)
          /\ sock' = SubSeq(sock, n + 1, Len(sock))
    /\ filling' = FALSE /\ inRead' = FALSE
    /\ UNCHANGED <<clientVars, deadline, expired, byte, aborted, bgVars,
                   waiting, pc, ret, requestVars, ctxDone, panicked>>

(* A read of the socket fails: the client has closed, or the deadline has  *)
(* passed.  What the reader of the body makes of it comes in the same      *)
(* step, for no other goroutine looks at c.bufr or the body: at the end of *)
(* the stream a Content-Length body sees its EOF (and the background read  *)
(* begins), a chunked body fails for good, or is closed when only its      *)
(* trailer was missing; a timeout leaves a Content-Length body as it is.   *)
ReadError ==
    /\ filling
    /\ \E timeout \in BOOLEAN :
          LET inBody == pc \in {"bodyRead", "discard", "closeBody"}
              eof    == inBody /\ ~timeout /\ ~script[cur].chunked
              fail   == inBody /\ script[cur].chunked
          IN
          /\ IF timeout THEN deadline # "none" ELSE peer = "closed" /\ sock = <<>>
          /\ expired' = (expired \/ (timeout /\ deadline = "armed"))
          /\ sawEOF' = (sawEOF \/ eof)
          /\ closed' = (closed \/ pc = "closeBody" \/ (fail /\ trailer))
          /\ badChunk' = (badChunk \/ (fail /\ ~trailer))
          /\ IF eof THEN bg' = "read" /\ deadline' = "none" /\ inRead' = TRUE
                    ELSE UNCHANGED <<bg, deadline>> /\ inRead' = FALSE
    /\ ctxDone' = TRUE /\ filling' = FALSE
    /\ pc' = IF pc \in {"read", "peek"} THEN "close"
             ELSE IF pc = "bodyRead" THEN "handler"
             ELSE IF pc = "discard" THEN "flush" ELSE ret
    /\ closeAfterReply' = (closeAfterReply \/ pc = "discard")
    /\ UNCHANGED <<clientVars, sock, byte, aborted, bgByte, bcast, waiting, ret,
                   bufr, cur, left, earlyClose, trailer, copied, wroteHeader,
                   wroteContinue, ecrClosed, ecrSawEOF, reply, panicked>>

-----------------------------------------------------------------------------
(* conn.serve between two requests.                                        *)

ReadRequest ==
    /\ pc = "read" /\ bufr # <<>>
    /\ IF Head(bufr)[2] = 0
         THEN LET r == Head(bufr)[1] IN
              /\ cur' = r /\ left' = script[r].len /\ sawEOF' = ~HasBody(r)
              /\ closed' = FALSE /\ earlyClose' = FALSE
              /\ trailer' = FALSE /\ badChunk' = FALSE
              /\ pc' = "dispatch"
         ELSE pc' = "close" /\ UNCHANGED <<cur, bodyVars>>   \* 400 Bad Request
    /\ bufr' = Tail(bufr)
    /\ wroteHeader' = FALSE /\ closeAfterReply' = FALSE /\ wroteContinue' = FALSE
    /\ ecrClosed' = FALSE /\ ecrSawEOF' = FALSE /\ reply' = "none"
    /\ UNCHANGED <<clientVars, rwcVars, crVars, bgVars, waiting, ret, filling,
                   copied, ctxDone, panicked>>

(* The background read starts now when there is no body, else at its EOF.  *)
Dispatch ==
    /\ pc = "dispatch"
    /\ IF HasBody(cur) THEN pc' = "handler"
                            /\ UNCHANGED <<inRead, deadline, bg, panicked>>
                       ELSE startBackgroundRead("handler")
    /\ UNCHANGED <<clientVars, sock, expired, byte, aborted, bgByte, bcast,
                   waiting, ret, filling, bufr, requestVars, ctxDone>>

(* finishRequest has closed the body; the reply may have been too short or *)
(* its write may have failed.                                              *)
shouldReuseConnection ==
    /\ pc = "reuse"
    /\ \/ ~closeAfterReply /\ ~(earlyClose /\ ~Wrapped(cur)) /\ pc' = "idle"
       \/ pc' = "close"
    /\ UNCHANGED <<clientVars, rwcVars, crVars, bgVars, waiting, ret, filling,
                   bufr, requestVars, ctxDone, panicked>>

(* StateIdle; the server may be shutting down, else Peek with IdleTimeout. *)
Idle ==
    /\ pc = "idle"
    /\ pc' \in {"close", IF ReadTimeout THEN "peek" ELSE "read"}
    /\ deadline' = NewDeadline
    /\ UNCHANGED <<clientVars, sock, expired, crVars, bgVars, waiting, ret,
                   filling, bufr, requestVars, ctxDone, panicked>>

Peek ==
    /\ pc = "peek" /\ bufr # <<>>
    /\ pc' = "read" /\ deadline' = NewDeadline
    /\ UNCHANGED <<clientVars, sock, expired, crVars, bgVars, waiting, ret,
                   filling, bufr, requestVars, ctxDone, panicked>>

Close ==
    /\ pc = "close" /\ pc' = "closed" /\ ctxDone' = TRUE
    /\ UNCHANGED <<clientVars, rwcVars, crVars, bgVars, waiting, ret, filling,
                   bufr, requestVars, panicked>>

-----------------------------------------------------------------------------
(* The request's body.                                                     *)

(* One byte of the body read for the handler, for the io.CopyN of          *)
(* writeHeader, or for that of body.Close.                                 *)
ReadBody ==
    LET b       == Head(bufr)
        chunked == script[cur].chunked
        isEnd   == chunked /\ trailer
        isLast  == chunked /\ ~trailer /\ IsLastChunk(b)
        isData  == ~chunked \/ (~trailer /\ IsData(b))
        isBad   == ~isEnd /\ ~isLast /\ ~isData
        eof     == isEnd \/ (~chunked /\ left = 1)
        tooBig  == pc = "discard" /\ isData /\ copied = maxPostHandlerReadBytes
        early   == pc = "closeBody" /\ isData /\ copied + 1 = maxPostHandlerReadBytes
        done    == eof \/ isBad \/ tooBig \/ early \/ (pc = "bodyRead" /\ isData)
        next    == IF ~done THEN pc ELSE IF pc = "bodyRead" THEN "handler"
                   ELSE IF pc = "discard" THEN "flush" ELSE ret
    IN
    /\ pc \in {"bodyRead", "discard", "closeBody"} /\ bufr # <<>>
    /\ bufr' = Tail(bufr)
    /\ left' = IF isData THEN left - 1 ELSE left
    /\ trailer' = isLast
    /\ sawEOF' = (sawEOF \/ eof) /\ badChunk' = (badChunk \/ isBad)
    /\ copied' = IF isData /\ pc # "bodyRead" THEN copied + 1 ELSE copied
    /\ earlyClose' = (earlyClose \/ early)
    /\ closed' = \/ closed
                 \/ pc = "closeBody" /\ done
                 \/ pc = "discard" /\ eof /\ ~tooBig
    /\ ecrSawEOF' = (ecrSawEOF \/ (pc = "bodyRead" /\ eof))
    /\ closeAfterReply' = (closeAfterReply \/ tooBig \/ (pc = "discard" /\ isBad))
    /\ IF eof THEN startBackgroundRead(next)
              ELSE pc' = next /\ UNCHANGED <<inRead, deadline, bg, panicked>>
    /\ UNCHANGED <<clientVars, sock, expired, byte, aborted, bgByte, bcast,
                   waiting, ret, filling, cur, wroteHeader, wroteContinue,
                   ecrClosed, reply, ctxDone>>

(* body.Close, up to the point where it has to read.                       *)
closeBody(next) ==
    LET closing == script[cur].close /\ ~script[cur].chunked
        tooBig  == ~script[cur].chunked /\ left > maxPostHandlerReadBytes
    IN
    /\ IF closed \/ sawEOF \/ badChunk \/ closing \/ tooBig
         THEN /\ closed' = TRUE /\ pc' = next
              /\ earlyClose' = \/ earlyClose
                               \/ tooBig /\ ~closed /\ ~sawEOF /\ ~closing
              /\ UNCHANGED <<ret, copied>>
         ELSE /\ pc' = "closeBody" /\ ret' = next /\ copied' = 0
              /\ UNCHANGED <<closed, earlyClose>>
    /\ UNCHANGED <<left, sawEOF, trailer, badChunk>>

-----------------------------------------------------------------------------
(* The handler.                                                            *)

\* A first read sends the 100 unless the handler has written before, be it
\* only into the buffer; a header it flushed does not keep the 100 back.
HandlerReadBody ==
    /\ pc = "handler" /\ HasBody(cur)
    /\ ~(Wrapped(cur) /\ ecrClosed)
    /\ \E canWriteContinue \in BOOLEAN :
            wroteContinue' = (wroteContinue \/ (Wrapped(cur) /\ canWriteContinue))
    /\ ecrSawEOF' = (ecrSawEOF \/ (sawEOF /\ ~closed))
    /\ pc' = IF closed \/ sawEOF \/ badChunk THEN "handler" ELSE "bodyRead"
    /\ UNCHANGED <<clientVars, rwcVars, crVars, bgVars, waiting, ret, filling,
                   bufr, cur, bodyVars, copied, wroteHeader, closeAfterReply,
                   ecrClosed, reply, ctxDone, panicked>>

HandlerCloseBody ==
    /\ pc = "handler" /\ HasBody(cur)
    /\ closeBody("handler")
    /\ ecrClosed' = TRUE
    /\ UNCHANGED <<clientVars, rwcVars, crVars, bgVars, waiting, filling, bufr,
                   cur, wroteHeader, closeAfterReply, wroteContinue, ecrSawEOF,
                   reply, ctxDone, panicked>>

HandlerFlush ==
    /\ pc = "handler" /\ ~wroteHeader
    /\ pc' = "header" /\ ret' = "handler"
    /\ UNCHANGED <<clientVars, rwcVars, crVars, bgVars, waiting, filling, bufr,
                   requestVars, ctxDone, panicked>>

HandlerReturn ==
    /\ pc = "handler"
    /\ pc' = IF wroteHeader THEN "abort" ELSE "header"
    /\ ret' = "abort"
    /\ UNCHANGED <<clientVars, rwcVars, crVars, bgVars, waiting, filling, bufr,
                   requestVars, ctxDone, panicked>>

HandlerHijack ==
    /\ pc = "handler"
    /\ pc' = "abort" /\ ret' = "hijack"
    /\ UNCHANGED <<clientVars, rwcVars, crVars, bgVars, waiting, filling, bufr,
                   requestVars, ctxDone, panicked>>

HandlerPanic ==
    /\ pc = "handler" /\ pc' = "close"
    /\ UNCHANGED <<clientVars, rwcVars, crVars, bgVars, waiting, ret, filling,
                   bufr, requestVars, ctxDone, panicked>>

\* Mutant of hijackLocked: the byte of the background read stays behind.
hijackLockedNoPeek ==
    /\ pc = "hijack" /\ pc' = "hijacked" /\ deadline' = "none"
    /\ UNCHANGED <<clientVars, sock, expired, crVars, bgVars, waiting, ret,
                   filling, bufr, requestVars, ctxDone, panicked>>

(* The end of hijackLocked: the byte of the background read moves to       *)
(* c.bufr, which Peek refuses when the buffer is full.                     *)
hijackLocked ==
    /\ pc = "hijack"
    /\ deadline' = "none"
    /\ IF byte # <<>> /\ Len(bufr) = BufCap
         THEN pc' = "hijackFailed" /\ UNCHANGED <<bufr, byte>>
         ELSE pc' = "hijacked" /\ bufr' = bufr \o byte /\ byte' = <<>>
    /\ UNCHANGED <<clientVars, sock, expired, inRead, aborted, bgVars, waiting,
                   ret, filling, requestVars, ctxDone, panicked>>

(* The handler drains the bufio.Reader it was given, then the socket.      *)
HijackRead ==
    /\ pc = "hijacked" /\ bufr \o sock # <<>>
    /\ IF bufr # <<>> THEN bufr' = Tail(bufr) /\ UNCHANGED sock
                      ELSE sock' = Tail(sock) /\ UNCHANGED bufr
    /\ UNCHANGED <<clientVars, deadline, expired, crVars, bgVars, waiting, pc,
                   ret, filling, requestVars, ctxDone, panicked>>

-----------------------------------------------------------------------------
(* The response.                                                           *)

\* Mutant of writeHeader: the reply to a request that expects 100-continue
\* keeps the connection whether or not the body was read.
writeHeaderKeeps ==
    \E asked \in BOOLEAN :
      LET close1  == asked \/ closeAfterReply \/ script[cur].close
          consume == HasBody(cur) /\ ~close1
          notEOF  == consume /\ ~Wrapped(cur) /\ closed /\ ~sawEOF
          tooBig  == /\ consume /\ ~Wrapped(cur) /\ ~closed
                     /\ ~script[cur].chunked /\ left >= maxPostHandlerReadBytes
          discard == /\ consume /\ ~closed /\ ~tooBig
                     /\ Wrapped(cur) => wroteContinue
      IN
      /\ pc = "header"
      /\ wroteHeader' = TRUE
      /\ closeAfterReply' = (close1 \/ notEOF \/ tooBig \/ (discard /\ badChunk))
      /\ closed' = (closed \/ (discard /\ sawEOF))
      /\ pc' = IF discard /\ ~sawEOF /\ ~badChunk THEN "discard" ELSE "flush"
      /\ copied' = 0
      /\ UNCHANGED <<clientVars, rwcVars, crVars, bgVars, waiting, ret, filling,
                     bufr, cur, left, sawEOF, earlyClose, trailer, badChunk,
                     wroteContinue, ecrClosed, ecrSawEOF, reply, ctxDone,
                     panicked>>

(* chunkWriter.writeHeader: whether to close, and whether to read what the *)
(* handler left of the body first.  The header, the client, or a shutdown  *)
(* may ask to close as well.                                               *)
writeHeader ==
    \E asked \in BOOLEAN :
      LET close1  == \/ asked \/ closeAfterReply \/ script[cur].close
                     \/ Wrapped(cur) /\ ~ecrSawEOF
          consume == HasBody(cur) /\ ~close1
          notEOF  == consume /\ ~Wrapped(cur) /\ closed /\ ~sawEOF
          tooBig  == /\ consume /\ ~Wrapped(cur) /\ ~closed
                     /\ ~script[cur].chunked /\ left >= maxPostHandlerReadBytes
          discard == /\ consume /\ ~closed /\ ~tooBig
                     /\ Wrapped(cur) => wroteContinue
      IN
      /\ pc = "header"
      /\ wroteHeader' = TRUE
      /\ closeAfterReply' = (close1 \/ notEOF \/ tooBig \/ (discard /\ badChunk))
      /\ closed' = (closed \/ (discard /\ sawEOF))
      /\ pc' = IF discard /\ ~sawEOF /\ ~badChunk THEN "discard" ELSE "flush"
      /\ copied' = 0
      /\ UNCHANGED <<clientVars, rwcVars, crVars, bgVars, waiting, ret, filling,
                     bufr, cur, left, sawEOF, earlyClose, trailer, badChunk,
                     wroteContinue, ecrClosed, ecrSawEOF, reply, ctxDone,
                     panicked>>

Flush ==
    /\ pc = "flush" /\ pc' = ret
    /\ reply' = IF closeAfterReply THEN "close" ELSE "keep"
    /\ UNCHANGED <<clientVars, rwcVars, crVars, bgVars, waiting, ret, filling,
                   bufr, cur, bodyVars, copied, respVars, ctxDone, panicked>>

(* The end of finishRequest, after abortPendingRead: w.reqBody.Close.      *)
finishRequest ==
    /\ pc = "closeReq"
    /\ IF HasBody(cur) THEN closeBody("reuse")
                       ELSE pc' = "reuse" /\ UNCHANGED <<bodyVars, ret, copied>>
    /\ UNCHANGED <<clientVars, rwcVars, crVars, bgVars, waiting, filling, bufr,
                   cur, respVars, reply, ctxDone, panicked>>

-----------------------------------------------------------------------------
Client     == ClientSend \/ ClientSkipBody \/ ClientClose
Background == BackgroundRead \/ BackgroundDone \/ Broadcast
Handler    == \/ HandlerReadBody \/ HandlerCloseBody \/ HandlerFlush
              \/ HandlerReturn \/ HandlerHijack \/ HandlerPanic \/ HijackRead
Serve      == \/ Read \/ ReadData \/ ReadError \/ ReadRequest \/ Dispatch
              \/ shouldReuseConnection \/ Idle \/ Peek \/ Close \/ ReadBody
              \/ hijackLocked \/ writeHeader \/ Flush \/ finishRequest
              \/ abortPendingRead \/ AbortWake

Next == Client \/ Background \/ Handler \/ Serve
Spec == Init /\ [][Next]_vars

(* The scheduler runs both goroutines; nothing makes a client send or a    *)
(* handler return.  A deadline may pass long after everything else.        *)
FairSpec == Spec /\ WF_vars(Background) /\ WF_vars(Serve)

-----------------------------------------------------------------------------
(* Properties.                                                             *)

(* The connection implements RequestStream: no byte is lost, repeated or   *)
(* moved ahead of another between bufio.Reader, byteBuf and socket; a body *)
(* ends where its request ends; no request is parsed out of a body; and    *)
(* Hijack hands over the stream from where it was.                         *)
Stage == CASE pc \in {"read", "idle", "peek"}          -> "idle"
           [] pc \in {"hijack", "hijacked", "hijackFailed"} -> "hijacked"
           [] pc \in {"close", "closed"}               -> "closed"
           [] OTHER                                    -> "busy"

Position ==
    IF cur = 0 THEN 0
    ELSE 1 + (script[cur].len - left)
           + (IF ~script[cur].chunked THEN 0
              ELSE IF sawEOF THEN 2 ELSE IF trailer THEN 1 ELSE 0)

Stream == INSTANCE RequestStream WITH
            script <- [r \in 1..MaxRequests |-> Total(r)],
            stream <- bufr \o byte \o bgByte \o sock,
            gone   <- peer = "closed",
            stage  <- Stage,
            cur    <- cur,
            pos    <- Position

Implements == Stream!Spec

(* Two goroutines never read the socket at once: no Read finds inRead set. *)
NoConcurrentRead == ~panicked

(* The deadline in the past that abortPendingRead sets is cleared before   *)
(* anyone else reads: no later request fails because of it.                *)
DeadlineCleared == deadline = "past" => pc = "wait"

(* The context of the connection is cancelled only because the client has  *)
(* gone or a deadline of the server has passed, never because a background *)
(* read was aborted.                                                       *)
CancelledOnlyWhenGone ==
    ctxDone => peer = "closed" \/ expired \/ pc = "closed"

(* Aborting a background read leaves nothing behind: neither a context     *)
(* that is cancelled nor a deadline that ends the next read.               *)
AbortLeavesNoTrace == CancelledOnlyWhenGone /\ DeadlineCleared

(* A hijacker finds everything in the bufio.Reader and the socket: no byte *)
(* is left in byteBuf, nobody reads the socket, no deadline is set, and    *)
(* the byte always fitted.                                                 *)
HijackComplete ==
    /\ pc # "hijackFailed"
    /\ pc = "hijacked" => /\ byte = <<>> /\ bgByte = <<>> /\ ~inRead
                          /\ deadline = "none"

-----------------------------------------------------------------------------
(* An inductive invariant for the safety properties above.                 *)

Ending  == \/ pc \in {"abort", "wait"} /\ ret = "abort"
           \/ pc \in {"discard", "flush", "closeReq", "reuse"}
           \/ pc = "closeBody" /\ ret = "reuse"

\* inRead says that exactly one of the two goroutines is in rwc.Read.
ReaderInv ==
    /\ inRead <=> (filling \/ bg # "off")
    /\ filling => bg = "off" /\ pc \in Reading /\ bufr = <<>> /\ byte = <<>>
    /\ bg # "data" => bgByte = <<>>

\* The deadline is in the past, and aborted set, while an abort waits.
DeadlineInv ==
    /\ deadline = "past" <=> pc = "wait"
    /\ aborted <=> (pc = "wait" /\ inRead)
    /\ bg = "timeout" => pc = "wait"

\* Where conn.serve may be while the background read is on.
BackgroundInv ==
    bg # "off" =>
      /\ pc \in {"handler", "header", "flush", "abort", "wait", "reuse",
                 "close", "closed"}
      /\ sawEOF
      /\ pc = "reuse" => closeAfterReply

\* Where a header, an abort or a body.Close returns to.
ReturnInv ==
    /\ pc \in {"header", "discard", "flush"} => ret \in {"handler", "abort"}
    /\ pc \in {"abort", "wait"} => ret \in {"abort", "hijack"}
    /\ pc = "closeBody" => ret \in {"handler", "reuse"}

\* A reply that keeps the connection is not sent before the body has gone.
EndInv ==
    /\ ecrSawEOF => sawEOF
    /\ pc = "dispatch" => ~wroteHeader /\ ~ecrSawEOF
    /\ Ending => wroteHeader
    /\ wroteHeader /\ pc # "discard" =>
          closeAfterReply \/ sawEOF \/ closed
    /\ pc = "closeBody" /\ ret = "reuse" => closeAfterReply
    /\ IF cur = 0 THEN pc \in {"read", "close", "closed"}
                  ELSE HasBody(cur) \/ sawEOF

\* There is room in c.bufr for the byte of the background read.
RoomInv ==
    \/ Len(bufr) < BufCap
    \/ /\ byte = <<>> /\ bg = "off"
       /\ pc \in Reading \union {"hijacked", "close", "closed"}

ContextInv ==
    /\ CancelledOnlyWhenGone
    /\ bg = "error" => peer = "closed" \/ pc = "closed"

IInv == /\ TypeOK /\ NoConcurrentRead /\ ReaderInv /\ DeadlineInv
        /\ BackgroundInv /\ ReturnInv /\ EndInv /\ RoomInv /\ ContextInv
        /\ HijackComplete

-----------------------------------------------------------------------------
(* Liveness.                                                               *)

(* abortPendingRead returns: the background read it interrupts ends and    *)
(* wakes it.                                                               *)
AbortReturns == (pc = "wait") ~> (pc # "wait")

(* When the client hangs up while a handler runs, the handler's context is *)
(* cancelled, once the body has been read and unless a pipelined byte came *)
(* first.                                                                  *)
Running(r) ==
    /\ cur = r
    /\ pc = "handler" \/ (pc \in {"header", "flush"} /\ ret = "handler")

HangUpCancels == \A r \in 1..MaxRequests :
    (/\ Running(r) /\ sawEOF
     /\ peer = "closed" /\ sock = <<>> /\ byte = <<>> /\ bgByte = <<>>)
      ~> (ctxDone \/ ~Running(r))

(* When the reply said Connection: close and the handler is done, the      *)
(* server closes the connection, whatever the client does meanwhile.       *)
(* writeHeader's comment says that the unread body of a request that       *)
(* expects 100-continue cannot be skipped, and body.Close's that there is  *)
(* no point in reading on when the connection is to be closed.             *)
SaidCloseCloses == (pc = "closeReq" /\ reply = "close") ~> (pc = "closed")
=============================================================================
