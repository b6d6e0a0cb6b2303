------------------------------ MODULE Transfer ------------------------------
(***************************************************************************)
(* How an HTTP/1 message says where its body ends: what Request.Write,     *)
(* Response.Write and their transferWriter put on the wire, and what       *)
(* readRequest, ReadResponse and their readTransfer make of it.            *)
(*                                                                         *)
(* A head is a record of what the rules look at: cl, the values of         *)
(* Content-Length; te, those of Transfer-Encoding; conn, the tokens of     *)
(* Connection; trailer, whether Trailer announces fields.  A body on the   *)
(* wire is so many bytes sent as they are, a sequence of chunk sizes, and  *)
(* whether the last chunk is there; which byte is which makes no           *)
(* difference, as both sides pass them in order.                           *)
(***************************************************************************)
EXTENDS Integers, Sequences

Bad == -2        \* the value of a Content-Length that is not a number
NoLength == -1   \* an unknown length, or no Content-Length

NoFields == [cl |-> <<>>, te |-> <<>>, conn |-> {}, trailer |-> FALSE]
NoWire == [raw |-> 0, chunks |-> <<>>, last |-> FALSE]

chunked(te) == te # <<>> /\ te[1] = "chunked"
isIdentity(te) == te = <<"identity">>
bodyAllowedForStatus(status) == status \notin (100..199) \cup {204, 304}
noResponseBodyExpected(method) == method = "HEAD"
requestMethodUsuallyLacksBody(method) == method \in {"GET", "HEAD", "DELETE", "OPTIONS"}

MinOf(a, b) == IF a < b THEN a ELSE b

\* What a caller may ask to be written: an encoding of those that are
\* understood, a length or none, and a body that has bytes only if it is read.
Encodings == {<<>>, <<"chunked">>, <<"identity">>}
RequestMessage ==
    {r \in [kind : {"request"}, method : STRING, host : STRING, urlHost : STRING,
            body : {"nil", "NoBody", "reader"}, size : Nat, contentLength : Nat \cup {NoLength},
            te : Encodings, close : BOOLEAN, trailer : {"none", "fields", "bad"}, slow : BOOLEAN] :
        r.size > 0 => r.body = "reader"}
ResponseMessage ==
    {r \in [kind : {"response"}, method : STRING, status : Nat, minor : {0, 1},
            body : {"nil", "NoBody", "reader"}, size : Nat, contentLength : Nat \cup {NoLength},
            te : Encodings, close : BOOLEAN, trailer : {"none", "fields", "bad"}] :
        r.size > 0 => r.body = "reader"}
-----------------------------------------------------------------------------
(* Writing.  A message to write has a body of a kind ("nil", "NoBody" or   *)
(* "reader"), the number of bytes a reader will give, and the fields the   *)
(* caller set: contentLength, te, close, trailer ("none", "fields", "bad").*)

\* Request.outgoingLength
outgoingLength(r) ==
    IF r.body # "reader" THEN 0 ELSE IF r.contentLength # 0 THEN r.contentLength ELSE NoLength

\* Mutant of shouldSendChunkedRequestBody: no other method is chunked unasked.
SendNoChunkedBody(r) == requestMethodUsuallyLacksBody(r.method) /\ (r.size > 0 \/ r.slow)

\* shouldSendChunkedRequestBody with probeRequestBody, which finds an empty
\* body to be empty unless reading its first byte takes too long.
shouldSendChunkedRequestBody(r) ==
    /\ r.method # "CONNECT"
    /\ requestMethodUsuallyLacksBody(r.method) => r.size > 0 \/ r.slow

\* newTransferWriter for a Request, and for a Response.
RequestTransfer(r) ==
    LET n == outgoingLength(r)
        asks == n < 0 /\ r.te = <<>>
        te == IF r.body = "nil" THEN <<>>
              ELSE IF asks /\ shouldSendChunkedRequestBody(r) THEN <<"chunked">> ELSE r.te
        empty == asks /\ requestMethodUsuallyLacksBody(r.method) /\ te = <<>>
    IN  [te |-> te, head |-> FALSE, method |-> r.method, close |-> r.close,
         body |-> r.body # "nil" /\ ~empty, size |-> r.size,
         length |-> IF chunked(te) THEN NoLength ELSE IF empty THEN 0 ELSE n,
         trailer |-> IF chunked(te) THEN r.trailer ELSE "none"]

ResponseTransfer(r) ==
    LET head == noResponseBodyExpected(r.method)
        te == IF ~head /\ (r.minor = 0 \/ r.body = "nil") THEN <<>> ELSE r.te
    IN  [te |-> te, head |-> head, method |-> r.method, close |-> r.close,
         body |-> r.body # "nil" /\ ~head, size |-> r.size,
         length |-> IF chunked(te) THEN NoLength
                    ELSE IF ~head /\ r.body = "nil" THEN 0 ELSE r.contentLength,
         trailer |-> IF chunked(te) THEN r.trailer ELSE "none"]

shouldSendContentLength(t) ==
    /\ ~chunked(t.te) /\ t.length >= 0
    /\ \/ t.length > 0
       \/ t.method \in {"POST", "PUT", "PATCH"}
       \/ isIdentity(t.te) /\ t.method \notin {"GET", "HEAD"}

\* transferWriter.writeHeader
TransferFields(t) ==
    [cl |-> IF shouldSendContentLength(t) THEN <<t.length>> ELSE <<>>,
     te |-> IF chunked(t.te) THEN <<"chunked">> ELSE <<>>,
     conn |-> IF t.close THEN {"close"} ELSE {},
     trailer |-> t.trailer = "fields"]

\* transferWriter.writeBody: the bytes that go out, and whether it fails
\* because the body was not as long as announced.
TransferBody(t) ==
    LET n == IF t.body THEN t.size ELSE 0
    IN  [err |-> ~t.head /\ t.length # NoLength /\ t.length # n,
         wire |-> [raw |-> IF ~t.body THEN 0 ELSE IF t.length = NoLength THEN n
                           ELSE MinOf(n, t.length),
                   chunks |-> IF n > 0 THEN <<n>> ELSE <<>>, last |-> TRUE]]
WireOf(t) ==
    LET w == TransferBody(t).wire
    IN  IF chunked(t.te) THEN [w EXCEPT !.raw = 0]
        ELSE [NoWire EXCEPT !.raw = w.raw]

Written(t, head) ==
    [err |-> t.trailer = "bad" \/ TransferBody(t).err, head |-> head, wire |-> WireOf(t)]

\* Request.write: the Host field is the request's or else its URL's, and may be
\* empty (a request without a URL is not written).
WriteRequest(r) ==
    LET t == RequestTransfer(r)
        host == IF r.host # "" THEN r.host ELSE r.urlHost
        w == Written(t, [method |-> r.method, minor |-> 1, urlHost |-> "",
                         hosts |-> <<host>>, fields |-> TransferFields(t)])
    IN  [w EXCEPT !.err = @ \/ (r.contentLength # 0 /\ r.body = "nil")]

\* Response.Write: it reads a byte of a body of length 0 to see whether it
\* has any, and ends a body whose length it does not know with the connection
\* (unless a client's transport has decompressed it, which is left out).
Sized(r) ==
    IF r.contentLength = 0 /\ r.body = "reader" /\ r.size > 0
    THEN [r EXCEPT !.contentLength = NoLength] ELSE r

\* Mutant of Closing: the connection stays open after a body of unknown length.
ClosingNever(r) == r

Closing(r) ==
    IF r.contentLength = NoLength /\ r.minor = 1 /\ ~chunked(r.te)
    THEN [r EXCEPT !.close = TRUE] ELSE r
WriteResponse(r) ==
    LET r1 == Closing(Sized(r))
        t == ResponseTransfer(r1)
        f == TransferFields(t)
        zero == /\ r1.contentLength = 0 /\ ~chunked(r1.te)
                /\ ~shouldSendContentLength(t) /\ bodyAllowedForStatus(r.status)
    IN  Written(t, [status |-> r.status, minor |-> r.minor,
                    fields |-> IF zero THEN [f EXCEPT !.cl = <<0>>] ELSE f])
-----------------------------------------------------------------------------
(* Reading.                                                                *)

\* shouldClose
shouldClose(minor, conn) ==
    "close" \in conn \/ (minor = 0 /\ "keep-alive" \notin conn)

\* parseTransferEncoding; HTTP/1.0 has none, and Transfer-Encoding hides
\* Content-Length.
BadEncoding(f, minor) == minor = 1 /\ f.te # <<>> /\ f.te # <<"chunked">>
IsChunked(f, minor) == minor = 1 /\ f.te = <<"chunked">>

\* fixLength: several equal lengths are one; a Request without a body has
\* length 0, a Response of unknown length -1.
BadLength(isResponse, status, method, cl) ==
    \/ \E i, j \in DOMAIN cl : cl[i] # cl[j]
    \/ ~isResponse /\ noResponseBodyExpected(method) /\ cl # <<>> /\ cl[1] # 0
    \/ ~noResponseBodyExpected(method) /\ bodyAllowedForStatus(status) /\ cl # <<>> /\ cl[1] = Bad
fixLength(isResponse, status, method, cl, isChunked) ==
    IF noResponseBodyExpected(method) \/ ~bodyAllowedForStatus(status) THEN 0
    ELSE IF isChunked THEN NoLength
    ELSE IF cl # <<>> THEN cl[1]
    ELSE IF isResponse THEN NoLength ELSE 0

\* readTransfer: how the body is to be read, and whether the connection ends with it.
readTransfer(isResponse, status, method, minor, f) ==
    LET isChunked == IsChunked(f, minor)
        cl == IF isChunked THEN <<>> ELSE f.cl
        realLength == fixLength(isResponse, status, method, cl, isChunked)
        ends == shouldClose(minor, f.conn)
        unbounded == isResponse /\ realLength = NoLength /\ ~isChunked
                     /\ bodyAllowedForStatus(status)
        close == ends \/ unbounded
    IN  [err |-> \/ BadEncoding(f, minor) \/ BadLength(isResponse, status, method, cl)
                 \/ isResponse /\ method = "HEAD" /\ cl # <<>> /\ cl[1] = Bad,
         close |-> close, length |-> realLength,
         trailer |-> f.trailer /\ isChunked,
         body |-> IF isChunked
                  THEN IF noResponseBodyExpected(method) \/ ~bodyAllowedForStatus(status)
                       THEN "none" ELSE "chunked"
                  ELSE IF realLength = 0 THEN "none"
                  ELSE IF realLength > 0 THEN "length"
                  ELSE IF close THEN "eof" ELSE "none"]

\* readRequest: what it makes of the Host fields, and then the body's length.
ReadRequest(head) ==
    LET t == readTransfer(FALSE, 200, head.method, head.minor, head.fields)
    IN  [err |-> t.err \/ Len(head.hosts) > 1, transfer |-> t,
         host |-> IF head.urlHost # "" \/ head.hosts = <<>> THEN head.urlHost ELSE head.hosts[1]]

\* ReadResponse, for a request with the given method.
ReadResponse(head, method) ==
    readTransfer(TRUE, head.status, method, head.minor, head.fields)

SumOf(s) == LET f[i \in 0..Len(s)] == IF i = 0 THEN 0 ELSE f[i - 1] + s[i] IN f[Len(s)]

\* The body as its reader delivers it: how many bytes, whether it came to a
\* proper end, and whether anything of the message is left on the connection.
\* A chunk of size zero ends a chunked body.
ReadBody(t, wire) ==
    LET zeros == {i \in DOMAIN wire.chunks : wire.chunks[i] = 0}
        n == IF t.body = "none" THEN 0 ELSE IF t.body = "chunked" THEN SumOf(wire.chunks)
             ELSE IF t.body = "length" THEN MinOf(t.length, wire.raw) ELSE wire.raw
    IN  [bytes |-> n,
         ok |-> CASE t.body = "chunked" -> wire.raw = 0 /\ wire.last /\ zeros = {}
                  [] t.body = "length" -> wire.chunks = <<>> /\ ~wire.last /\ wire.raw >= t.length
                  [] t.body = "eof" -> wire.chunks = <<>> /\ ~wire.last
                  [] OTHER -> TRUE,
         left |-> IF t.body = "chunked" THEN wire.raw > 0 \/ zeros # {}
                  ELSE wire.raw > n \/ wire.chunks # <<>> \/ wire.last]
-----------------------------------------------------------------------------
\* A request whose body has no end its reader could see: the caller asked for
\* the identity encoding without a length, or for a tunnel, or sends a body
\* with HEAD, which the reader takes to have none.
Unframed(r) ==
    \/ r.method = "HEAD" /\ r.body # "nil" /\ (r.size > 0 \/ r.slow \/ chunked(r.te))
    \/ /\ r.body = "reader" /\ outgoingLength(r) = NoLength
       /\ r.method = "CONNECT" \/ isIdentity(r.te)

\* What Request.Write sends without an error, the server reads: the same
\* host, a body of the same length that ends where it ends, the trailers
\* announced, and nothing of it left over for the next request.
RequestArrives(r) ==
    LET w == WriteRequest(r)
        t == ReadRequest(w.head)
        b == ReadBody(t.transfer, w.wire)
    IN  ~w.err /\ ~Unframed(r) =>
            /\ ~t.err /\ b.ok /\ ~b.left
            /\ b.bytes = IF r.body = "reader" THEN r.size ELSE 0
            /\ t.host = IF r.host # "" THEN r.host ELSE r.urlHost
            /\ r.close => t.transfer.close
            /\ t.transfer.trailer = (w.head.fields.te # <<>> /\ r.trailer = "fields")

\* A reply whose end is neither said nor a close: the caller asked for chunks
\* or a length without a body, and newTransferWriter drops either after
\* Response.Write has relied on it.
Unclosed(r) == r.minor = 1 /\ r.body = "nil" /\ (chunked(r.te) \/ r.contentLength > 0)

\* What Response.Write sends without an error, ReadResponse reads, and a
\* client that may use the connection again finds nothing left on it; where
\* only a close ends the body, the head announces it.
\* A reply that may have no body is one the caller gave none.
ResponseArrives(r) ==
    LET w == WriteResponse(r)
        t == ReadResponse(w.head, r.method)
        b == ReadBody(t, w.wire)
        none == r.method = "HEAD" \/ r.body # "reader"
    IN  ~w.err /\ (bodyAllowedForStatus(r.status) \/ (none /\ r.te = <<>>))
               /\ ~(r.method = "HEAD" /\ chunked(r.te)) =>
            /\ ~t.err /\ b.ok /\ (~t.close => ~b.left)
            /\ b.bytes = IF none THEN 0 ELSE r.size
            /\ r.close => t.close
            /\ t.body = "eof" /\ ~Unclosed(r) => shouldClose(r.minor, w.head.fields.conn)
=============================================================================
