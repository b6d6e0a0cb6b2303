----------------------------- MODULE MCHandlers -----------------------------
(***************************************************************************)
(* Handlers for model checking: the flags, patterns, requests, replies and *)
(* messages.                                                               *)
(***************************************************************************)
EXTENDS Handlers, TLC

MCFlagSets == {{}, {"file"}, {"file", "msgprefix", "time"}}

MCPatterns == {<<"/">>, <<"/", "a">>, <<"/", "a", "/">>, <<"/", "a", "/", "b", "/">>,
             <<"h", "/">>, <<"h", "/", "a", "/">>, <<"host:port", "/", "a", "/">>}
CleanPaths == {<<"/">>, <<"/", "a">>, <<"/", "a", "/">>, <<"/", "a", "/", "b">>}
OtherPaths == {<<>>, <<"*">>, <<"/", "/", "a">>, <<"/", "b", "/", "..", "/", "a", "/">>,
               <<"/", "a", "/", "b", "/", ".">>}
MCRequests == [method : {"GET"}, host : {"h", "g"}, port : BOOLEAN, path : CleanPaths \cup OtherPaths]
            \cup [method : {"CONNECT"}, host : {"h", "g"}, port : BOOLEAN, path : CleanPaths \cup {<<>>}]

MCExchanges == {e \in [method : {"GET", "HEAD"}, minor : {0, 1}, wants10KeepAlive : BOOLEAN,
                     wantsClose : BOOLEAN, status : {200, 204}, cl : {-1, 0, 3},
                     te : {<<>>, <<"chunked">>, <<"identity">>},
                     conn : {{}, {"close"}, {"keep-alive"}}, trailers : BOOLEAN, expects : BOOLEAN] :
                  /\ e.wants10KeepAlive => e.minor = 0
                  /\ e.wantsClose => e.minor = 1
                  /\ e.expects => e.minor = 1 /\ e.method = "GET"}

Bodies == {b \in [body : {"nil", "NoBody", "reader"}, size : 0..2] : b.size > 0 => b.body = "reader"}
RequestMessages ==
    {[kind |-> "request", method |-> q.method, host |-> q.host, urlHost |-> q.urlHost,
      body |-> b.body, size |-> b.size, contentLength |-> q.contentLength, te |-> q.te,
      close |-> q.close, trailer |-> q.trailer, slow |-> q.slow] :
        b \in Bodies,
        q \in [method : {"GET", "POST", "HEAD", "CONNECT"}, host : {"", "h"}, urlHost : {"", "u"},
               contentLength : -1..2, te : RW!Encodings, close : BOOLEAN,
               trailer : {"none", "fields", "bad"}, slow : BOOLEAN]}
ResponseMessages ==
    {[kind |-> "response", method |-> q.method, status |-> q.status, minor |-> q.minor,
      body |-> b.body, size |-> b.size, contentLength |-> q.contentLength, te |-> q.te,
      close |-> q.close, trailer |-> q.trailer] :
        b \in Bodies,
        q \in [method : {"GET", "POST", "HEAD"}, status : {200, 204, 304}, minor : {0, 1},
               contentLength : -1..2, te : RW!Encodings, close : BOOLEAN,
               trailer : {"none", "fields", "bad"}]}
MCMessages == RequestMessages \cup ResponseMessages
=============================================================================
