-------------------------- MODULE ServeConn_proofs --------------------------
(***************************************************************************)
(* Proofs about ServeConn: its inductive invariant IInv, from it the       *)
(* safety properties, and at the end that a connection takes the steps of  *)
(* RequestStream.                                                          *)
(***************************************************************************)
EXTENDS ServeConn, SequenceTheorems, TLAPS

(* The bytes in c.bufr belong to the client's requests, and taking one     *)
(* makes room.                                                             *)
LEMMA HeadFact ==
    ASSUME TypeOK, bufr # <<>>
    PROVE  /\ Head(bufr) \in Bytes /\ Head(bufr)[1] \in 1..MaxRequests
           /\ Tail(bufr) \in Seq(Bytes)
           /\ Len(Tail(bufr)) = Len(bufr) - 1
           /\ Len(Tail(bufr)) < BufCap
<1>1. bufr \in Seq(Bytes) /\ Len(bufr) <= BufCap
    BY DEF TypeOK, StreamType
<1>2. Head(bufr) \in Bytes /\ Tail(bufr) \in Seq(Bytes)
      /\ Len(Tail(bufr)) = Len(bufr) - 1
    BY <1>1
<1>3. Head(bufr)[1] \in 1..MaxRequests
    BY <1>2 DEF Bytes
<1>4. Len(Tail(bufr)) < BufCap
    BY <1>1, <1>2, LimitsAssumption
<1> QED
    BY <1>2, <1>3, <1>4

(* The bytes on their way are bytes of the client's requests.              *)
LEMMA StreamTypeStep == IInv /\ [Next]_vars => StreamType'
<1> SUFFICES ASSUME IInv, [Next]_vars PROVE StreamType'
    OBVIOUS
<1> USE DEF IInv, TypeOK, StreamType, ReaderInv, clientVars, rwcVars, crVars,
            bgVars, bodyVars, respVars, requestVars
<1>1. ASSUME ClientSend PROVE StreamType'
  <2>1. creq \in 1..MaxRequests /\ cpos \in Nat /\ cpos + 1 \in Nat
      BY <1>1, RequestsAssumption DEF ClientSend
  <2>2. creq + 1 \in 1..(MaxRequests + 1)
      BY <1>1, <2>1, RequestsAssumption DEF ClientSend
  <2>3. <<creq, cpos>> \in Bytes
      BY <2>1 DEF Bytes
  <2>4. creq' \in 1..(MaxRequests + 1) /\ cpos' \in Nat
      BY <1>1, <2>1, <2>2, <2>3 DEF ClientSend
  <2>5. sock' \in Seq(Bytes)
      BY <1>1, <2>1, <2>2, <2>3, <2>4 DEF ClientSend
  <2> QED
      BY <1>1, <2>1, <2>2, <2>3, <2>4, <2>5 DEF ClientSend
<1>2. ASSUME ClientSkipBody PROVE StreamType'
  <2>1. creq' \in 1..(MaxRequests + 1) /\ cpos' \in Nat
      BY <1>2, RequestsAssumption DEF ClientSkipBody
  <2> QED
      BY <1>2, <2>1 DEF ClientSkipBody
<1>3. ASSUME ClientClose PROVE StreamType'
    BY <1>3 DEF ClientClose
<1>4. ASSUME BackgroundRead PROVE StreamType'
  <2>1. sock # <<>> => Head(sock) \in Bytes /\ Tail(sock) \in Seq(Bytes)
      BY <1>4 DEF BackgroundRead
  <2>2. sock' \in Seq(Bytes)
      BY <1>4, <2>1 DEF BackgroundRead
  <2>3. bgByte' = bgByte \/ (sock # <<>> /\ bgByte' = <<Head(sock)>>)
      BY <1>4, <2>1, <2>2 DEF BackgroundRead
  <2>4. sock # <<>> => <<Head(sock)>> \in Seq(Bytes) /\ Len(<<Head(sock)>>) = 1
      BY <2>1
  <2>5. bgByte \in Seq(Bytes) /\ Len(bgByte) <= 1
      BY IInv
  <2>6. bgByte' \in Seq(Bytes)
      BY <2>3, <2>4, <2>5
  <2>7. bgByte' = bgByte \/ Len(bgByte') = 1
      BY <2>3, <2>4, Zenon
  <2>8. Len(bgByte') <= 1
      <3>1. CASE bgByte' = bgByte
          BY ONLY <2>5, <3>1, Zenon
      <3>2. CASE Len(bgByte') = 1
          BY ONLY <3>2
      <3> QED
          BY <2>7, <3>1, <3>2, Zenon
  <2> QED
      BY <1>4, <2>1, <2>2, <2>3, <2>4, <2>5, <2>6, <2>7, <2>8 DEF
         BackgroundRead
<1>5. ASSUME BackgroundDone PROVE StreamType'
    BY <1>5 DEF BackgroundDone
<1>6. ASSUME Broadcast PROVE StreamType'
    BY <1>6 DEF Broadcast
<1>7. ASSUME HandlerReadBody PROVE StreamType'
    BY <1>7 DEF HandlerReadBody
<1>8. ASSUME HandlerCloseBody PROVE StreamType'
    BY <1>8 DEF HandlerCloseBody, closeBody
<1>9. ASSUME HandlerFlush PROVE StreamType'
    BY <1>9 DEF HandlerFlush
<1>10. ASSUME HandlerReturn PROVE StreamType'
    BY <1>10 DEF HandlerReturn
<1>11. ASSUME HandlerHijack PROVE StreamType'
    BY <1>11 DEF HandlerHijack
<1>12. ASSUME HandlerPanic PROVE StreamType'
    BY <1>12 DEF HandlerPanic
<1>13. ASSUME HijackRead PROVE StreamType'
  <2>1. sock # <<>> => Tail(sock) \in Seq(Bytes)
      BY <1>13 DEF HijackRead
  <2>2. bufr # <<>> => Tail(bufr) \in Seq(Bytes) /\ Len(Tail(bufr)) <= BufCap
      BY <1>13, <2>1, HeadFact, LimitsAssumption DEF HijackRead
  <2>3. bufr = <<>> => bufr \o sock = sock
      BY <1>13, <2>1, <2>2 DEF HijackRead
  <2>4. sock' \in Seq(Bytes) /\ bufr' \in Seq(Bytes) /\ Len(bufr') <= BufCap
      BY <1>13, <2>1, <2>2, <2>3 DEF HijackRead
  <2> QED
      BY <1>13, <2>1, <2>2, <2>3, <2>4 DEF HijackRead
<1>14. ASSUME Read PROVE StreamType'
  <2>1. bufr' \in Seq(Bytes) /\ Len(bufr') <= BufCap
      BY <1>14, LimitsAssumption DEF Read
  <2>2. byte' \in Seq(Bytes) /\ Len(byte') <= 1
      BY <1>14, <2>1 DEF Read
  <2> QED
      BY <1>14, <2>1, <2>2 DEF Read
<1>15. ASSUME ReadData PROVE StreamType'
    BY <1>15 DEF ReadData
<1>16. ASSUME ReadError PROVE StreamType'
    BY <1>16 DEF ReadError
<1>17. ASSUME ReadRequest PROVE StreamType'
  <2>1. bufr' \in Seq(Bytes) /\ Len(bufr') <= BufCap
      BY <1>17, HeadFact, LimitsAssumption DEF ReadRequest
  <2>2. cur' \in 0..MaxRequests
      BY <1>17, <2>1, HeadFact, RequestsAssumption DEF ReadRequest
  <2> QED
      BY <1>17, <2>1, <2>2 DEF ReadRequest
<1>18. ASSUME Dispatch PROVE StreamType'
    BY <1>18 DEF Dispatch, startBackgroundRead
<1>19. ASSUME shouldReuseConnection PROVE StreamType'
    BY <1>19 DEF shouldReuseConnection
<1>20. ASSUME Idle PROVE StreamType'
    BY <1>20 DEF Idle, NewDeadline
<1>21. ASSUME Peek PROVE StreamType'
    BY <1>21 DEF Peek, NewDeadline
<1>22. ASSUME Close PROVE StreamType'
    BY <1>22 DEF Close
<1>23. ASSUME ReadBody PROVE StreamType'
  <2>1. bufr' \in Seq(Bytes) /\ Len(bufr') <= BufCap
      BY <1>23, HeadFact, LimitsAssumption DEF ReadBody, startBackgroundRead
  <2> QED
      BY <1>23, <2>1 DEF ReadBody, startBackgroundRead
<1>24. ASSUME hijackLocked PROVE StreamType'
  <2>1. bufr \o byte \in Seq(Bytes) /\ Len(bufr \o byte) = Len(bufr) + Len(byte)
      BY <1>24 DEF hijackLocked
  <2>2. bufr' \in Seq(Bytes)
      BY <1>24, <2>1 DEF hijackLocked
  <2>3. Len(bufr') <= BufCap
      BY <1>24, <2>1, <2>2, LimitsAssumption DEF hijackLocked
  <2>4. byte' = byte \/ byte' = <<>>
      BY <1>24, <2>1, <2>2, <2>3 DEF hijackLocked
  <2>5. byte \in Seq(Bytes) /\ Len(byte) <= 1
      BY IInv
  <2>6. <<>> \in Seq(Bytes) /\ Len(<<>>) = 0
      BY IInv
  <2>7. byte' \in Seq(Bytes)
      BY <2>4, <2>5, <2>6
  <2>8. Len(byte') <= 1
      BY <2>4, <2>5, <2>6
  <2> QED
      BY <1>24, <2>1, <2>2, <2>3, <2>4, <2>5, <2>6, <2>7, <2>8 DEF hijackLocked
<1>25. ASSUME writeHeader PROVE StreamType'
    BY <1>25 DEF writeHeader
<1>26. ASSUME Flush PROVE StreamType'
    BY <1>26 DEF Flush
<1>27. ASSUME finishRequest PROVE StreamType'
    BY <1>27 DEF finishRequest, closeBody
<1>28. ASSUME abortPendingRead PROVE StreamType'
    BY <1>28 DEF abortPendingRead, AfterAbort
<1>29. ASSUME AbortWake PROVE StreamType'
    BY <1>29 DEF AbortWake, AfterAbort
<1>30. ASSUME UNCHANGED vars PROVE StreamType'
    BY <1>30 DEF vars
<1> QED
    BY <1>1, <1>2, <1>3, <1>4, <1>5, <1>6, <1>7, <1>8, <1>9, <1>10, <1>11,
       <1>12, <1>13, <1>14, <1>15, <1>16, <1>17, <1>18, <1>19, <1>20, <1>21,
       <1>22, <1>23, <1>24, <1>25, <1>26, <1>27, <1>28, <1>29, <1>30 DEF Next,
       Client, Background, Handler, Serve

(* The readers and the serving goroutine keep their types.                 *)
LEMMA ReaderTypeStep == IInv /\ [Next]_vars => ReaderType'
<1> SUFFICES ASSUME IInv, [Next]_vars PROVE ReaderType'
    OBVIOUS
<1> USE DEF IInv, TypeOK, ReaderType, ReturnInv, clientVars, rwcVars, crVars,
            bgVars, bodyVars, respVars, requestVars
<1>1. ASSUME ClientSend PROVE ReaderType'
    BY <1>1 DEF ClientSend
<1>2. ASSUME ClientSkipBody PROVE ReaderType'
    BY <1>2 DEF ClientSkipBody
<1>3. ASSUME ClientClose PROVE ReaderType'
    BY <1>3 DEF ClientClose
<1>4. ASSUME BackgroundRead PROVE ReaderType'
    BY <1>4 DEF BackgroundRead
<1>5. ASSUME BackgroundDone PROVE ReaderType'
  <2>1. ctxDone' \in BOOLEAN /\ bcast' \in Nat
      BY <1>5 DEF BackgroundDone
  <2> QED
      BY <1>5, <2>1 DEF BackgroundDone
<1>6. ASSUME Broadcast PROVE ReaderType'
  <2>1. bcast' \in Nat
      BY <1>6 DEF Broadcast
  <2>2. waiting' \in BOOLEAN
      BY <1>6, <2>1 DEF Broadcast
  <2> QED
      BY <1>6, <2>1, <2>2 DEF Broadcast
<1>7. ASSUME HandlerReadBody PROVE ReaderType'
  <2>1. pc' \in ServePc
      BY <1>7 DEF HandlerReadBody, ServePc, ReaderInv, Reading
  <2> QED
      BY <1>7, <2>1 DEF HandlerReadBody
<1>8. ASSUME HandlerCloseBody PROVE ReaderType'
  <2>1. pc' \in ServePc
      BY <1>8 DEF HandlerCloseBody, closeBody, ServePc, ReaderInv, Reading
  <2>2. ret' \in {"none", "handler", "abort", "hijack", "reuse"}
      BY <1>8, <2>1 DEF HandlerCloseBody, closeBody
  <2> QED
      BY <1>8, <2>1, <2>2 DEF HandlerCloseBody, closeBody
<1>9. ASSUME HandlerFlush PROVE ReaderType'
  <2>1. pc' \in ServePc
      BY <1>9 DEF HandlerFlush, ServePc, ReaderInv, Reading
  <2> QED
      BY <1>9, <2>1 DEF HandlerFlush
<1>10. ASSUME HandlerReturn PROVE ReaderType'
  <2>1. pc' \in ServePc
      BY <1>10 DEF HandlerReturn, ServePc, ReaderInv, Reading
  <2> QED
      BY <1>10, <2>1 DEF HandlerReturn
<1>11. ASSUME HandlerHijack PROVE ReaderType'
  <2>1. pc' \in ServePc
      BY <1>11 DEF HandlerHijack, ServePc, ReaderInv, Reading
  <2> QED
      BY <1>11, <2>1 DEF HandlerHijack
<1>12. ASSUME HandlerPanic PROVE ReaderType'
  <2>1. pc' \in ServePc
      BY <1>12 DEF HandlerPanic, ServePc, ReaderInv, Reading
  <2> QED
      BY <1>12, <2>1 DEF HandlerPanic
<1>13. ASSUME HijackRead PROVE ReaderType'
    BY <1>13 DEF HijackRead
<1>14. ASSUME Read PROVE ReaderType'
  <2>1. pc' \in ServePc /\ panicked' \in BOOLEAN
      BY <1>14 DEF Read, ServePc, ReaderInv, Reading
  <2>2. inRead' \in BOOLEAN /\ filling' \in BOOLEAN
      BY <1>14, <2>1 DEF Read
  <2> QED
      BY <1>14, <2>1, <2>2 DEF Read
<1>15. ASSUME ReadData PROVE ReaderType'
  <2>1. filling' \in BOOLEAN /\ inRead' \in BOOLEAN
      BY <1>15 DEF ReadData
  <2> QED
      BY <1>15, <2>1 DEF ReadData
<1>16. ASSUME ReadError PROVE ReaderType'
  <2>1. pc' \in ServePc
      BY <1>16 DEF ReadError, ServePc, ReaderInv, Reading
  <2>2. expired' \in BOOLEAN
      BY <1>16, <2>1 DEF ReadError
  <2>3. bg' \in {"off", "read", "data", "error", "timeout"} /\ inRead' \in BOOLEAN
          /\ deadline' \in {"none", "armed", "past"}
      BY <1>16, <2>1, <2>2 DEF ReadError
  <2> QED
      BY <1>16, <2>1, <2>2, <2>3 DEF ReadError
<1>17. ASSUME ReadRequest PROVE ReaderType'
  <2>1. pc' \in ServePc
      BY <1>17 DEF ReadRequest, ServePc, ReaderInv, Reading
  <2> QED
      BY <1>17, <2>1 DEF ReadRequest
<1>18. ASSUME Dispatch PROVE ReaderType'
  <2>1. pc' \in ServePc /\ panicked' \in BOOLEAN
      BY <1>18 DEF Dispatch, startBackgroundRead, ServePc, ReaderInv, Reading
  <2>2. bg' \in {"off", "read", "data", "error", "timeout"} /\ inRead' \in BOOLEAN
          /\ deadline' \in {"none", "armed", "past"}
      BY <1>18, <2>1 DEF Dispatch, startBackgroundRead
  <2> QED
      BY <1>18, <2>1, <2>2 DEF Dispatch, startBackgroundRead
<1>19. ASSUME shouldReuseConnection PROVE ReaderType'
  <2>1. pc' \in ServePc
      BY <1>19 DEF shouldReuseConnection, ServePc, ReaderInv, Reading
  <2> QED
      BY <1>19, <2>1 DEF shouldReuseConnection
<1>20. ASSUME Idle PROVE ReaderType'
  <2>1. pc' \in ServePc
      BY <1>20 DEF Idle, NewDeadline, ServePc, ReaderInv, Reading
  <2>2. deadline' \in {"none", "armed", "past"}
      BY <1>20, <2>1 DEF Idle, NewDeadline
  <2> QED
      BY <1>20, <2>1, <2>2 DEF Idle, NewDeadline
<1>21. ASSUME Peek PROVE ReaderType'
  <2>1. pc' \in ServePc
      BY <1>21 DEF Peek, NewDeadline, ServePc, ReaderInv, Reading
  <2>2. deadline' \in {"none", "armed", "past"}
      BY <1>21, <2>1 DEF Peek, NewDeadline
  <2> QED
      BY <1>21, <2>1, <2>2 DEF Peek, NewDeadline
<1>22. ASSUME Close PROVE ReaderType'
  <2>1. pc' \in ServePc
      BY <1>22 DEF Close, ServePc, ReaderInv, Reading
  <2> QED
      BY <1>22, <2>1 DEF Close
<1>23. ASSUME ReadBody PROVE ReaderType'
  <2>1. pc' \in ServePc /\ panicked' \in BOOLEAN
      BY <1>23 DEF ReadBody, startBackgroundRead, ServePc, ReaderInv, Reading
  <2>2. bg' \in {"off", "read", "data", "error", "timeout"} /\ inRead' \in BOOLEAN
          /\ deadline' \in {"none", "armed", "past"}
      BY <1>23, <2>1 DEF ReadBody, startBackgroundRead
  <2> QED
      BY <1>23, <2>1, <2>2 DEF ReadBody, startBackgroundRead
<1>24. ASSUME hijackLocked PROVE ReaderType'
  <2>1. pc' \in ServePc
      BY <1>24 DEF hijackLocked, ServePc, ReaderInv, Reading
  <2>2. deadline' \in {"none", "armed", "past"}
      BY <1>24, <2>1 DEF hijackLocked
  <2> QED
      BY <1>24, <2>1, <2>2 DEF hijackLocked
<1>25. ASSUME writeHeader PROVE ReaderType'
  <2>1. pc' \in ServePc
      BY <1>25 DEF writeHeader, ServePc, ReaderInv, Reading
  <2> QED
      BY <1>25, <2>1 DEF writeHeader
<1>26. ASSUME Flush PROVE ReaderType'
  <2>1. pc' \in ServePc
      BY <1>26 DEF Flush, ServePc, ReaderInv, Reading
  <2> QED
      BY <1>26, <2>1 DEF Flush
<1>27. ASSUME finishRequest PROVE ReaderType'
  <2>1. pc' \in ServePc
      BY <1>27 DEF finishRequest, closeBody, ServePc, ReaderInv, Reading
  <2>2. ret' \in {"none", "handler", "abort", "hijack", "reuse"}
      BY <1>27, <2>1 DEF finishRequest, closeBody
  <2> QED
      BY <1>27, <2>1, <2>2 DEF finishRequest, closeBody
<1>28. ASSUME abortPendingRead PROVE ReaderType'
  <2>1. pc' \in ServePc
      BY <1>28 DEF abortPendingRead, AfterAbort, ServePc, ReaderInv, Reading
  <2>2. aborted' \in BOOLEAN /\ waiting' \in BOOLEAN
          /\ deadline' \in {"none", "armed", "past"}
      BY <1>28, <2>1 DEF abortPendingRead, AfterAbort
  <2> QED
      BY <1>28, <2>1, <2>2 DEF abortPendingRead, AfterAbort
<1>29. ASSUME AbortWake PROVE ReaderType'
  <2>1. pc' \in ServePc
      BY <1>29 DEF AbortWake, AfterAbort, ServePc, ReaderInv, Reading
  <2>2. waiting' \in BOOLEAN /\ deadline' \in {"none", "armed", "past"}
      BY <1>29, <2>1 DEF AbortWake, AfterAbort
  <2> QED
      BY <1>29, <2>1, <2>2 DEF AbortWake, AfterAbort
<1>30. ASSUME UNCHANGED vars PROVE ReaderType'
    BY <1>30 DEF vars
<1> QED
    BY <1>1, <1>2, <1>3, <1>4, <1>5, <1>6, <1>7, <1>8, <1>9, <1>10, <1>11,
       <1>12, <1>13, <1>14, <1>15, <1>16, <1>17, <1>18, <1>19, <1>20, <1>21,
       <1>22, <1>23, <1>24, <1>25, <1>26, <1>27, <1>28, <1>29, <1>30 DEF Next,
       Client, Background, Handler, Serve

(* The body and the response keep their types.                             *)
LEMMA RequestTypeStep == IInv /\ [Next]_vars => RequestType'
<1> SUFFICES ASSUME IInv, [Next]_vars PROVE RequestType'
    OBVIOUS
<1> USE DEF IInv, TypeOK, RequestType, StreamType, clientVars, rwcVars, crVars,
            bgVars, bodyVars, respVars, requestVars
<1>1. ASSUME ClientSend PROVE RequestType'
    BY <1>1 DEF ClientSend
<1>2. ASSUME ClientSkipBody PROVE RequestType'
    BY <1>2 DEF ClientSkipBody
<1>3. ASSUME ClientClose PROVE RequestType'
    BY <1>3 DEF ClientClose
<1>4. ASSUME BackgroundRead PROVE RequestType'
    BY <1>4 DEF BackgroundRead
<1>5. ASSUME BackgroundDone PROVE RequestType'
    BY <1>5 DEF BackgroundDone
<1>6. ASSUME Broadcast PROVE RequestType'
    BY <1>6 DEF Broadcast
<1>7. ASSUME HandlerReadBody PROVE RequestType'
    BY <1>7 DEF HandlerReadBody
<1>8. ASSUME HandlerCloseBody PROVE RequestType'
  <2>1. closed' \in BOOLEAN /\ earlyClose' \in BOOLEAN
      BY <1>8 DEF HandlerCloseBody, closeBody
  <2>2. copied' = copied \/ copied' = 0
      BY <1>8, <2>1 DEF HandlerCloseBody, closeBody
  <2>3. copied' \in Nat
      BY <1>8, <2>1, <2>2 DEF HandlerCloseBody, closeBody
  <2> QED
      BY <1>8, <2>1, <2>2, <2>3 DEF HandlerCloseBody, closeBody
<1>9. ASSUME HandlerFlush PROVE RequestType'
    BY <1>9 DEF HandlerFlush
<1>10. ASSUME HandlerReturn PROVE RequestType'
    BY <1>10 DEF HandlerReturn
<1>11. ASSUME HandlerHijack PROVE RequestType'
    BY <1>11 DEF HandlerHijack
<1>12. ASSUME HandlerPanic PROVE RequestType'
    BY <1>12 DEF HandlerPanic
<1>13. ASSUME HijackRead PROVE RequestType'
    BY <1>13 DEF HijackRead
<1>14. ASSUME Read PROVE RequestType'
    BY <1>14 DEF Read
<1>15. ASSUME ReadData PROVE RequestType'
    BY <1>15 DEF ReadData
<1>16. ASSUME ReadError PROVE RequestType'
    BY <1>16 DEF ReadError
<1>17. ASSUME ReadRequest PROVE RequestType'
  <2>1. Head(bufr)[1] \in 1..MaxRequests
      BY <1>17, HeadFact DEF ReadRequest
  <2>2. script[Head(bufr)[1]] \in Requests
      BY <1>17, <2>1 DEF ReadRequest
  <2>3. script[Head(bufr)[1]].len \in Int
      BY <1>17, <2>1, <2>2, RequestsAssumption DEF ReadRequest
  <2>4. left' \in Int
      BY <1>17, <2>1, <2>2, <2>3 DEF ReadRequest
  <2>5. sawEOF' \in BOOLEAN
      BY <1>17, <2>1, <2>2, <2>3, <2>4 DEF ReadRequest
  <2>6. closed' \in BOOLEAN /\ earlyClose' \in BOOLEAN
          /\ trailer' \in BOOLEAN /\ badChunk' \in BOOLEAN
      BY <1>17, <2>1, <2>2, <2>3, <2>4, <2>5 DEF ReadRequest
  <2> QED
      BY <1>17, <2>1, <2>2, <2>3, <2>4, <2>5, <2>6 DEF ReadRequest
<1>18. ASSUME Dispatch PROVE RequestType'
    BY <1>18 DEF Dispatch, startBackgroundRead
<1>19. ASSUME shouldReuseConnection PROVE RequestType'
    BY <1>19 DEF shouldReuseConnection
<1>20. ASSUME Idle PROVE RequestType'
    BY <1>20 DEF Idle, NewDeadline
<1>21. ASSUME Peek PROVE RequestType'
    BY <1>21 DEF Peek, NewDeadline
<1>22. ASSUME Close PROVE RequestType'
    BY <1>22 DEF Close
<1>23. ASSUME ReadBody PROVE RequestType'
    BY <1>23, HeadFact DEF ReadBody, startBackgroundRead
<1>24. ASSUME hijackLocked PROVE RequestType'
    BY <1>24 DEF hijackLocked
<1>25. ASSUME writeHeader PROVE RequestType'
    BY <1>25 DEF writeHeader
<1>26. ASSUME Flush PROVE RequestType'
    BY <1>26 DEF Flush
<1>27. ASSUME finishRequest PROVE RequestType'
  <2>1. closed' \in BOOLEAN /\ earlyClose' \in BOOLEAN
      BY <1>27 DEF finishRequest, closeBody
  <2>2. copied' = copied \/ copied' = 0
      BY <1>27, <2>1 DEF finishRequest, closeBody
  <2>3. copied' \in Nat
      BY <1>27, <2>1, <2>2 DEF finishRequest, closeBody
  <2> QED
      BY <1>27, <2>1, <2>2, <2>3 DEF finishRequest, closeBody
<1>28. ASSUME abortPendingRead PROVE RequestType'
    BY <1>28 DEF abortPendingRead, AfterAbort
<1>29. ASSUME AbortWake PROVE RequestType'
    BY <1>29 DEF AbortWake, AfterAbort
<1>30. ASSUME UNCHANGED vars PROVE RequestType'
    BY <1>30 DEF vars
<1> QED
    BY <1>1, <1>2, <1>3, <1>4, <1>5, <1>6, <1>7, <1>8, <1>9, <1>10, <1>11,
       <1>12, <1>13, <1>14, <1>15, <1>16, <1>17, <1>18, <1>19, <1>20, <1>21,
       <1>22, <1>23, <1>24, <1>25, <1>26, <1>27, <1>28, <1>29, <1>30 DEF Next,
       Client, Background, Handler, Serve

(* One goroutine at most is in rwc.Read, and inRead says whether one is.   *)
LEMMA ReaderStep == IInv /\ [Next]_vars => ReaderInv'
<1> SUFFICES ASSUME IInv, [Next]_vars PROVE ReaderInv'
    OBVIOUS
<1> USE DEF IInv, TypeOK, StreamType, ReaderType, RequestType, ReaderInv,
            BackgroundInv, Reading, NoConcurrentRead, clientVars, rwcVars,
            crVars, bgVars, bodyVars, respVars, requestVars
<1>1. ASSUME ClientSend PROVE ReaderInv'
    BY <1>1 DEF ClientSend
<1>2. ASSUME ClientSkipBody PROVE ReaderInv'
    BY <1>2 DEF ClientSkipBody
<1>3. ASSUME ClientClose PROVE ReaderInv'
    BY <1>3 DEF ClientClose
<1>4. ASSUME BackgroundRead PROVE ReaderInv'
    BY <1>4 DEF BackgroundRead
<1>5. ASSUME BackgroundDone PROVE ReaderInv'
    BY <1>5 DEF BackgroundDone
<1>6. ASSUME Broadcast PROVE ReaderInv'
    BY <1>6 DEF Broadcast
<1>7. ASSUME HandlerReadBody PROVE ReaderInv'
    BY <1>7 DEF HandlerReadBody
<1>8. ASSUME HandlerCloseBody PROVE ReaderInv'
    BY <1>8 DEF HandlerCloseBody, closeBody
<1>9. ASSUME HandlerFlush PROVE ReaderInv'
    BY <1>9 DEF HandlerFlush
<1>10. ASSUME HandlerReturn PROVE ReaderInv'
    BY <1>10 DEF HandlerReturn
<1>11. ASSUME HandlerHijack PROVE ReaderInv'
    BY <1>11 DEF HandlerHijack
<1>12. ASSUME HandlerPanic PROVE ReaderInv'
    BY <1>12 DEF HandlerPanic
<1>13. ASSUME HijackRead PROVE ReaderInv'
    BY <1>13 DEF HijackRead
<1>14. ASSUME Read PROVE ReaderInv'
    BY <1>14 DEF Read
<1>15. ASSUME ReadData PROVE ReaderInv'
    BY <1>15 DEF ReadData
<1>16. ASSUME ReadError PROVE ReaderInv'
    BY <1>16 DEF ReadError
<1>17. ASSUME ReadRequest PROVE ReaderInv'
    BY <1>17 DEF ReadRequest
<1>18. ASSUME Dispatch PROVE ReaderInv'
    BY <1>18 DEF Dispatch, startBackgroundRead
<1>19. ASSUME shouldReuseConnection PROVE ReaderInv'
    BY <1>19 DEF shouldReuseConnection
<1>20. ASSUME Idle PROVE ReaderInv'
    BY <1>20 DEF Idle, NewDeadline
<1>21. ASSUME Peek PROVE ReaderInv'
    BY <1>21 DEF Peek, NewDeadline
<1>22. ASSUME Close PROVE ReaderInv'
    BY <1>22 DEF Close
<1>23. ASSUME ReadBody PROVE ReaderInv'
    BY <1>23 DEF ReadBody, startBackgroundRead
<1>24. ASSUME hijackLocked PROVE ReaderInv'
    BY <1>24 DEF hijackLocked
<1>25. ASSUME writeHeader PROVE ReaderInv'
    BY <1>25 DEF writeHeader
<1>26. ASSUME Flush PROVE ReaderInv'
    BY <1>26 DEF Flush
<1>27. ASSUME finishRequest PROVE ReaderInv'
    BY <1>27 DEF finishRequest, closeBody
<1>28. ASSUME abortPendingRead PROVE ReaderInv'
    BY <1>28 DEF abortPendingRead, AfterAbort
<1>29. ASSUME AbortWake PROVE ReaderInv'
    BY <1>29 DEF AbortWake, AfterAbort
<1>30. ASSUME UNCHANGED vars PROVE ReaderInv'
    BY <1>30 DEF vars
<1> QED
    BY <1>1, <1>2, <1>3, <1>4, <1>5, <1>6, <1>7, <1>8, <1>9, <1>10, <1>11,
       <1>12, <1>13, <1>14, <1>15, <1>16, <1>17, <1>18, <1>19, <1>20, <1>21,
       <1>22, <1>23, <1>24, <1>25, <1>26, <1>27, <1>28, <1>29, <1>30 DEF Next,
       Client, Background, Handler, Serve

(* No Read finds inRead set.                                               *)
LEMMA PanicStep == IInv /\ [Next]_vars => NoConcurrentRead'
<1> SUFFICES ASSUME IInv, [Next]_vars PROVE NoConcurrentRead'
    OBVIOUS
<1> USE DEF IInv, TypeOK, StreamType, ReaderType, RequestType, ReaderInv,
            BackgroundInv, Reading, NoConcurrentRead, clientVars, rwcVars,
            crVars, bgVars, bodyVars, respVars, requestVars
<1>1. ASSUME ClientSend PROVE NoConcurrentRead'
    BY <1>1 DEF ClientSend
<1>2. ASSUME ClientSkipBody PROVE NoConcurrentRead'
    BY <1>2 DEF ClientSkipBody
<1>3. ASSUME ClientClose PROVE NoConcurrentRead'
    BY <1>3 DEF ClientClose
<1>4. ASSUME BackgroundRead PROVE NoConcurrentRead'
    BY <1>4 DEF BackgroundRead
<1>5. ASSUME BackgroundDone PROVE NoConcurrentRead'
    BY <1>5 DEF BackgroundDone
<1>6. ASSUME Broadcast PROVE NoConcurrentRead'
    BY <1>6 DEF Broadcast
<1>7. ASSUME HandlerReadBody PROVE NoConcurrentRead'
    BY <1>7 DEF HandlerReadBody
<1>8. ASSUME HandlerCloseBody PROVE NoConcurrentRead'
    BY <1>8 DEF HandlerCloseBody, closeBody
<1>9. ASSUME HandlerFlush PROVE NoConcurrentRead'
    BY <1>9 DEF HandlerFlush
<1>10. ASSUME HandlerReturn PROVE NoConcurrentRead'
    BY <1>10 DEF HandlerReturn
<1>11. ASSUME HandlerHijack PROVE NoConcurrentRead'
    BY <1>11 DEF HandlerHijack
<1>12. ASSUME HandlerPanic PROVE NoConcurrentRead'
    BY <1>12 DEF HandlerPanic
<1>13. ASSUME HijackRead PROVE NoConcurrentRead'
    BY <1>13 DEF HijackRead
<1>14. ASSUME Read PROVE NoConcurrentRead'
    BY <1>14 DEF Read
<1>15. ASSUME ReadData PROVE NoConcurrentRead'
    BY <1>15 DEF ReadData
<1>16. ASSUME ReadError PROVE NoConcurrentRead'
    BY <1>16 DEF ReadError
<1>17. ASSUME ReadRequest PROVE NoConcurrentRead'
    BY <1>17 DEF ReadRequest
<1>18. ASSUME Dispatch PROVE NoConcurrentRead'
    BY <1>18 DEF Dispatch, startBackgroundRead
<1>19. ASSUME shouldReuseConnection PROVE NoConcurrentRead'
    BY <1>19 DEF shouldReuseConnection
<1>20. ASSUME Idle PROVE NoConcurrentRead'
    BY <1>20 DEF Idle, NewDeadline
<1>21. ASSUME Peek PROVE NoConcurrentRead'
    BY <1>21 DEF Peek, NewDeadline
<1>22. ASSUME Close PROVE NoConcurrentRead'
    BY <1>22 DEF Close
<1>23. ASSUME ReadBody PROVE NoConcurrentRead'
    BY <1>23 DEF ReadBody, startBackgroundRead
<1>24. ASSUME hijackLocked PROVE NoConcurrentRead'
    BY <1>24 DEF hijackLocked
<1>25. ASSUME writeHeader PROVE NoConcurrentRead'
    BY <1>25 DEF writeHeader
<1>26. ASSUME Flush PROVE NoConcurrentRead'
    BY <1>26 DEF Flush
<1>27. ASSUME finishRequest PROVE NoConcurrentRead'
    BY <1>27 DEF finishRequest, closeBody
<1>28. ASSUME abortPendingRead PROVE NoConcurrentRead'
    BY <1>28 DEF abortPendingRead, AfterAbort
<1>29. ASSUME AbortWake PROVE NoConcurrentRead'
    BY <1>29 DEF AbortWake, AfterAbort
<1>30. ASSUME UNCHANGED vars PROVE NoConcurrentRead'
    BY <1>30 DEF vars
<1> QED
    BY <1>1, <1>2, <1>3, <1>4, <1>5, <1>6, <1>7, <1>8, <1>9, <1>10, <1>11,
       <1>12, <1>13, <1>14, <1>15, <1>16, <1>17, <1>18, <1>19, <1>20, <1>21,
       <1>22, <1>23, <1>24, <1>25, <1>26, <1>27, <1>28, <1>29, <1>30 DEF Next,
       Client, Background, Handler, Serve

(* The deadline is in the past only while an abort waits.                  *)
LEMMA DeadlineStep == IInv /\ [Next]_vars => DeadlineInv'
<1> SUFFICES ASSUME IInv, [Next]_vars PROVE DeadlineInv'
    OBVIOUS
<1> USE DEF IInv, TypeOK, StreamType, ReaderType, RequestType, ReaderInv,
            DeadlineInv, BackgroundInv, Reading, ReturnInv, clientVars,
            rwcVars, crVars, bgVars, bodyVars, respVars, requestVars
<1>1. ASSUME ClientSend PROVE DeadlineInv'
    BY <1>1 DEF ClientSend
<1>2. ASSUME ClientSkipBody PROVE DeadlineInv'
    BY <1>2 DEF ClientSkipBody
<1>3. ASSUME ClientClose PROVE DeadlineInv'
    BY <1>3 DEF ClientClose
<1>4. ASSUME BackgroundRead PROVE DeadlineInv'
    BY <1>4 DEF BackgroundRead
<1>5. ASSUME BackgroundDone PROVE DeadlineInv'
    BY <1>5 DEF BackgroundDone
<1>6. ASSUME Broadcast PROVE DeadlineInv'
    BY <1>6 DEF Broadcast
<1>7. ASSUME HandlerReadBody PROVE DeadlineInv'
    BY <1>7 DEF HandlerReadBody
<1>8. ASSUME HandlerCloseBody PROVE DeadlineInv'
    BY <1>8 DEF HandlerCloseBody, closeBody
<1>9. ASSUME HandlerFlush PROVE DeadlineInv'
    BY <1>9 DEF HandlerFlush
<1>10. ASSUME HandlerReturn PROVE DeadlineInv'
    BY <1>10 DEF HandlerReturn
<1>11. ASSUME HandlerHijack PROVE DeadlineInv'
    BY <1>11 DEF HandlerHijack
<1>12. ASSUME HandlerPanic PROVE DeadlineInv'
    BY <1>12 DEF HandlerPanic
<1>13. ASSUME HijackRead PROVE DeadlineInv'
    BY <1>13 DEF HijackRead
<1>14. ASSUME Read PROVE DeadlineInv'
    BY <1>14 DEF Read
<1>15. ASSUME ReadData PROVE DeadlineInv'
    BY <1>15 DEF ReadData
<1>16. ASSUME ReadError PROVE DeadlineInv'
    BY <1>16 DEF ReadError
<1>17. ASSUME ReadRequest PROVE DeadlineInv'
    BY <1>17 DEF ReadRequest
<1>18. ASSUME Dispatch PROVE DeadlineInv'
    BY <1>18 DEF Dispatch, startBackgroundRead
<1>19. ASSUME shouldReuseConnection PROVE DeadlineInv'
    BY <1>19 DEF shouldReuseConnection
<1>20. ASSUME Idle PROVE DeadlineInv'
    BY <1>20 DEF Idle, NewDeadline
<1>21. ASSUME Peek PROVE DeadlineInv'
    BY <1>21 DEF Peek, NewDeadline
<1>22. ASSUME Close PROVE DeadlineInv'
    BY <1>22 DEF Close
<1>23. ASSUME ReadBody PROVE DeadlineInv'
    BY <1>23 DEF ReadBody, startBackgroundRead
<1>24. ASSUME hijackLocked PROVE DeadlineInv'
    BY <1>24 DEF hijackLocked
<1>25. ASSUME writeHeader PROVE DeadlineInv'
    BY <1>25 DEF writeHeader
<1>26. ASSUME Flush PROVE DeadlineInv'
    BY <1>26 DEF Flush
<1>27. ASSUME finishRequest PROVE DeadlineInv'
    BY <1>27 DEF finishRequest, closeBody
<1>28. ASSUME abortPendingRead PROVE DeadlineInv'
    BY <1>28 DEF abortPendingRead, AfterAbort
<1>29. ASSUME AbortWake PROVE DeadlineInv'
    BY <1>29 DEF AbortWake, AfterAbort
<1>30. ASSUME UNCHANGED vars PROVE DeadlineInv'
    BY <1>30 DEF vars
<1> QED
    BY <1>1, <1>2, <1>3, <1>4, <1>5, <1>6, <1>7, <1>8, <1>9, <1>10, <1>11,
       <1>12, <1>13, <1>14, <1>15, <1>16, <1>17, <1>18, <1>19, <1>20, <1>21,
       <1>22, <1>23, <1>24, <1>25, <1>26, <1>27, <1>28, <1>29, <1>30 DEF Next,
       Client, Background, Handler, Serve

(* Where the background read may be on.                                    *)
LEMMA BackgroundStep == IInv /\ [Next]_vars => BackgroundInv'
<1> SUFFICES ASSUME IInv, [Next]_vars PROVE BackgroundInv'
    OBVIOUS
<1> USE DEF IInv, TypeOK, StreamType, ReaderType, RequestType, ReaderInv,
            BackgroundInv, Reading, ReturnInv, EndInv, Ending, HasBody,
            clientVars, rwcVars, crVars, bgVars, bodyVars, respVars,
            requestVars
<1>1. ASSUME ClientSend PROVE BackgroundInv'
    BY <1>1 DEF ClientSend
<1>2. ASSUME ClientSkipBody PROVE BackgroundInv'
    BY <1>2 DEF ClientSkipBody
<1>3. ASSUME ClientClose PROVE BackgroundInv'
    BY <1>3 DEF ClientClose
<1>4. ASSUME BackgroundRead PROVE BackgroundInv'
    BY <1>4 DEF BackgroundRead
<1>5. ASSUME BackgroundDone PROVE BackgroundInv'
    BY <1>5 DEF BackgroundDone
<1>6. ASSUME Broadcast PROVE BackgroundInv'
    BY <1>6 DEF Broadcast
<1>7. ASSUME HandlerReadBody PROVE BackgroundInv'
    BY <1>7 DEF HandlerReadBody
<1>8. ASSUME HandlerCloseBody PROVE BackgroundInv'
    BY <1>8 DEF HandlerCloseBody, closeBody
<1>9. ASSUME HandlerFlush PROVE BackgroundInv'
    BY <1>9 DEF HandlerFlush
<1>10. ASSUME HandlerReturn PROVE BackgroundInv'
    BY <1>10 DEF HandlerReturn
<1>11. ASSUME HandlerHijack PROVE BackgroundInv'
    BY <1>11 DEF HandlerHijack
<1>12. ASSUME HandlerPanic PROVE BackgroundInv'
    BY <1>12 DEF HandlerPanic
<1>13. ASSUME HijackRead PROVE BackgroundInv'
    BY <1>13 DEF HijackRead
<1>14. ASSUME Read PROVE BackgroundInv'
    BY <1>14 DEF Read
<1>15. ASSUME ReadData PROVE BackgroundInv'
    BY <1>15 DEF ReadData
<1>16. ASSUME ReadError PROVE BackgroundInv'
    BY <1>16 DEF ReadError
<1>17. ASSUME ReadRequest PROVE BackgroundInv'
    BY <1>17 DEF ReadRequest
<1>18. ASSUME Dispatch PROVE BackgroundInv'
    BY <1>18 DEF Dispatch, startBackgroundRead
<1>19. ASSUME shouldReuseConnection PROVE BackgroundInv'
    BY <1>19 DEF shouldReuseConnection
<1>20. ASSUME Idle PROVE BackgroundInv'
    BY <1>20 DEF Idle, NewDeadline
<1>21. ASSUME Peek PROVE BackgroundInv'
    BY <1>21 DEF Peek, NewDeadline
<1>22. ASSUME Close PROVE BackgroundInv'
    BY <1>22 DEF Close
<1>23. ASSUME ReadBody PROVE BackgroundInv'
    BY <1>23 DEF ReadBody, startBackgroundRead
<1>24. ASSUME hijackLocked PROVE BackgroundInv'
    BY <1>24 DEF hijackLocked
<1>25. ASSUME writeHeader PROVE BackgroundInv'
    BY <1>25 DEF writeHeader
<1>26. ASSUME Flush PROVE BackgroundInv'
    BY <1>26 DEF Flush
<1>27. ASSUME finishRequest PROVE BackgroundInv'
    BY <1>27 DEF finishRequest, closeBody
<1>28. ASSUME abortPendingRead PROVE BackgroundInv'
    BY <1>28 DEF abortPendingRead, AfterAbort
<1>29. ASSUME AbortWake PROVE BackgroundInv'
    BY <1>29 DEF AbortWake, AfterAbort
<1>30. ASSUME UNCHANGED vars PROVE BackgroundInv'
    BY <1>30 DEF vars
<1> QED
    BY <1>1, <1>2, <1>3, <1>4, <1>5, <1>6, <1>7, <1>8, <1>9, <1>10, <1>11,
       <1>12, <1>13, <1>14, <1>15, <1>16, <1>17, <1>18, <1>19, <1>20, <1>21,
       <1>22, <1>23, <1>24, <1>25, <1>26, <1>27, <1>28, <1>29, <1>30 DEF Next,
       Client, Background, Handler, Serve

(* Where the steps of a response return to.                                *)
LEMMA ReturnStep == IInv /\ [Next]_vars => ReturnInv'
<1> SUFFICES ASSUME IInv, [Next]_vars PROVE ReturnInv'
    OBVIOUS
<1> USE DEF IInv, TypeOK, StreamType, ReaderType, RequestType, ReaderInv,
            ReturnInv, Reading, clientVars, rwcVars, crVars, bgVars, bodyVars,
            respVars, requestVars
<1>1. ASSUME ClientSend PROVE ReturnInv'
    BY <1>1 DEF ClientSend
<1>2. ASSUME ClientSkipBody PROVE ReturnInv'
    BY <1>2 DEF ClientSkipBody
<1>3. ASSUME ClientClose PROVE ReturnInv'
    BY <1>3 DEF ClientClose
<1>4. ASSUME BackgroundRead PROVE ReturnInv'
    BY <1>4 DEF BackgroundRead
<1>5. ASSUME BackgroundDone PROVE ReturnInv'
    BY <1>5 DEF BackgroundDone
<1>6. ASSUME Broadcast PROVE ReturnInv'
    BY <1>6 DEF Broadcast
<1>7. ASSUME HandlerReadBody PROVE ReturnInv'
    BY <1>7 DEF HandlerReadBody
<1>8. ASSUME HandlerCloseBody PROVE ReturnInv'
    BY <1>8 DEF HandlerCloseBody, closeBody
<1>9. ASSUME HandlerFlush PROVE ReturnInv'
    BY <1>9 DEF HandlerFlush
<1>10. ASSUME HandlerReturn PROVE ReturnInv'
    BY <1>10 DEF HandlerReturn
<1>11. ASSUME HandlerHijack PROVE ReturnInv'
    BY <1>11 DEF HandlerHijack
<1>12. ASSUME HandlerPanic PROVE ReturnInv'
    BY <1>12 DEF HandlerPanic
<1>13. ASSUME HijackRead PROVE ReturnInv'
    BY <1>13 DEF HijackRead
<1>14. ASSUME Read PROVE ReturnInv'
    BY <1>14 DEF Read
<1>15. ASSUME ReadData PROVE ReturnInv'
    BY <1>15 DEF ReadData
<1>16. ASSUME ReadError PROVE ReturnInv'
    BY <1>16 DEF ReadError
<1>17. ASSUME ReadRequest PROVE ReturnInv'
    BY <1>17 DEF ReadRequest
<1>18. ASSUME Dispatch PROVE ReturnInv'
    BY <1>18 DEF Dispatch, startBackgroundRead
<1>19. ASSUME shouldReuseConnection PROVE ReturnInv'
    BY <1>19 DEF shouldReuseConnection
<1>20. ASSUME Idle PROVE ReturnInv'
    BY <1>20 DEF Idle, NewDeadline
<1>21. ASSUME Peek PROVE ReturnInv'
    BY <1>21 DEF Peek, NewDeadline
<1>22. ASSUME Close PROVE ReturnInv'
    BY <1>22 DEF Close
<1>23. ASSUME ReadBody PROVE ReturnInv'
    BY <1>23 DEF ReadBody, startBackgroundRead
<1>24. ASSUME hijackLocked PROVE ReturnInv'
    BY <1>24 DEF hijackLocked
<1>25. ASSUME writeHeader PROVE ReturnInv'
    BY <1>25 DEF writeHeader
<1>26. ASSUME Flush PROVE ReturnInv'
    BY <1>26 DEF Flush
<1>27. ASSUME finishRequest PROVE ReturnInv'
    BY <1>27 DEF finishRequest, closeBody
<1>28. ASSUME abortPendingRead PROVE ReturnInv'
    BY <1>28 DEF abortPendingRead, AfterAbort
<1>29. ASSUME AbortWake PROVE ReturnInv'
    BY <1>29 DEF AbortWake, AfterAbort
<1>30. ASSUME UNCHANGED vars PROVE ReturnInv'
    BY <1>30 DEF vars
<1> QED
    BY <1>1, <1>2, <1>3, <1>4, <1>5, <1>6, <1>7, <1>8, <1>9, <1>10, <1>11,
       <1>12, <1>13, <1>14, <1>15, <1>16, <1>17, <1>18, <1>19, <1>20, <1>21,
       <1>22, <1>23, <1>24, <1>25, <1>26, <1>27, <1>28, <1>29, <1>30 DEF Next,
       Client, Background, Handler, Serve

(* A reply that keeps the connection comes after the body.                 *)
LEMMA EndStep == IInv /\ [Next]_vars => EndInv'
<1> SUFFICES ASSUME IInv, [Next]_vars PROVE EndInv'
    OBVIOUS
<1> USE DEF IInv, TypeOK, StreamType, ReaderType, RequestType, ReaderInv,
            BackgroundInv, ReturnInv, EndInv, Ending, Reading, HasBody,
            Wrapped, clientVars, rwcVars, crVars, bgVars, bodyVars, respVars,
            requestVars
<1>1. ASSUME ClientSend PROVE EndInv'
    BY <1>1 DEF ClientSend
<1>2. ASSUME ClientSkipBody PROVE EndInv'
    BY <1>2 DEF ClientSkipBody
<1>3. ASSUME ClientClose PROVE EndInv'
    BY <1>3 DEF ClientClose
<1>4. ASSUME BackgroundRead PROVE EndInv'
    BY <1>4 DEF BackgroundRead
<1>5. ASSUME BackgroundDone PROVE EndInv'
    BY <1>5 DEF BackgroundDone
<1>6. ASSUME Broadcast PROVE EndInv'
    BY <1>6 DEF Broadcast
<1>7. ASSUME HandlerReadBody PROVE EndInv'
    BY <1>7 DEF HandlerReadBody
<1>8. ASSUME HandlerCloseBody PROVE EndInv'
    BY <1>8 DEF HandlerCloseBody, closeBody
<1>9. ASSUME HandlerFlush PROVE EndInv'
    BY <1>9 DEF HandlerFlush
<1>10. ASSUME HandlerReturn PROVE EndInv'
    BY <1>10 DEF HandlerReturn
<1>11. ASSUME HandlerHijack PROVE EndInv'
    BY <1>11 DEF HandlerHijack
<1>12. ASSUME HandlerPanic PROVE EndInv'
    BY <1>12 DEF HandlerPanic
<1>13. ASSUME HijackRead PROVE EndInv'
    BY <1>13 DEF HijackRead
<1>14. ASSUME Read PROVE EndInv'
    BY <1>14 DEF Read
<1>15. ASSUME ReadData PROVE EndInv'
    BY <1>15 DEF ReadData
<1>16. ASSUME ReadError PROVE EndInv'
    BY <1>16 DEF ReadError
<1>17. ASSUME ReadRequest PROVE EndInv'
  <2>1. CASE Head(bufr)[2] = 0
    <3>1. cur' = Head(bufr)[1] /\ cur' # 0 /\ script' = script
          /\ sawEOF' = ~HasBody(cur') /\ pc' = "dispatch"
          /\ wroteHeader' = FALSE /\ ecrSawEOF' = FALSE
        BY <1>17, <2>1, HeadFact DEF ReadRequest
    <3> QED
        BY <3>1
  <2>2. CASE Head(bufr)[2] # 0
    <3>1. pc' = "close" /\ cur' = cur /\ script' = script
          /\ sawEOF' = sawEOF /\ wroteHeader' = FALSE /\ ecrSawEOF' = FALSE
        BY <1>17, <2>2 DEF ReadRequest
    <3> QED
        BY <3>1
  <2> QED
      BY <2>1, <2>2
<1>18. ASSUME Dispatch PROVE EndInv'
    BY <1>18 DEF Dispatch, startBackgroundRead
<1>19. ASSUME shouldReuseConnection PROVE EndInv'
    BY <1>19 DEF shouldReuseConnection
<1>20. ASSUME Idle PROVE EndInv'
    BY <1>20 DEF Idle, NewDeadline
<1>21. ASSUME Peek PROVE EndInv'
    BY <1>21 DEF Peek, NewDeadline
<1>22. ASSUME Close PROVE EndInv'
    BY <1>22 DEF Close
<1>23. ASSUME ReadBody PROVE EndInv'
    BY <1>23, HeadFact DEF ReadBody, startBackgroundRead
<1>24. ASSUME hijackLocked PROVE EndInv'
    BY <1>24 DEF hijackLocked
<1>25. ASSUME writeHeader PROVE EndInv'
  <2>1. pc = "header" /\ wroteHeader' = TRUE /\ pc' \in {"discard", "flush"}
        /\ UNCHANGED <<cur, script, sawEOF, ecrSawEOF, ret>>
      BY <1>25 DEF writeHeader
  <2>2. HasBody(cur) \/ sawEOF
      BY <2>1
  <2>3. pc' = "flush" => closeAfterReply' \/ sawEOF \/ closed'
    <3> SUFFICES ASSUME pc' = "flush", ~sawEOF, ~closeAfterReply'
                 PROVE  closed'
        OBVIOUS
    <3>1. HasBody(cur) /\ ~(Wrapped(cur) /\ ~ecrSawEOF)
        BY <1>25, <2>2, Zenon DEF writeHeader
    <3>2. ~Wrapped(cur)
        BY <3>1
    <3> HIDE DEF HasBody, Wrapped
    <3> QED
        BY <1>25, <3>1, <3>2 DEF writeHeader
  <2> QED
      BY <2>1, <2>2, <2>3
<1>26. ASSUME Flush PROVE EndInv'
    BY <1>26 DEF Flush
<1>27. ASSUME finishRequest PROVE EndInv'
    BY <1>27 DEF finishRequest, closeBody
<1>28. ASSUME abortPendingRead PROVE EndInv'
    BY <1>28 DEF abortPendingRead, AfterAbort
<1>29. ASSUME AbortWake PROVE EndInv'
    BY <1>29 DEF AbortWake, AfterAbort
<1>30. ASSUME UNCHANGED vars PROVE EndInv'
    BY <1>30 DEF vars
<1> QED
    BY <1>1, <1>2, <1>3, <1>4, <1>5, <1>6, <1>7, <1>8, <1>9, <1>10, <1>11,
       <1>12, <1>13, <1>14, <1>15, <1>16, <1>17, <1>18, <1>19, <1>20, <1>21,
       <1>22, <1>23, <1>24, <1>25, <1>26, <1>27, <1>28, <1>29, <1>30 DEF Next,
       Client, Background, Handler, Serve

(* Only a client that has gone or an expired deadline cancels.             *)
LEMMA ContextStep == IInv /\ [Next]_vars => ContextInv'
<1> SUFFICES ASSUME IInv, [Next]_vars PROVE ContextInv'
    OBVIOUS
<1> USE DEF IInv, TypeOK, StreamType, ReaderType, RequestType, ReaderInv,
            DeadlineInv, ContextInv, CancelledOnlyWhenGone, Reading,
            clientVars, rwcVars, crVars, bgVars, bodyVars, respVars,
            requestVars
<1>1. ASSUME ClientSend PROVE ContextInv'
    BY <1>1 DEF ClientSend
<1>2. ASSUME ClientSkipBody PROVE ContextInv'
    BY <1>2 DEF ClientSkipBody
<1>3. ASSUME ClientClose PROVE ContextInv'
    BY <1>3 DEF ClientClose
<1>4. ASSUME BackgroundRead PROVE ContextInv'
    BY <1>4 DEF BackgroundRead
<1>5. ASSUME BackgroundDone PROVE ContextInv'
    BY <1>5 DEF BackgroundDone
<1>6. ASSUME Broadcast PROVE ContextInv'
    BY <1>6 DEF Broadcast
<1>7. ASSUME HandlerReadBody PROVE ContextInv'
    BY <1>7 DEF HandlerReadBody
<1>8. ASSUME HandlerCloseBody PROVE ContextInv'
    BY <1>8 DEF HandlerCloseBody, closeBody
<1>9. ASSUME HandlerFlush PROVE ContextInv'
    BY <1>9 DEF HandlerFlush
<1>10. ASSUME HandlerReturn PROVE ContextInv'
    BY <1>10 DEF HandlerReturn
<1>11. ASSUME HandlerHijack PROVE ContextInv'
    BY <1>11 DEF HandlerHijack
<1>12. ASSUME HandlerPanic PROVE ContextInv'
    BY <1>12 DEF HandlerPanic
<1>13. ASSUME HijackRead PROVE ContextInv'
    BY <1>13 DEF HijackRead
<1>14. ASSUME Read PROVE ContextInv'
    BY <1>14 DEF Read
<1>15. ASSUME ReadData PROVE ContextInv'
    BY <1>15 DEF ReadData
<1>16. ASSUME ReadError PROVE ContextInv'
    BY <1>16 DEF ReadError
<1>17. ASSUME ReadRequest PROVE ContextInv'
    BY <1>17 DEF ReadRequest
<1>18. ASSUME Dispatch PROVE ContextInv'
    BY <1>18 DEF Dispatch, startBackgroundRead
<1>19. ASSUME shouldReuseConnection PROVE ContextInv'
    BY <1>19 DEF shouldReuseConnection
<1>20. ASSUME Idle PROVE ContextInv'
    BY <1>20 DEF Idle, NewDeadline
<1>21. ASSUME Peek PROVE ContextInv'
    BY <1>21 DEF Peek, NewDeadline
<1>22. ASSUME Close PROVE ContextInv'
    BY <1>22 DEF Close
<1>23. ASSUME ReadBody PROVE ContextInv'
    BY <1>23 DEF ReadBody, startBackgroundRead
<1>24. ASSUME hijackLocked PROVE ContextInv'
    BY <1>24 DEF hijackLocked
<1>25. ASSUME writeHeader PROVE ContextInv'
    BY <1>25 DEF writeHeader
<1>26. ASSUME Flush PROVE ContextInv'
    BY <1>26 DEF Flush
<1>27. ASSUME finishRequest PROVE ContextInv'
    BY <1>27 DEF finishRequest, closeBody
<1>28. ASSUME abortPendingRead PROVE ContextInv'
    BY <1>28 DEF abortPendingRead, AfterAbort
<1>29. ASSUME AbortWake PROVE ContextInv'
    BY <1>29 DEF AbortWake, AfterAbort
<1>30. ASSUME UNCHANGED vars PROVE ContextInv'
    BY <1>30 DEF vars
<1> QED
    BY <1>1, <1>2, <1>3, <1>4, <1>5, <1>6, <1>7, <1>8, <1>9, <1>10, <1>11,
       <1>12, <1>13, <1>14, <1>15, <1>16, <1>17, <1>18, <1>19, <1>20, <1>21,
       <1>22, <1>23, <1>24, <1>25, <1>26, <1>27, <1>28, <1>29, <1>30 DEF Next,
       Client, Background, Handler, Serve

(* The byte of the background read fits in c.bufr.                         *)
LEMMA RoomStep == IInv /\ [Next]_vars => RoomInv'
<1> SUFFICES ASSUME IInv, [Next]_vars PROVE RoomInv'
    OBVIOUS
<1> USE DEF IInv, TypeOK, StreamType, ReaderType, RequestType, ReaderInv,
            BackgroundInv, RoomInv, Reading, ReturnInv, clientVars, rwcVars,
            crVars, bgVars, bodyVars, respVars, requestVars
<1>1. ASSUME ClientSend PROVE RoomInv'
    BY <1>1 DEF ClientSend
<1>2. ASSUME ClientSkipBody PROVE RoomInv'
    BY <1>2 DEF ClientSkipBody
<1>3. ASSUME ClientClose PROVE RoomInv'
    BY <1>3 DEF ClientClose
<1>4. ASSUME BackgroundRead PROVE RoomInv'
    BY <1>4 DEF BackgroundRead
<1>5. ASSUME BackgroundDone PROVE RoomInv'
    BY <1>5 DEF BackgroundDone
<1>6. ASSUME Broadcast PROVE RoomInv'
    BY <1>6 DEF Broadcast
<1>7. ASSUME HandlerReadBody PROVE RoomInv'
    BY <1>7 DEF HandlerReadBody
<1>8. ASSUME HandlerCloseBody PROVE RoomInv'
    BY <1>8 DEF HandlerCloseBody, closeBody
<1>9. ASSUME HandlerFlush PROVE RoomInv'
    BY <1>9 DEF HandlerFlush
<1>10. ASSUME HandlerReturn PROVE RoomInv'
    BY <1>10 DEF HandlerReturn
<1>11. ASSUME HandlerHijack PROVE RoomInv'
    BY <1>11 DEF HandlerHijack
<1>12. ASSUME HandlerPanic PROVE RoomInv'
    BY <1>12 DEF HandlerPanic
<1>13. ASSUME HijackRead PROVE RoomInv'
    BY <1>13, HeadFact DEF HijackRead
<1>14. ASSUME Read PROVE RoomInv'
    BY <1>14 DEF Read
<1>15. ASSUME ReadData PROVE RoomInv'
    BY <1>15 DEF ReadData
<1>16. ASSUME ReadError PROVE RoomInv'
    BY <1>16, LimitsAssumption DEF ReadError
<1>17. ASSUME ReadRequest PROVE RoomInv'
    BY <1>17, HeadFact DEF ReadRequest
<1>18. ASSUME Dispatch PROVE RoomInv'
    BY <1>18 DEF Dispatch, startBackgroundRead
<1>19. ASSUME shouldReuseConnection PROVE RoomInv'
    BY <1>19 DEF shouldReuseConnection
<1>20. ASSUME Idle PROVE RoomInv'
    BY <1>20 DEF Idle, NewDeadline
<1>21. ASSUME Peek PROVE RoomInv'
    BY <1>21 DEF Peek, NewDeadline
<1>22. ASSUME Close PROVE RoomInv'
    BY <1>22 DEF Close
<1>23. ASSUME ReadBody PROVE RoomInv'
    BY <1>23, HeadFact DEF ReadBody, startBackgroundRead
<1>24. ASSUME hijackLocked PROVE RoomInv'
    BY <1>24 DEF hijackLocked
<1>25. ASSUME writeHeader PROVE RoomInv'
    BY <1>25 DEF writeHeader
<1>26. ASSUME Flush PROVE RoomInv'
    BY <1>26 DEF Flush
<1>27. ASSUME finishRequest PROVE RoomInv'
    BY <1>27 DEF finishRequest, closeBody
<1>28. ASSUME abortPendingRead PROVE RoomInv'
    BY <1>28 DEF abortPendingRead, AfterAbort
<1>29. ASSUME AbortWake PROVE RoomInv'
    BY <1>29 DEF AbortWake, AfterAbort
<1>30. ASSUME UNCHANGED vars PROVE RoomInv'
    BY <1>30 DEF vars
<1> QED
    BY <1>1, <1>2, <1>3, <1>4, <1>5, <1>6, <1>7, <1>8, <1>9, <1>10, <1>11,
       <1>12, <1>13, <1>14, <1>15, <1>16, <1>17, <1>18, <1>19, <1>20, <1>21,
       <1>22, <1>23, <1>24, <1>25, <1>26, <1>27, <1>28, <1>29, <1>30 DEF Next,
       Client, Background, Handler, Serve

(* What a hijacker finds.                                                  *)
LEMMA HijackStep == IInv /\ [Next]_vars => HijackComplete'
<1> SUFFICES ASSUME IInv, [Next]_vars PROVE HijackComplete'
    OBVIOUS
<1> USE DEF IInv, TypeOK, StreamType, ReaderType, RequestType, ReaderInv,
            BackgroundInv, DeadlineInv, HijackComplete, RoomInv, Reading,
            ReturnInv, clientVars, rwcVars, crVars, bgVars, bodyVars, respVars,
            requestVars
<1>1. ASSUME ClientSend PROVE HijackComplete'
    BY <1>1 DEF ClientSend
<1>2. ASSUME ClientSkipBody PROVE HijackComplete'
    BY <1>2 DEF ClientSkipBody
<1>3. ASSUME ClientClose PROVE HijackComplete'
    BY <1>3 DEF ClientClose
<1>4. ASSUME BackgroundRead PROVE HijackComplete'
    BY <1>4 DEF BackgroundRead
<1>5. ASSUME BackgroundDone PROVE HijackComplete'
    BY <1>5 DEF BackgroundDone
<1>6. ASSUME Broadcast PROVE HijackComplete'
    BY <1>6 DEF Broadcast
<1>7. ASSUME HandlerReadBody PROVE HijackComplete'
    BY <1>7 DEF HandlerReadBody
<1>8. ASSUME HandlerCloseBody PROVE HijackComplete'
    BY <1>8 DEF HandlerCloseBody, closeBody
<1>9. ASSUME HandlerFlush PROVE HijackComplete'
    BY <1>9 DEF HandlerFlush
<1>10. ASSUME HandlerReturn PROVE HijackComplete'
    BY <1>10 DEF HandlerReturn
<1>11. ASSUME HandlerHijack PROVE HijackComplete'
    BY <1>11 DEF HandlerHijack
<1>12. ASSUME HandlerPanic PROVE HijackComplete'
    BY <1>12 DEF HandlerPanic
<1>13. ASSUME HijackRead PROVE HijackComplete'
    BY <1>13 DEF HijackRead
<1>14. ASSUME Read PROVE HijackComplete'
    BY <1>14 DEF Read
<1>15. ASSUME ReadData PROVE HijackComplete'
    BY <1>15 DEF ReadData
<1>16. ASSUME ReadError PROVE HijackComplete'
    BY <1>16 DEF ReadError
<1>17. ASSUME ReadRequest PROVE HijackComplete'
    BY <1>17 DEF ReadRequest
<1>18. ASSUME Dispatch PROVE HijackComplete'
    BY <1>18 DEF Dispatch, startBackgroundRead
<1>19. ASSUME shouldReuseConnection PROVE HijackComplete'
    BY <1>19 DEF shouldReuseConnection
<1>20. ASSUME Idle PROVE HijackComplete'
    BY <1>20 DEF Idle, NewDeadline
<1>21. ASSUME Peek PROVE HijackComplete'
    BY <1>21 DEF Peek, NewDeadline
<1>22. ASSUME Close PROVE HijackComplete'
    BY <1>22 DEF Close
<1>23. ASSUME ReadBody PROVE HijackComplete'
    BY <1>23 DEF ReadBody, startBackgroundRead
<1>24. ASSUME hijackLocked PROVE HijackComplete'
    BY <1>24 DEF hijackLocked
<1>25. ASSUME writeHeader PROVE HijackComplete'
    BY <1>25 DEF writeHeader
<1>26. ASSUME Flush PROVE HijackComplete'
    BY <1>26 DEF Flush
<1>27. ASSUME finishRequest PROVE HijackComplete'
    BY <1>27 DEF finishRequest, closeBody
<1>28. ASSUME abortPendingRead PROVE HijackComplete'
    BY <1>28 DEF abortPendingRead, AfterAbort
<1>29. ASSUME AbortWake PROVE HijackComplete'
    BY <1>29 DEF AbortWake, AfterAbort
<1>30. ASSUME UNCHANGED vars PROVE HijackComplete'
    BY <1>30 DEF vars
<1> QED
    BY <1>1, <1>2, <1>3, <1>4, <1>5, <1>6, <1>7, <1>8, <1>9, <1>10, <1>11,
       <1>12, <1>13, <1>14, <1>15, <1>16, <1>17, <1>18, <1>19, <1>20, <1>21,
       <1>22, <1>23, <1>24, <1>25, <1>26, <1>27, <1>28, <1>29, <1>30 DEF Next,
       Client, Background, Handler, Serve

(* IInv holds before the client has sent anything.                         *)
LEMMA InitInv == Init => IInv
<1> SUFFICES ASSUME Init PROVE IInv
    OBVIOUS
<1>1. StreamType
  <2>1. creq \in 1..(MaxRequests + 1) /\ cpos \in Nat /\ cur \in 0..MaxRequests
      BY RequestsAssumption DEF Init
  <2>2. <<>> \in Seq(Bytes) /\ Len(<<>>) = 0
      OBVIOUS
  <2>3. sock \in Seq(Bytes) /\ byte \in Seq(Bytes) /\ bgByte \in Seq(Bytes)
        /\ bufr \in Seq(Bytes)
      BY <2>2 DEF Init
  <2>4. Len(byte) = 0 /\ Len(bgByte) = 0 /\ Len(bufr) = 0
      BY <2>2 DEF Init
  <2>5. script \in [1..MaxRequests -> Requests]
      BY DEF Init
  <2> QED
      BY <2>1, <2>3, <2>4, <2>5, LimitsAssumption DEF StreamType
<1>2. ReaderType
  <2>1. deadline \in {"none", "armed", "past"}
      BY DEF Init, NewDeadline
  <2> QED
      BY <2>1 DEF Init, ReaderType, ServePc
<1>3. RequestType
  <2>1. left \in Int /\ copied \in Nat
      BY DEF Init
  <2>2. /\ sawEOF \in BOOLEAN /\ closed \in BOOLEAN /\ earlyClose \in BOOLEAN
        /\ trailer \in BOOLEAN /\ badChunk \in BOOLEAN
      BY DEF Init
  <2>3. /\ wroteHeader \in BOOLEAN /\ closeAfterReply \in BOOLEAN
        /\ wroteContinue \in BOOLEAN /\ ecrClosed \in BOOLEAN
        /\ ecrSawEOF \in BOOLEAN /\ reply \in {"none", "keep", "close"}
      BY DEF Init
  <2> QED
      BY <2>1, <2>2, <2>3 DEF RequestType
<1>4. NoConcurrentRead /\ ReaderInv /\ BackgroundInv /\ ReturnInv
      /\ HijackComplete
    BY DEF Init, NoConcurrentRead, ReaderInv, BackgroundInv, ReturnInv,
           HijackComplete
<1>5. DeadlineInv /\ ContextInv
    BY DEF Init, NewDeadline, DeadlineInv, ContextInv, CancelledOnlyWhenGone
<1>6. EndInv
    BY DEF Init, EndInv, Ending
<1>7. RoomInv
  <2>1. Len(bufr) = 0
      BY DEF Init
  <2> QED
      BY <2>1, LimitsAssumption DEF RoomInv
<1> QED
    BY <1>1, <1>2, <1>3, <1>4, <1>5, <1>6, <1>7 DEF IInv, TypeOK

(* Every step keeps IInv.                                                  *)
LEMMA StepInv ==
    ASSUME IInv, [Next]_vars
    PROVE  IInv'
<1>1. StreamType' /\ ReaderType' /\ RequestType'
    BY StreamTypeStep, ReaderTypeStep, RequestTypeStep
<1>2. ReaderInv' /\ NoConcurrentRead' /\ DeadlineInv' /\ BackgroundInv'
    BY ReaderStep, PanicStep, DeadlineStep, BackgroundStep
<1>3. ReturnInv' /\ EndInv' /\ ContextInv' /\ RoomInv' /\ HijackComplete'
    BY ReturnStep, EndStep, ContextStep, RoomStep, HijackStep
<1> QED
    BY <1>1, <1>2, <1>3 DEF IInv, TypeOK

(* Every reachable state of a connection satisfies IInv: serving goroutine *)
(* and background read take turns at the socket, the deadline of an abort  *)
(* is gone when the abort is over, and the byte read ahead always fits.    *)
THEOREM Invariant == Spec => []IInv
BY InitInv, StepInv, PTL DEF Spec

(* The state of a connection keeps its type: c.bufr never holds more than  *)
(* its size, and neither byteBuf nor the background goroutine more than a  *)
(* byte, whatever the requests, the sizes and the timeouts.                *)
THEOREM TypeCorrect == Spec => []TypeOK
<1>1. IInv => TypeOK
    BY DEF IInv
<1> QED
    BY <1>1, Invariant, PTL

(* connReader.Read and startBackgroundRead never panic: conn.serve does    *)
(* not read the socket while the background goroutine does.                *)
THEOREM ReadersAlternate == Spec => []NoConcurrentRead
<1>1. IInv => NoConcurrentRead
    BY DEF IInv
<1> QED
    BY <1>1, Invariant, PTL

(* The deadline in the past that abortPendingRead sets to interrupt the    *)
(* background read is gone before conn.serve, or a hijacker, reads again,  *)
(* and the aborted read never cancels the context of the connection: only  *)
(* a client that is gone, or a deadline of the server, does.               *)
THEOREM NoSpuriousCancel == Spec => []AbortLeavesNoTrace
<1>1. IInv => DeadlineCleared
    BY DEF IInv, DeadlineInv, DeadlineCleared
<1>2. IInv => CancelledOnlyWhenGone
    BY DEF IInv, ContextInv
<1>3. IInv => AbortLeavesNoTrace
    BY <1>1, <1>2 DEF AbortLeavesNoTrace
<1> QED
    BY <1>3, Invariant, PTL

(* Hijack always succeeds in moving the byte read ahead into the bufio     *)
(* reader it hands over: there is room for it whatever the buffer's size,  *)
(* and nobody else reads the socket any more.                              *)
THEOREM HijackHandsOverAll == Spec => []HijackComplete
<1>1. IInv => HijackComplete
    BY DEF IInv
<1> QED
    BY <1>1, Invariant, PTL

-----------------------------------------------------------------------------
(***************************************************************************)
(* Proof that a connection (ServeConn) takes the steps of RequestStream,   *)
(* whatever the requests and the sizes of the buffers.                     *)
(*                                                                         *)
(* The bytes on their way are one sequence, which the client extends at    *)
(* its end and the server shortens at its head; moving bytes between       *)
(* socket, byteBuf and c.bufr leaves it alone.  Its first byte, or the one *)
(* the client sends next when it is empty, is the one that RequestStream   *)
(* has reached: the next of the body, or the next header.                  *)
(***************************************************************************)

Unread   == bufr \o byte \o bgByte \o sock
Upcoming == Append(Unread, <<creq, cpos>>)

\* The byte that comes after b, when the body is not skipped.
Following(b) == IF b[2] + 1 = Total(b[1]) THEN <<b[1] + 1, 0>> ELSE <<b[1], b[2] + 1>>
Before(b, c) == b[1] < c[1] \/ (b[1] = c[1] /\ b[2] < c[2])
Ordered(u) ==
    /\ \A k \in 1..(Len(u) - 1) : u[k + 1] = Following(u[k])
    /\ \A j \in 1..Len(u) : \A k \in 1..(j - 1) : Before(u[k], u[j])

-----------------------------------------------------------------------------
(* Sequences.                                                              *)

LEMMA ConcatHead ==
    ASSUME NEW S, NEW s \in Seq(S), NEW t \in Seq(S), s # <<>>
    PROVE  s \o t # <<>> /\ Head(s \o t) = Head(s) /\ Tail(s \o t) = Tail(s) \o t
<1>1. /\ s \o t \in Seq(S) /\ Len(s \o t) = Len(s) + Len(t)
      /\ Len(s) \in Nat \ {0} /\ Len(t) \in Nat
      /\ \A i \in 1..(Len(s) + Len(t)) : (s \o t)[i] = IF i <= Len(s) THEN s[i] ELSE t[i - Len(s)]
    BY ConcatProperties, EmptySeq
<1>2. s \o t # <<>>
    BY <1>1
<1>3. /\ Tail(s) \in Seq(S) /\ Len(Tail(s)) = Len(s) - 1
      /\ \A i \in 1..Len(Tail(s)) : Tail(s)[i] = s[i + 1]
    BY HeadTailProperties
<1>4. /\ Tail(s \o t) \in Seq(S) /\ Len(Tail(s \o t)) = Len(s \o t) - 1
      /\ \A i \in 1..Len(Tail(s \o t)) : Tail(s \o t)[i] = (s \o t)[i + 1]
    BY <1>1, <1>2, HeadTailProperties
<1>5. /\ Tail(s) \o t \in Seq(S) /\ Len(Tail(s) \o t) = Len(Tail(s)) + Len(t)
      /\ \A i \in 1..(Len(Tail(s)) + Len(t)) :
            (Tail(s) \o t)[i] = IF i <= Len(Tail(s)) THEN Tail(s)[i] ELSE t[i - Len(Tail(s))]
    BY <1>3, ConcatProperties
<1>6. Len(Tail(s \o t)) = Len(Tail(s) \o t)
    BY <1>1, <1>3, <1>4, <1>5
<1>7. ASSUME NEW i \in 1..Len(Tail(s \o t)) PROVE Tail(s \o t)[i] = (Tail(s) \o t)[i]
    <2>1. i \in Nat /\ i >= 1 /\ i <= Len(s) - 1 + Len(t)
        BY <1>1, <1>4
    <2>2. Tail(s \o t)[i] = IF i + 1 <= Len(s) THEN s[i + 1] ELSE t[i + 1 - Len(s)]
        BY <1>1, <1>4, <2>1
    <2>3. CASE i + 1 <= Len(s)
        BY <1>1, <1>3, <1>5, <2>1, <2>2, <2>3
    <2>4. CASE i + 1 > Len(s)
        <3>1. Tail(s \o t)[i] = t[i + 1 - Len(s)]
            BY <1>1, <2>1, <2>2, <2>4
        <3>2. (Tail(s) \o t)[i] = t[i - (Len(s) - 1)]
            BY <1>1, <1>3, <1>5, <2>1, <2>4
        <3>3. i + 1 - Len(s) = i - (Len(s) - 1)
            BY <1>1, <2>1
        <3> QED
            BY <3>1, <3>2, <3>3
    <2> QED
        BY <1>1, <2>1, <2>3, <2>4
<1>8. Tail(s \o t) = Tail(s) \o t
    BY <1>4, <1>5, <1>6, <1>7, SeqEqual
<1>9. Head(s \o t) = Head(s)
    BY <1>1, <1>2
<1> QED
    BY <1>2, <1>8, <1>9

LEMMA HeadFirst ==
    ASSUME NEW S, NEW s \in Seq(S), s # <<>>
    PROVE  <<Head(s)>> \o Tail(s) = s
<1>1. Head(s) \in S /\ Tail(s) \in Seq(S) /\ Len(Tail(s)) = Len(s) - 1 /\ Len(s) \in Nat \ {0}
      /\ (\A i \in 1..Len(Tail(s)) : Tail(s)[i] = s[i + 1]) /\ Head(s) = s[1]
    BY HeadTailProperties, EmptySeq
<1>2. <<Head(s)>> \in Seq(S) /\ Len(<<Head(s)>>) = 1 /\ <<Head(s)>>[1] = s[1]
    BY <1>1
<1> DEFINE h == <<Head(s)>>
<1> HIDE DEF h
<1>3. /\ h \o Tail(s) \in Seq(S) /\ Len(h \o Tail(s)) = Len(s)
      /\ \A i \in 1..Len(s) : (h \o Tail(s))[i] = IF i <= 1 THEN s[1] ELSE Tail(s)[i - 1]
    BY <1>1, <1>2, ConcatProperties DEF h
<1>4. \A i \in 1..Len(s) : (h \o Tail(s))[i] = s[i]
    BY <1>1, <1>3
<1>5. h \o Tail(s) = s
    BY <1>3, <1>4, SeqEqual
<1> QED
    BY <1>5 DEF h

LEMMA HeadMoves ==
    ASSUME NEW S, NEW a \in Seq(S), NEW s \in Seq(S), s # <<>>
    PROVE  (a \o <<Head(s)>>) \o Tail(s) = (a \o <<>>) \o s
<1> DEFINE h == <<Head(s)>>
           t == Tail(s)
<1>1. h \in Seq(S)
    BY HeadTailProperties
<1>2. t \in Seq(S)
    BY HeadTailProperties
<1>3. h \o t = s
    BY HeadFirst
<1> HIDE DEF h, t
<1>4. (a \o h) \o t = a \o (h \o t)
    BY <1>1, <1>2, ConcatAssociative
<1>5. a \o <<>> = a
    BY ConcatEmptySeq
<1>6. (a \o h) \o t = (a \o <<>>) \o s
    BY <1>3, <1>4, <1>5
<1> QED
    BY <1>6 DEF h, t

LEMMA Halves ==
    ASSUME NEW S, NEW s \in Seq(S), NEW n \in 1..Len(s)
    PROVE  SubSeq(s, 1, n) \o SubSeq(s, n + 1, Len(s)) = s
<1>1. Len(s) \in Nat
    OBVIOUS
<1>2. 1 \in 1..(Len(s) + 1) /\ n \in (1 - 1)..Len(s) /\ Len(s) \in n..Len(s)
    BY <1>1
<1>3. SubSeq(s, 1, n) \o SubSeq(s, n + 1, Len(s)) = SubSeq(s, 1, Len(s))
    BY <1>1, <1>2, ConcatAdjacentSubSeq
<1> QED
    BY <1>3, SubSeqFull

\* Bytes, whether the client has them to send or not.
Positions == Nat \X Nat

LEMMA BeforeTransitive ==
    ASSUME NEW a \in Positions, NEW b \in Positions, NEW c \in Positions,
           Before(a, b), Before(b, c)
    PROVE  Before(a, c)
<1>1. a[1] \in Nat /\ a[2] \in Nat /\ b[1] \in Nat /\ b[2] \in Nat /\ c[1] \in Nat /\ c[2] \in Nat
    BY DEF Positions
<1> QED
    BY <1>1 DEF Before

LEMMA OrderedTail ==
    ASSUME NEW u \in Seq(Positions), u # <<>>, Ordered(u)
    PROVE  Ordered(Tail(u))
<1>1. /\ Tail(u) \in Seq(Positions) /\ Len(Tail(u)) = Len(u) - 1 /\ Len(u) \in Nat \ {0}
      /\ \A i \in 1..Len(Tail(u)) : Tail(u)[i] = u[i + 1]
    BY HeadTailProperties, EmptySeq
<1>2. \A k \in 1..(Len(Tail(u)) - 1) : Tail(u)[k + 1] = Following(Tail(u)[k])
    BY <1>1 DEF Ordered
<1>3. \A j \in 1..Len(Tail(u)) : \A k \in 1..(j - 1) : Before(Tail(u)[k], Tail(u)[j])
    BY <1>1 DEF Ordered
<1> QED
    BY <1>2, <1>3 DEF Ordered

LEMMA OrderedAppend ==
    ASSUME NEW u \in Seq(Positions), u # <<>>, Ordered(u), NEW e \in Positions,
           e = Following(u[Len(u)])
    PROVE  Ordered(Append(u, e))
<1> DEFINE v == Append(u, e)
           n == Len(u)
<1>1. n \in Nat \ {0} /\ Len(v) = n + 1 /\ v[n + 1] = e /\ \A i \in 1..n : v[i] = u[i]
    BY AppendProperties, EmptySeq
<1>2. \A i \in 1..n : u[i] \in Positions /\ u[i][1] \in Nat /\ u[i][2] \in Nat
    BY DEF Positions
<1>3. Before(u[n], e)
    BY <1>1, <1>2 DEF Before, Following
<1> HIDE DEF v
<1>5. \A k \in 1..(n - 1) : u[k + 1] = Following(u[k])
    BY DEF Ordered
<1>6. \A k \in 1..n : v[k + 1] = Following(v[k])
    BY <1>1, <1>5
<1>7. \A j \in 1..n : \A k \in 1..(j - 1) : Before(u[k], u[j])
    BY DEF Ordered
<1>8. \A k \in 1..n : Before(u[k], e)
    <2>1. TAKE k \in 1..n
    <2>2. CASE k = n
        BY <1>3, <2>2
    <2>3. CASE k # n
        <3>1. Before(u[k], u[n])
            BY <1>1, <1>7, <2>3
        <3>2. u[k] \in Positions /\ u[n] \in Positions
            BY <1>1, <1>2
        <3> QED
            BY <1>3, <3>1, <3>2, BeforeTransitive
    <2> QED
        BY <2>2, <2>3
<1>9. \A j \in 1..(n + 1) : \A k \in 1..(j - 1) : Before(v[k], v[j])
    BY <1>1, <1>7, <1>8
<1>10. Ordered(v)
    BY <1>1, <1>6, <1>9 DEF Ordered
<1> QED
    BY <1>10 DEF v

-----------------------------------------------------------------------------
(* The invariant, on top of IInv.                                          *)

\* A background read that is on will find byteBuf empty.
ByteInv == bg # "off" => byte = <<>>

ClientInv == creq <= MaxRequests => cpos < Total(creq)

\* The server has read no further than the client has sent.
AheadInv ==
    /\ cur <= creq
    /\ creq = cur => cpos >= 1 /\ (cpos = 1 => Unread = <<>>)

OrderInv == Ordered(Upcoming)

\* How far the body is.
BodyInv == cur > 0 =>
    /\ left \in 0..script[cur].len
    /\ IF script[cur].chunked THEN sawEOF \/ trailer => left = 0
                              ELSE ~trailer /\ (~sawEOF => left > 0)
    /\ pc \in {"bodyRead", "discard", "closeBody"} => HasBody(cur) /\ ~sawEOF

EofInv == cur > 0 /\ sawEOF =>
    Position = Total(cur) \/ (peer = "closed" /\ Unread = <<>>)

\* A reply that keeps the connection leaves nothing of the body.
ReplyInv ==
    /\ wroteHeader /\ pc # "discard" => closeAfterReply \/ sawEOF
    /\ reply = "close" => closeAfterReply
    /\ reply = "keep" => sawEOF
    /\ pc \in {"idle", "peek", "read"} => cur = 0 \/ (sawEOF /\ ~closeAfterReply)

\* The client has left out the body of the request that is served, whose
\* reply said close, and sends nothing more.
Skipped == Unread = <<>> /\ creq > 1 /\ Wrapped(creq - 1) /\ reply = "close"

\* What comes next is what has not been read yet.
PlaceInv == pc # "hijacked" =>
    \/ cur > 0 /\ Upcoming[1] = <<cur, Position>> /\ Position < Total(cur)
    \/ /\ Upcoming[1] = <<cur + 1, 0>>
       /\ cur = 0 \/ Position = Total(cur) \/ Skipped

SInv == /\ IInv /\ ByteInv /\ ClientInv /\ AheadInv /\ OrderInv /\ BodyInv /\ EofInv
        /\ ReplyInv /\ PlaceInv

-----------------------------------------------------------------------------
(* Most steps leave the stream and the place in it alone.                  *)

Quiet ==
    \/ ClientClose \/ BackgroundRead \/ BackgroundDone \/ Broadcast
    \/ HandlerReadBody \/ HandlerCloseBody \/ HandlerFlush \/ HandlerReturn
    \/ HandlerHijack \/ HandlerPanic
    \/ Read \/ ReadData \/ ReadError \/ Dispatch \/ shouldReuseConnection
    \/ Idle \/ Peek \/ Close \/ hijackLocked \/ writeHeader \/ Flush
    \/ finishRequest \/ abortPendingRead \/ AbortWake
    \/ UNCHANGED vars

LEMMA StepCases ==
    ASSUME [Next]_vars
    PROVE  ClientSend \/ ClientSkipBody \/ ReadRequest \/ ReadBody \/ HijackRead \/ Quiet
BY DEF Next, Client, Background, Handler, Serve, Quiet

LEMMA StreamParts ==
    ASSUME IInv
    PROVE  /\ bufr \in Seq(Bytes) /\ byte \in Seq(Bytes) /\ bgByte \in Seq(Bytes) /\ sock \in Seq(Bytes)
           /\ Unread \in Seq(Bytes) /\ Unread \in Seq(Positions)
           /\ <<creq, cpos>> \in Positions /\ creq \in 1..(MaxRequests + 1) /\ cpos \in Nat
           /\ cur \in 0..MaxRequests /\ MaxRequests \in Nat
<1>1. /\ bufr \in Seq(Bytes) /\ byte \in Seq(Bytes) /\ bgByte \in Seq(Bytes) /\ sock \in Seq(Bytes)
      /\ creq \in 1..(MaxRequests + 1) /\ cpos \in Nat /\ cur \in 0..MaxRequests
    BY DEF IInv, TypeOK, StreamType
<1>2. Unread \in Seq(Bytes)
    <2>1. bufr \o byte \in Seq(Bytes)
        BY <1>1
    <2>2. bufr \o byte \o bgByte \in Seq(Bytes)
        BY <1>1, <2>1
    <2> QED
        BY <1>1, <2>2 DEF Unread
<1>3. Bytes \subseteq Positions /\ <<creq, cpos>> \in Positions
    BY <1>1, RequestsAssumption DEF Bytes, Positions
<1> QED
    BY <1>1, <1>2, <1>3, SeqMonotonic, RequestsAssumption

LEMMA QuietFrame ==
    ASSUME IInv, Quiet
    PROVE  /\ UNCHANGED <<script, creq, cpos, cur, left, trailer>>
           /\ peer' = peer \/ peer' = "closed"
           /\ pc = "hijacked" => pc' = "hijacked"
<1> USE DEF clientVars, rwcVars, crVars, bgVars, bodyVars, respVars, requestVars
<1>1. CASE ClientClose \/ BackgroundRead \/ BackgroundDone \/ Broadcast
    BY <1>1 DEF ClientClose, BackgroundRead, BackgroundDone, Broadcast
<1>2. CASE HandlerReadBody \/ HandlerCloseBody \/ HandlerFlush
    BY <1>2 DEF HandlerReadBody, HandlerCloseBody, HandlerFlush, closeBody
<1>3. CASE HandlerReturn \/ HandlerHijack \/ HandlerPanic
    BY <1>3 DEF HandlerReturn, HandlerHijack, HandlerPanic
<1>4. CASE Read \/ ReadData
    BY <1>4 DEF Read, ReadData, Reading
<1>5. CASE ReadError
    <2>1. filling /\ pc \in Reading
        BY <1>5 DEF ReadError, IInv, ReaderInv
    <2> QED
        BY <1>5, <2>1 DEF ReadError, Reading
<1>6. CASE Dispatch \/ shouldReuseConnection \/ Idle \/ Peek \/ Close
    BY <1>6 DEF Dispatch, startBackgroundRead, shouldReuseConnection, Idle, Peek, Close
<1>7. CASE hijackLocked \/ Flush \/ abortPendingRead \/ AbortWake
    BY <1>7 DEF hijackLocked, Flush, abortPendingRead, AbortWake
<1>8. CASE writeHeader
    BY <1>8 DEF writeHeader
<1>9. CASE finishRequest
    BY <1>9 DEF finishRequest, closeBody
<1>10. CASE UNCHANGED vars
    BY <1>10 DEF vars
<1> QED
    BY <1>1, <1>2, <1>3, <1>4, <1>5, <1>6, <1>7, <1>8, <1>9, <1>10 DEF Quiet

LEMMA QuietUnread ==
    ASSUME IInv, ByteInv, Quiet
    PROVE  Unread' = Unread
<1> USE DEF clientVars, rwcVars, crVars, bgVars
<1>0. UNCHANGED <<bufr, byte, bgByte, sock>> => Unread' = Unread
    BY DEF Unread
<1>1. CASE ClientClose \/ Broadcast \/ ReadError \/ Dispatch \/ UNCHANGED vars
    BY <1>0, <1>1 DEF ClientClose, Broadcast, ReadError, Dispatch, vars
<1>2. CASE HandlerReadBody \/ HandlerCloseBody \/ HandlerFlush \/ HandlerReturn
           \/ HandlerHijack \/ HandlerPanic
    BY <1>0, <1>2 DEF HandlerReadBody, HandlerCloseBody, HandlerFlush, HandlerReturn,
                      HandlerHijack, HandlerPanic
<1>3. CASE shouldReuseConnection \/ Idle \/ Peek \/ Close \/ writeHeader \/ Flush
           \/ finishRequest \/ abortPendingRead \/ AbortWake
    BY <1>0, <1>3 DEF shouldReuseConnection, Idle, Peek, Close, writeHeader, Flush,
                      finishRequest, abortPendingRead, AbortWake
<1>4. bufr \in Seq(Bytes) /\ byte \in Seq(Bytes) /\ bgByte \in Seq(Bytes) /\ sock \in Seq(Bytes)
    BY StreamParts
<1>5. CASE BackgroundRead
    <2>1. UNCHANGED <<bufr, byte>>
        BY <1>5 DEF BackgroundRead
    <2>2. CASE UNCHANGED <<bgByte, sock>>
        BY <1>0, <2>1, <2>2
    <2>3. CASE sock # <<>> /\ bgByte' = <<Head(sock)>> /\ sock' = Tail(sock)
        <3>1. bgByte = <<>>
            BY <1>5 DEF BackgroundRead, IInv, ReaderInv
        <3>2. bufr \o byte \in Seq(Bytes)
            BY <1>4
        <3>3. ((bufr \o byte) \o <<Head(sock)>>) \o Tail(sock) = ((bufr \o byte) \o <<>>) \o sock
            BY <1>4, <2>3, <3>2, HeadMoves
        <3> QED
            BY <2>1, <2>3, <3>1, <3>3 DEF Unread
    <2> QED
        BY <1>5, <2>2, <2>3 DEF BackgroundRead
<1>6. CASE BackgroundDone
    <2>1. /\ UNCHANGED <<bufr, sock>> /\ byte = <<>> /\ bgByte' = <<>>
          /\ byte' = IF bg = "data" THEN bgByte ELSE byte
        BY <1>6 DEF BackgroundDone, ByteInv
    <2>2. byte' = bgByte
        BY <2>1 DEF IInv, ReaderInv
    <2>3. bufr \o byte = bufr
        BY <1>4, <2>1, ConcatEmptySeq
    <2>4. bufr \o bgByte \in Seq(Bytes)
        BY <1>4, ConcatProperties
    <2>5. (bufr \o bgByte) \o <<>> = bufr \o bgByte
        BY <2>4, ConcatEmptySeq
    <2> QED
        BY <2>1, <2>2, <2>3, <2>5 DEF Unread
<1>7. CASE Read
    <2>1. bufr = <<>> /\ UNCHANGED <<bgByte, sock>>
        BY <1>7 DEF Read
    <2>2. CASE inRead
        BY <1>0, <1>7, <2>1, <2>2 DEF Read
    <2>3. CASE ~inRead
        <3>1. bufr' = byte /\ byte' = <<>>
            BY <1>7, <2>3 DEF Read
        <3>2. bufr \o byte = bufr' \o byte'
            BY <1>4, <2>1, <3>1, ConcatEmptySeq
        <3> QED
            BY <2>1, <3>2 DEF Unread
    <2> QED
        BY <2>2, <2>3
<1>8. CASE ReadData
    <2>1. bufr = <<>> /\ byte = <<>> /\ bgByte = <<>> /\ UNCHANGED <<byte, bgByte>>
        BY <1>8 DEF ReadData, IInv, ReaderInv
    <2>2. PICK n \in 1..Len(sock) :
              bufr' = SubSeq(sock, 1, n) /\ sock' = SubSeq(sock, n + 1, Len(sock))
        BY <1>8 DEF ReadData
    <2>3. bufr' \o sock' = sock
        BY <1>4, <2>2, Halves
    <2>4. bufr' \in Seq(Bytes)
        <3>1. Len(sock) \in Nat /\ n \in Nat /\ \A i \in 1..n : sock[i] \in Bytes
            BY <1>4
        <3> QED
            BY <2>2, <3>1, SubSeqProperties
    <2>5. Unread = sock
        BY <1>4, <2>1, ConcatEmptySeq DEF Unread
    <2>6. bufr' \o byte' \o bgByte' = bufr'
        BY <2>1, <2>4, ConcatEmptySeq
    <2> QED
        BY <2>3, <2>5, <2>6 DEF Unread
<1>9. CASE hijackLocked
    <2>1. UNCHANGED <<bgByte, sock>>
        BY <1>9 DEF hijackLocked
    <2>2. CASE UNCHANGED <<bufr, byte>>
        BY <1>0, <2>1, <2>2
    <2>3. CASE bufr' = bufr \o byte /\ byte' = <<>>
        <3>1. bufr' \o byte' = bufr \o byte
            BY <1>4, <2>3, ConcatEmptySeq, ConcatProperties
        <3> QED
            BY <2>1, <3>1 DEF Unread
    <2> QED
        BY <1>9, <2>2, <2>3 DEF hijackLocked
<1> QED
    BY <1>1, <1>2, <1>3, <1>5, <1>6, <1>7, <1>8, <1>9 DEF Quiet

\* The end of a body that is seen anew is the end of the stream.
LEMMA QuietEof ==
    ASSUME IInv, Quiet
    PROVE  \/ sawEOF' = sawEOF
           \/ /\ sawEOF' /\ ~script[cur].chunked
              /\ peer = "closed" /\ peer' = "closed" /\ Unread = <<>>
<1> USE DEF clientVars, bodyVars, respVars, requestVars
<1>1. CASE ClientClose \/ BackgroundRead \/ BackgroundDone \/ Broadcast \/ UNCHANGED vars
    BY <1>1 DEF ClientClose, BackgroundRead, BackgroundDone, Broadcast, vars
<1>2. CASE HandlerReadBody \/ HandlerCloseBody \/ HandlerFlush \/ HandlerReturn
           \/ HandlerHijack \/ HandlerPanic
    BY <1>2 DEF HandlerReadBody, HandlerCloseBody, closeBody, HandlerFlush, HandlerReturn,
                HandlerHijack, HandlerPanic
<1>3. CASE Read \/ ReadData \/ Dispatch \/ shouldReuseConnection \/ Idle \/ Peek \/ Close
    BY <1>3 DEF Read, ReadData, Dispatch, shouldReuseConnection, Idle, Peek, Close
<1>4. CASE hijackLocked \/ writeHeader \/ Flush \/ abortPendingRead \/ AbortWake
    BY <1>4 DEF hijackLocked, writeHeader, Flush, abortPendingRead, AbortWake
<1>5. CASE finishRequest
    BY <1>5 DEF finishRequest, closeBody
<1>6. CASE ReadError
    <2>1. bufr = <<>> /\ byte = <<>> /\ bgByte = <<>> /\ peer' = peer
        BY <1>6 DEF ReadError, IInv, ReaderInv
    <2>2. \/ sawEOF' = sawEOF
          \/ sawEOF' /\ ~script[cur].chunked /\ peer = "closed" /\ sock = <<>>
        BY <1>6 DEF ReadError, IInv, TypeOK, RequestType
    <2>3. sock = <<>> => Unread = <<>>
        BY <2>1 DEF Unread
    <2> QED
        BY <2>1, <2>2, <2>3
<1> QED
    BY <1>1, <1>2, <1>3, <1>4, <1>5, <1>6 DEF Quiet

\* The numbers in the requests.
LEMMA TotalType ==
    ASSUME IInv, NEW r \in 1..MaxRequests
    PROVE  /\ script[r].len \in Nat /\ script[r].chunked \in BOOLEAN
           /\ Total(r) = IF script[r].chunked THEN script[r].len + 3 ELSE script[r].len + 1
           /\ Total(r) \in Nat \ {0}
<1>1. script[r] \in Requests
    BY DEF IInv, TypeOK, StreamType
<1>2. script[r].len \in Nat /\ script[r].chunked \in BOOLEAN
    BY <1>1, RequestsAssumption
<1> QED
    BY <1>2 DEF Total

LEMMA QuietByte ==
    ASSUME IInv, ByteInv, Quiet
    PROVE  ByteInv'
<1> USE DEF clientVars, rwcVars, crVars, bgVars, ByteInv
<1>1. CASE UNCHANGED <<bg, byte>>
    BY <1>1
<1>2. CASE BackgroundRead \/ BackgroundDone
    BY <1>2 DEF BackgroundRead, BackgroundDone
<1>3. CASE Read
    BY <1>3 DEF Read
<1>4. CASE ReadError
    <2>1. byte = <<>> /\ byte' = byte
        BY <1>4 DEF ReadError, IInv, ReaderInv
    <2> QED
        BY <2>1
<1>5. CASE Dispatch
    BY <1>5 DEF Dispatch, startBackgroundRead
<1>6. CASE hijackLocked
    BY <1>6 DEF hijackLocked
<1>7. CASE ClientClose \/ Broadcast \/ ReadData \/ UNCHANGED vars
    BY <1>7 DEF ClientClose, Broadcast, ReadData, vars
<1>8. CASE HandlerReadBody \/ HandlerCloseBody \/ HandlerFlush \/ HandlerReturn
           \/ HandlerHijack \/ HandlerPanic
    BY <1>8 DEF HandlerReadBody, HandlerCloseBody, HandlerFlush, HandlerReturn,
                HandlerHijack, HandlerPanic
<1>9. CASE shouldReuseConnection \/ Idle \/ Peek \/ Close \/ writeHeader \/ Flush
           \/ finishRequest \/ abortPendingRead \/ AbortWake
    BY <1>9 DEF shouldReuseConnection, Idle, Peek, Close, writeHeader, Flush,
                finishRequest, abortPendingRead, AbortWake
<1> QED
    BY <1>2, <1>3, <1>4, <1>5, <1>6, <1>7, <1>8, <1>9 DEF Quiet

\* A body is read only when there is something of it to be read.
LEMMA QuietReading ==
    ASSUME IInv, BodyInv, Quiet, pc' \in {"bodyRead", "discard", "closeBody"}
    PROVE  HasBody(cur) /\ ~sawEOF'
<1> USE DEF clientVars, bodyVars, respVars, requestVars
<1> DEFINE Busy == {"bodyRead", "discard", "closeBody"}
<1>1. pc \in Busy => HasBody(cur) /\ ~sawEOF
    BY DEF IInv, EndInv, TypeOK, StreamType, BodyInv
<1>2. CASE ClientClose \/ BackgroundRead \/ BackgroundDone \/ Broadcast \/ UNCHANGED vars
    BY <1>1, <1>2 DEF ClientClose, BackgroundRead, BackgroundDone, Broadcast, vars
<1>3. CASE HandlerReadBody
    BY <1>3 DEF HandlerReadBody
<1>12. CASE HandlerCloseBody
    <2>1. HasBody(cur) /\ (sawEOF => pc' = "handler") /\ sawEOF' = sawEOF
        BY <1>12 DEF HandlerCloseBody, closeBody
    <2> QED
        BY <2>1
<1>4. CASE HandlerFlush \/ HandlerReturn \/ HandlerHijack \/ HandlerPanic
    BY <1>4 DEF HandlerFlush, HandlerReturn, HandlerHijack, HandlerPanic
<1>5. CASE Read \/ ReadData
    BY <1>1, <1>5 DEF Read, ReadData
<1>6. CASE ReadError
    BY <1>6 DEF ReadError, IInv, ReaderInv, ReturnInv, Reading
<1>7. CASE Dispatch \/ shouldReuseConnection \/ Idle \/ Peek \/ Close
    BY <1>7 DEF Dispatch, startBackgroundRead, shouldReuseConnection, Idle, Peek, Close
<1>8. CASE hijackLocked \/ abortPendingRead \/ AbortWake
    BY <1>8 DEF hijackLocked, abortPendingRead, AbortWake, AfterAbort
<1>9. CASE Flush
    BY <1>9 DEF Flush, IInv, ReturnInv
<1>10. CASE writeHeader
    BY <1>10 DEF writeHeader
<1>11. CASE finishRequest
    BY <1>11 DEF finishRequest, closeBody
<1> QED
    BY <1>2, <1>3, <1>4, <1>5, <1>6, <1>7, <1>8, <1>9, <1>10, <1>11, <1>12 DEF Quiet

LEMMA QuietReply ==
    ASSUME IInv, ReplyInv, Quiet
    PROVE  ReplyInv'
<1> USE DEF clientVars, bodyVars, respVars, requestVars, ReplyInv
<1>1. CASE ClientClose \/ BackgroundRead \/ BackgroundDone \/ Broadcast \/ UNCHANGED vars
    BY <1>1 DEF ClientClose, BackgroundRead, BackgroundDone, Broadcast, vars
<1>2. CASE HandlerReadBody \/ HandlerCloseBody
    <2>1. /\ pc = "handler" /\ pc' \in {"handler", "bodyRead", "closeBody"}
          /\ UNCHANGED <<cur, wroteHeader, closeAfterReply, sawEOF, reply>>
        BY <1>2 DEF HandlerReadBody, HandlerCloseBody, closeBody
    <2> QED
        BY <2>1
<1>3. CASE HandlerFlush \/ HandlerReturn \/ HandlerHijack \/ HandlerPanic
    BY <1>3 DEF HandlerFlush, HandlerReturn, HandlerHijack, HandlerPanic
<1>4. CASE Read \/ ReadData
    <2>1. pc' = pc
        BY <1>4 DEF Read, ReadData, IInv, ReaderInv, BackgroundInv, Reading
    <2> QED
        BY <1>4, <2>1 DEF Read, ReadData
<1>5. CASE ReadError
    BY <1>5 DEF ReadError, IInv, ReaderInv, ReturnInv, Reading
<1>6. CASE Dispatch \/ Idle \/ Peek \/ Close
    BY <1>6 DEF Dispatch, startBackgroundRead, Idle, Peek, Close
<1>7. CASE shouldReuseConnection
    BY <1>7 DEF shouldReuseConnection, IInv, EndInv, Ending
<1>8. CASE hijackLocked \/ abortPendingRead \/ AbortWake
    BY <1>8 DEF hijackLocked, abortPendingRead, AbortWake, AfterAbort
<1>9. CASE Flush
    BY <1>9 DEF Flush, IInv, ReturnInv, EndInv, Ending
<1>10. CASE writeHeader
    <2>1. PICK asked \in BOOLEAN : writeHeader!(asked)
        BY <1>10 DEF writeHeader
    <2>2. /\ pc = "header" /\ pc' \in {"discard", "flush"}
          /\ UNCHANGED <<cur, sawEOF, reply>>
          /\ closeAfterReply => closeAfterReply'
        BY <2>1
    <2>3. ecrSawEOF => sawEOF
        BY DEF IInv, EndInv
    <2>4. HasBody(cur) \/ sawEOF
        BY <2>2 DEF IInv, EndInv
    <2>5. pc' = "flush" => closeAfterReply' \/ sawEOF
        BY <2>1, <2>3, <2>4
    <2> QED
        BY <2>2, <2>5
<1>11. CASE finishRequest
    BY <1>11 DEF finishRequest, closeBody, IInv, EndInv, Ending
<1> QED
    BY <1>1, <1>2, <1>3, <1>4, <1>5, <1>6, <1>7, <1>8, <1>9, <1>10, <1>11 DEF Quiet

\* What the client was told stays.
LEMMA QuietTold ==
    ASSUME IInv, ReplyInv, Quiet, reply = "close"
    PROVE  reply' = "close"
<1> USE DEF clientVars, bodyVars, respVars, requestVars
<1>1. CASE Flush
    BY <1>1 DEF Flush, ReplyInv
<1>2. CASE ClientClose \/ BackgroundRead \/ BackgroundDone \/ Broadcast \/ UNCHANGED vars
    BY <1>2 DEF ClientClose, BackgroundRead, BackgroundDone, Broadcast, vars
<1>3. CASE HandlerReadBody \/ HandlerCloseBody \/ HandlerFlush \/ HandlerReturn
           \/ HandlerHijack \/ HandlerPanic
    BY <1>3 DEF HandlerReadBody, HandlerCloseBody, HandlerFlush, HandlerReturn,
                HandlerHijack, HandlerPanic
<1>4. CASE Read \/ ReadData \/ ReadError \/ Dispatch \/ shouldReuseConnection \/ Idle
           \/ Peek \/ Close
    BY <1>4 DEF Read, ReadData, ReadError, Dispatch, shouldReuseConnection, Idle, Peek, Close
<1>5. CASE hijackLocked \/ abortPendingRead \/ AbortWake \/ writeHeader \/ finishRequest
    BY <1>5 DEF hijackLocked, abortPendingRead, AbortWake, writeHeader, finishRequest
<1> QED
    BY <1>1, <1>2, <1>3, <1>4, <1>5 DEF Quiet

LEMMA QuietPosition ==
    ASSUME IInv, Quiet
    PROVE  Position' = Position
<1>1. UNCHANGED <<script, cur, left, trailer>>
    BY QuietFrame
<1>2. cur # 0 => script[cur].chunked \in BOOLEAN
    BY TotalType, StreamParts
<1>3. cur # 0 /\ script[cur].chunked => sawEOF' = sawEOF
    BY QuietEof
<1> QED
    BY <1>1, <1>2, <1>3 DEF Position

LEMMA QuietKeeps ==
    ASSUME SInv, Quiet, IInv'
    PROVE  SInv'
<1> USE DEF SInv
<1>1. /\ UNCHANGED <<script, creq, cpos, cur, left, trailer>>
      /\ peer' = peer \/ peer' = "closed"
      /\ pc = "hijacked" => pc' = "hijacked"
    BY QuietFrame
<1>2. Unread' = Unread /\ Upcoming' = Upcoming
    BY <1>1, QuietUnread DEF Upcoming
<1>3. Position' = Position
    BY QuietPosition
<1>4. ByteInv' /\ ReplyInv'
    BY QuietByte, QuietReply
<1>5. ClientInv'
    BY <1>1 DEF ClientInv, Total
<1>6. AheadInv'
    BY <1>1, <1>2 DEF AheadInv
<1>7. OrderInv'
    BY <1>1, <1>2 DEF OrderInv, Ordered, Following, Before, Total
<1>8. \/ sawEOF' = sawEOF
      \/ /\ sawEOF' /\ ~script[cur].chunked
         /\ peer = "closed" /\ peer' = "closed" /\ Unread = <<>>
    BY QuietEof
<1>9. BodyInv'
    <2>1. pc' \in {"bodyRead", "discard", "closeBody"} => HasBody(cur) /\ ~sawEOF'
        BY QuietReading
    <2>2. HasBody(cur)' = HasBody(cur)
        BY <1>1 DEF HasBody
    <2> QED
        BY <1>1, <1>8, <2>1, <2>2 DEF BodyInv
<1>10. EofInv'
    BY <1>1, <1>2, <1>3, <1>8 DEF EofInv, Total
<1>11. Skipped => Skipped'
    BY <1>1, <1>2, QuietTold DEF Skipped, Wrapped, HasBody
<1>12. PlaceInv'
    BY <1>1, <1>2, <1>3, <1>11 DEF PlaceInv, Total
<1> QED
    BY <1>4, <1>5, <1>6, <1>7, <1>9, <1>10, <1>12

-----------------------------------------------------------------------------
(* The client extends the stream.                                          *)

LEMMA ConcatAppend ==
    ASSUME NEW S, NEW a \in Seq(S), NEW s \in Seq(S), NEW e \in S
    PROVE  a \o Append(s, e) = Append(a \o s, e)
<1>1. <<e>> \in Seq(S)
    OBVIOUS
<1>2. Append(s, e) = s \o <<e>>
    BY AppendIsConcat
<1>3. a \o s \in Seq(S)
    BY ConcatProperties
<1>4. Append(a \o s, e) = (a \o s) \o <<e>>
    BY <1>3, AppendIsConcat
<1>5. (a \o s) \o <<e>> = a \o (s \o <<e>>)
    BY <1>1, ConcatAssociative
<1> QED
    BY <1>2, <1>4, <1>5

LEMMA UpcomingParts ==
    ASSUME IInv
    PROVE  /\ Upcoming \in Seq(Positions) /\ Upcoming # <<>>
           /\ Len(Upcoming) = Len(Unread) + 1 /\ Len(Unread) \in Nat
           /\ Upcoming[Len(Upcoming)] = <<creq, cpos>>
           /\ Upcoming[1] = IF Unread = <<>> THEN <<creq, cpos>> ELSE Head(Unread)
<1> DEFINE e == <<creq, cpos>>
<1>1. Unread \in Seq(Positions) /\ e \in Positions
    BY StreamParts
<1> HIDE DEF e
<1>2. /\ Append(Unread, e) \in Seq(Positions) /\ Append(Unread, e) # <<>>
      /\ Len(Append(Unread, e)) = Len(Unread) + 1 /\ Len(Unread) \in Nat
      /\ Append(Unread, e)[Len(Unread) + 1] = e
      /\ Append(Unread, e)[1] = IF Unread = <<>> THEN e ELSE Head(Unread)
    BY <1>1
<1>3. Upcoming = Append(Unread, e)
    BY DEF Upcoming, e
<1> QED
    BY <1>2, <1>3 DEF e

LEMMA ClientSendKeeps ==
    ASSUME SInv, ClientSend, IInv'
    PROVE  SInv'
<1> USE DEF SInv
<1>1. /\ peer = "open" /\ creq \in 1..MaxRequests /\ cpos \in Nat
      /\ cpos = 0 /\ creq > 1 /\ Wrapped(creq - 1) => reply = "keep"
      /\ sock' = Append(sock, <<creq, cpos>>)
      /\ IF cpos + 1 = Total(creq) THEN creq' = creq + 1 /\ cpos' = 0
                                   ELSE creq' = creq /\ cpos' = cpos + 1
      /\ UNCHANGED <<script, peer, byte, bg, bgByte, pc, bufr, cur, left, sawEOF, trailer,
                     wroteHeader, closeAfterReply, reply>>
    BY StreamParts DEF ClientSend, crVars, bgVars, requestVars, bodyVars, respVars
<1>2. Unread' = Upcoming
    <2> DEFINE e == <<creq, cpos>>
    <2>1. bufr \in Seq(Bytes) /\ byte \in Seq(Bytes) /\ bgByte \in Seq(Bytes) /\ sock \in Seq(Bytes)
        BY StreamParts
    <2>2. e \in Bytes
        BY <1>1 DEF Bytes
    <2>3. bufr \o byte \o bgByte \in Seq(Bytes)
        BY <2>1, ConcatProperties
    <2> HIDE DEF e
    <2>4. (bufr \o byte \o bgByte) \o Append(sock, e) = Append((bufr \o byte \o bgByte) \o sock, e)
        BY <2>1, <2>2, <2>3, ConcatAppend
    <2>5. Unread' = (bufr \o byte \o bgByte) \o Append(sock, e)
        BY <1>1 DEF Unread, e
    <2>6. Upcoming = Append((bufr \o byte \o bgByte) \o sock, e)
        BY DEF Unread, Upcoming, e
    <2> QED
        BY <2>4, <2>5, <2>6
<1>3. Upcoming' = Append(Upcoming, <<creq', cpos'>>)
    BY <1>2 DEF Upcoming
<1>4. /\ Upcoming \in Seq(Positions) /\ Upcoming # <<>>
      /\ Upcoming[Len(Upcoming)] = <<creq, cpos>>
    BY UpcomingParts
<1>5. <<creq', cpos'>> \in Positions
    BY <1>1, RequestsAssumption DEF Positions
<1>6. <<creq', cpos'>> = Following(<<creq, cpos>>)
    BY <1>1 DEF Following
<1>7. OrderInv'
    <2>1. Ordered(Append(Upcoming, <<creq', cpos'>>))
        <3> DEFINE n == <<creq', cpos'>>
        <3>1. n \in Positions /\ n = Following(Upcoming[Len(Upcoming)])
            BY <1>4, <1>5, <1>6
        <3> HIDE DEF n
        <3>2. Ordered(Append(Upcoming, n))
            BY <1>4, <3>1, OrderedAppend DEF OrderInv
        <3> QED
            BY <3>2 DEF n
    <2>2. Ordered(Upcoming)' <=> Ordered(Upcoming')
        BY <1>1 DEF Ordered, Following, Before, Total
    <2> QED
        BY <1>3, <2>1, <2>2 DEF OrderInv
<1>8. Upcoming'[1] = Upcoming[1] /\ Unread' # <<>>
    BY <1>2, <1>3, <1>4, <1>5
<1>9. ByteInv' /\ ReplyInv'
    BY <1>1 DEF ByteInv, ReplyInv
<1>10. ClientInv'
    <2>1. Total(creq) \in Nat \ {0}
        BY <1>1, TotalType
    <2>2. creq' <= MaxRequests => creq' \in 1..MaxRequests
        BY <1>1, RequestsAssumption
    <2>3. creq' <= MaxRequests => Total(creq') \in Nat \ {0}
        <3>1. CASE creq' = creq
            BY <2>1, <3>1
        <3>2. CASE creq' = creq + 1 /\ creq + 1 <= MaxRequests
            <4>1. Total(creq + 1) \in Nat \ {0}
                BY <1>1, <3>2, TotalType, RequestsAssumption
            <4> QED
                BY <3>2, <4>1
        <3> QED
            BY <1>1, <3>1, <3>2
    <2>4. creq' <= MaxRequests => cpos' < Total(creq')
        BY <1>1, <2>1, <2>2, <2>3, RequestsAssumption DEF ClientInv
    <2> QED
        BY <1>1, <2>4 DEF ClientInv, Total
<1>11. AheadInv'
    <2>1. cur \in Nat /\ creq \in Nat /\ cur <= creq /\ (creq = cur => cpos >= 1)
        BY <1>1, StreamParts DEF AheadInv
    <2>2. creq' \in Nat /\ creq' >= creq /\ (creq' = creq => cpos' = cpos + 1)
        BY <1>1, <2>1
    <2>3. cur <= creq'
        BY <2>1, <2>2
    <2>4. creq' = cur => cpos' >= 1 /\ cpos' # 1
        BY <1>1, <2>1, <2>2
    <2> QED
        BY <1>1, <2>3, <2>4 DEF AheadInv
<1>12. BodyInv'
    BY <1>1 DEF BodyInv, HasBody
<1>13. Position' = Position /\ (cur > 0 => Total(cur)' = Total(cur))
    BY <1>1 DEF Position, Total
<1>14. EofInv'
    BY <1>1, <1>13 DEF EofInv
<1>15. Upcoming[1] = <<cur + 1, 0>> /\ cur # 0 => ~Skipped
    <2> SUFFICES ASSUME Upcoming[1] = <<cur + 1, 0>>, Skipped PROVE FALSE
        OBVIOUS
    <2>1. <<creq, cpos>> = <<cur + 1, 0>>
        BY UpcomingParts DEF Skipped
    <2> QED
        BY <1>1, <2>1 DEF Skipped
<1>16. PlaceInv'
    BY <1>1, <1>8, <1>13, <1>15, StreamParts DEF PlaceInv
<1> QED
    BY <1>7, <1>9, <1>10, <1>11, <1>12, <1>14, <1>16

LEMMA ClientSkipBodyKeeps ==
    ASSUME SInv, ClientSkipBody, IInv'
    PROVE  SInv'
<1> USE DEF SInv
<1>1. /\ peer = "open" /\ creq \in 1..MaxRequests /\ cpos = 1 /\ Wrapped(creq)
      /\ cur = creq /\ reply # "none" /\ creq' = creq + 1 /\ cpos' = 0
      /\ UNCHANGED <<script, peer, sock, byte, bg, bgByte, pc, bufr, cur, left, sawEOF, trailer,
                     wroteHeader, closeAfterReply, reply>>
    BY StreamParts DEF ClientSkipBody, rwcVars, crVars, bgVars, requestVars, bodyVars, respVars
<1>2. Unread = <<>> /\ Unread' = Unread
    BY <1>1 DEF AheadInv, Unread
<1>3. Upcoming = <<<<cur, 1>>>> /\ Upcoming' = <<<<cur + 1, 0>>>>
    BY <1>1, <1>2 DEF Upcoming
<1>4. Position' = Position /\ Total(cur)' = Total(cur)
    BY <1>1 DEF Position, Total
<1>5. reply = "close" \/ pc = "hijacked"
    <2> SUFFICES ASSUME reply = "keep", pc # "hijacked" PROVE FALSE
        BY <1>1 DEF IInv, TypeOK, RequestType
    <2>1. Position = Total(cur)
        BY <1>1 DEF ReplyInv, EofInv
    <2>2. Total(cur) \in Nat /\ cur \in Nat
        BY <1>1, TotalType, StreamParts
    <2>3. Upcoming[1] = <<cur, 1>>
        BY <1>3
    <2>4. <<cur, 1>> # <<cur + 1, 0>>
        BY <2>2
    <2> QED
        BY <2>1, <2>2, <2>3, <2>4 DEF PlaceInv
<1>6. ByteInv' /\ ReplyInv'
    BY <1>1 DEF ByteInv, ReplyInv
<1>7. ClientInv'
    <2>1. creq + 1 <= MaxRequests => Total(creq + 1) \in Nat \ {0}
        BY <1>1, TotalType, RequestsAssumption
    <2> QED
        BY <1>1, <2>1 DEF ClientInv, Total
<1>8. AheadInv'
    BY <1>1 DEF AheadInv
<1>9. OrderInv'
    BY <1>3 DEF OrderInv, Ordered
<1>10. BodyInv'
    BY <1>1 DEF BodyInv, HasBody
<1>11. EofInv'
    BY <1>1, <1>2, <1>4 DEF EofInv
<1>12. PlaceInv'
    <2>1. reply = "close" => Skipped'
        BY <1>1, <1>2 DEF Skipped, Wrapped, HasBody
    <2>2. Upcoming'[1] = <<cur + 1, 0>>
        BY <1>3
    <2> QED
        BY <1>1, <1>5, <2>1, <2>2 DEF PlaceInv
<1> QED
    BY <1>6, <1>7, <1>8, <1>9, <1>10, <1>11, <1>12

-----------------------------------------------------------------------------
(* The server takes the first byte.                                        *)

LEMMA UpcomingTail ==
    ASSUME IInv, Unread # <<>>, Unread' = Tail(Unread), UNCHANGED <<creq, cpos>>
    PROVE  /\ Upcoming' = Tail(Upcoming) /\ Upcoming'[1] = Upcoming[2]
           /\ Len(Upcoming) >= 2
<1> DEFINE e == <<creq, cpos>>
<1>1. Unread \in Seq(Positions) /\ e \in Positions /\ <<e>> \in Seq(Positions)
    BY StreamParts
<1>2. Upcoming' = Append(Tail(Unread), e) /\ Upcoming = Append(Unread, e)
    BY DEF Upcoming
<1> HIDE DEF e
<1>3. Tail(Unread) \in Seq(Positions)
    BY <1>1
<1>4. Append(Unread, e) = Unread \o <<e>> /\ Append(Tail(Unread), e) = Tail(Unread) \o <<e>>
    BY <1>1, <1>3, AppendIsConcat
<1>5. Upcoming' = Tail(Upcoming)
    BY <1>1, <1>2, <1>4, ConcatHead
<1>6. Len(Upcoming) >= 2 /\ Upcoming \in Seq(Positions)
    <2>1. Len(Unread) \in Nat \ {0}
        BY <1>1, EmptySeq
    <2> QED
        BY <2>1, UpcomingParts
<1>7. Tail(Upcoming)[1] = Upcoming[2]
    BY <1>6
<1> QED
    BY <1>5, <1>6, <1>7

LEMMA BufrHead ==
    ASSUME IInv, bufr # <<>>
    PROVE  /\ Unread # <<>> /\ Upcoming[1] = Head(bufr)
           /\ Tail(bufr) \o byte \o bgByte \o sock = Tail(Unread)
<1>1. bufr \in Seq(Bytes) /\ byte \in Seq(Bytes) /\ bgByte \in Seq(Bytes) /\ sock \in Seq(Bytes)
    BY StreamParts
<1>2. /\ bufr \o byte \in Seq(Bytes) /\ bufr \o byte # <<>>
      /\ Head(bufr \o byte) = Head(bufr) /\ Tail(bufr \o byte) = Tail(bufr) \o byte
    BY <1>1, ConcatHead, ConcatProperties
<1> DEFINE b == bufr \o byte
<1> HIDE DEF b
<1>3. /\ b \o bgByte \in Seq(Bytes) /\ b \o bgByte # <<>>
      /\ Head(b \o bgByte) = Head(b) /\ Tail(b \o bgByte) = Tail(b) \o bgByte
    BY <1>1, <1>2, ConcatHead, ConcatProperties DEF b
<1> DEFINE c == b \o bgByte
<1> HIDE DEF c
<1>4. /\ c \o sock # <<>>
      /\ Head(c \o sock) = Head(c) /\ Tail(c \o sock) = Tail(c) \o sock
    BY <1>1, <1>3, ConcatHead DEF c
<1>5. Unread = c \o sock
    BY DEF Unread, b, c
<1>6. Unread # <<>> /\ Head(Unread) = Head(bufr) /\ Tail(Unread) = Tail(c) \o sock
    BY <1>2, <1>3, <1>4, <1>5 DEF b, c
<1>7. Tail(c) = Tail(bufr) \o byte \o bgByte
    BY <1>2, <1>3 DEF b, c
<1> QED
    BY <1>6, <1>7, UpcomingParts

LEMMA TakenKeeps ==
    ASSUME SInv, Unread # <<>>, Unread' = Tail(Unread), UNCHANGED <<script, creq, cpos>>
    PROVE  ClientInv' /\ OrderInv' /\ Upcoming'[1] = Following(Upcoming[1])
<1> USE DEF SInv
<1>1. Upcoming' = Tail(Upcoming) /\ Upcoming'[1] = Upcoming[2] /\ Len(Upcoming) >= 2
    BY UpcomingTail
<1>2. Upcoming \in Seq(Positions) /\ Upcoming # <<>> /\ Len(Upcoming) \in Nat
    BY UpcomingParts
<1>3. Ordered(Tail(Upcoming))
    BY <1>2, OrderedTail DEF OrderInv
<1>4. Ordered(Upcoming)' <=> Ordered(Upcoming')
    BY DEF Ordered, Following, Before, Total
<1>5. OrderInv'
    BY <1>1, <1>3, <1>4 DEF OrderInv
<1>6. Upcoming[2] = Following(Upcoming[1])
    <2>1. 1 \in 1..(Len(Upcoming) - 1)
        BY <1>1, <1>2
    <2>2. \A k \in 1..(Len(Upcoming) - 1) : Upcoming[k + 1] = Following(Upcoming[k])
        BY DEF OrderInv, Ordered
    <2>3. Upcoming[1 + 1] = Following(Upcoming[1])
        BY <2>1, <2>2
    <2> QED
        BY <2>3
<1> QED
    BY <1>1, <1>5, <1>6 DEF ClientInv, Total

\* A header is read only where one begins.
LEMMA ReadRequestHead ==
    ASSUME SInv, ReadRequest
    PROVE  /\ Head(bufr) = <<cur + 1, 0>> /\ cur + 1 \in 1..MaxRequests
           /\ Unread # <<>> /\ Upcoming[1] = <<cur + 1, 0>> /\ Unread' = Tail(Unread)
<1> USE DEF SInv
<1>1. pc = "read" /\ bufr # <<>> /\ bufr' = Tail(bufr) /\ UNCHANGED <<byte, bgByte, sock>>
    BY DEF ReadRequest, rwcVars, crVars, bgVars
<1>2. Unread # <<>> /\ Upcoming[1] = Head(bufr) /\ Unread' = Tail(Unread)
    BY <1>1, BufrHead DEF Unread
<1>3. cur = 0 \/ (sawEOF /\ reply # "close")
    BY <1>1 DEF ReplyInv
<1>4. cur \in Nat
    BY StreamParts
<1>5. cur > 0 => Position = Total(cur)
    BY <1>2, <1>3 DEF EofInv
<1>6. cur > 0 => Total(cur) \in Nat
    BY <1>4, StreamParts, TotalType
<1>7. Upcoming[1] = <<cur + 1, 0>>
    BY <1>1, <1>4, <1>5, <1>6 DEF PlaceInv
<1>8. Head(bufr)[1] \in 1..MaxRequests
    BY <1>1, HeadFact DEF IInv
<1> QED
    BY <1>2, <1>7, <1>8

LEMMA ReadRequestKeeps ==
    ASSUME SInv, ReadRequest, IInv'
    PROVE  /\ SInv' /\ pc' = "dispatch" /\ cur' = cur + 1 /\ Position' = 1
           /\ UNCHANGED <<script, peer>>
<1> USE DEF SInv
<1> DEFINE r == cur + 1
<1>1. /\ Head(bufr) = <<r, 0>> /\ r \in 1..MaxRequests
      /\ Unread # <<>> /\ Upcoming[1] = <<r, 0>> /\ Unread' = Tail(Unread)
    BY ReadRequestHead
<1>2. /\ cur' = r /\ left' = script[r].len /\ sawEOF' = ~HasBody(r)
      /\ trailer' = FALSE /\ pc' = "dispatch" /\ wroteHeader' = FALSE /\ reply' = "none"
      /\ UNCHANGED <<script, creq, cpos, peer, byte, bg>>
    BY <1>1 DEF ReadRequest, clientVars, rwcVars, crVars, bgVars
<1>3. /\ script[r].len \in Nat /\ script[r].chunked \in BOOLEAN
      /\ Total(r) = IF script[r].chunked THEN script[r].len + 3 ELSE script[r].len + 1
      /\ Total(r) \in Nat \ {0} /\ r \in Nat \ {0}
    <2>1. r \in Nat \ {0}
        BY StreamParts
    <2> QED
        BY <1>1, <2>1, TotalType
<1> HIDE DEF r
<1>4. ClientInv' /\ OrderInv' /\ Upcoming'[1] = Following(<<r, 0>>)
    BY <1>1, <1>2, TakenKeeps
<1>12. /\ script[r].chunked => HasBody(r)
       /\ ~script[r].chunked => HasBody(r) = (script[r].len > 0)
    BY <1>3 DEF HasBody
<1>13. /\ script'[cur'].chunked = script[r].chunked /\ script'[cur'].len = script[r].len
       /\ cur' > 0
    BY <1>2, <1>3
<1>5. Position' = 1
    <2>1. CASE script[r].chunked
        <3>1. ~sawEOF' /\ ~trailer'
            BY <1>2, <1>12, <2>1
        <3>2. script'[cur'].chunked
            BY <1>2, <2>1
        <3>3. script'[cur'].len - left' = 0
            BY <1>2, <1>3, <1>13
        <3> QED
            BY <1>13, <3>1, <3>2, <3>3 DEF Position
    <2>2. CASE ~script[r].chunked
        <3>1. ~script'[cur'].chunked /\ script'[cur'].len - left' = 0
            BY <1>2, <1>3, <1>13, <2>2
        <3> QED
            BY <1>13, <3>1 DEF Position
    <2> QED
        BY <2>1, <2>2
<1>6. Total(cur)' = Total(r) /\ HasBody(cur)' = HasBody(r)
    BY <1>2 DEF Total, HasBody
<1>7. ByteInv' /\ ReplyInv'
    BY <1>2 DEF ByteInv, ReplyInv
<1>8. BodyInv'
    <2>1. left' \in 0..script'[cur'].len
        BY <1>2, <1>3, <1>13
    <2>2. script[r].chunked => ~sawEOF' /\ ~trailer'
        BY <1>2, <1>12
    <2>3. ~script[r].chunked => ~trailer' /\ (~sawEOF' => left' > 0)
        BY <1>2, <1>12
    <2> QED
        BY <1>2, <1>13, <2>1, <2>2, <2>3 DEF BodyInv
<1>9. EofInv'
    <2>3. sawEOF' => ~HasBody(r)
        BY <1>2
    <2>2. ~HasBody(r) => ~script[r].chunked /\ ~(script[r].len > 0)
        BY <1>12
    <2>1. sawEOF' => Total(r) = 1
        BY <1>3, <2>2, <2>3
    <2> QED
        BY <1>5, <1>6, <2>1 DEF EofInv
<1>10. PlaceInv'
    <2>1. CASE Total(r) = 1
        <3>1. Upcoming'[1] = <<r + 1, 0>>
            BY <1>4, <2>1 DEF Following
        <3> QED
            BY <1>2, <1>5, <1>6, <2>1, <3>1 DEF PlaceInv
    <2>2. CASE Total(r) > 1
        <3>1. Upcoming'[1] = <<r, 1>>
            BY <1>3, <1>4, <2>2 DEF Following
        <3> QED
            BY <1>2, <1>3, <1>5, <1>6, <2>2, <3>1 DEF PlaceInv
    <2> QED
        BY <1>3, <2>1, <2>2
<1>11. AheadInv'
    <2> DEFINE n == Len(Upcoming)
               m == Len(Unread)
    <2>1. /\ m \in Nat \ {0} /\ n = m + 1 /\ Upcoming[n] = <<creq, cpos>>
        <3>1. Unread \in Seq(Positions)
            BY StreamParts
        <3>2. Len(Unread) \in Nat \ {0}
            BY <1>1, <3>1, EmptySeq
        <3> QED
            BY <3>2, UpcomingParts
    <2>2. \A j \in 1..n : \A k \in 1..(j - 1) : Before(Upcoming[k], Upcoming[j])
        BY DEF OrderInv, Ordered
    <2>9. n \in 1..n /\ 1 \in 1..(n - 1) /\ n \in Nat
        BY <2>1
    <2>3. Before(<<r, 0>>, <<creq, cpos>>)
        <3>1. Before(Upcoming[1], Upcoming[n])
            BY <2>2, <2>9
        <3> QED
            BY <1>1, <2>1, <3>1
    <2>4. creq \in Nat /\ cpos \in Nat
        BY StreamParts
    <2>5. r <= creq /\ (r = creq => cpos >= 1)
        BY <1>3, <2>3, <2>4 DEF Before
    <2>6. ASSUME r = creq, cpos = 1 PROVE m = 1
        <3>1. Upcoming[2] = Following(<<r, 0>>)
            BY <1>1, <1>2, <1>4, UpcomingTail
        <3>2. m > 1 => 2 \in 1..(n - 1)
            BY <2>1
        <3>3. m > 1 => Before(Following(<<r, 0>>), Upcoming[n])
            BY <2>2, <2>9, <3>1, <3>2
        <3>4. ~Before(Following(<<r, 0>>), <<r, 1>>)
            BY <1>3 DEF Following, Before
        <3>5. Upcoming[n] = <<r, 1>>
            BY <2>1, <2>6
        <3> HIDE DEF m, n
        <3>6. ~(m > 1)
            BY <3>3, <3>4, <3>5
        <3> QED
            BY <2>1, <3>6
    <2>7. m = 1 => Unread' = <<>>
        <3>1. Unread \in Seq(Positions)
            BY StreamParts
        <3>2. m = 1 => Len(Tail(Unread)) = 0 /\ Tail(Unread) \in Seq(Positions)
            BY <1>1, <3>1
        <3> QED
            BY <1>1, <3>2, EmptySeq
    <2>8. r = creq /\ cpos = 1 => Unread' = <<>>
        BY <2>6, <2>7
    <2> QED
        BY <1>2, <2>5, <2>8 DEF AheadInv
<1> QED
    BY <1>2, <1>4, <1>5, <1>7, <1>8, <1>9, <1>10, <1>11 DEF r

LEMMA HijackReadKeeps ==
    ASSUME SInv, HijackRead, IInv'
    PROVE  SInv' /\ Unread # <<>> /\ Unread' = Tail(Unread)
<1> USE DEF SInv
<1>1. /\ pc = "hijacked" /\ bufr \o sock # <<>>
      /\ UNCHANGED <<script, creq, cpos, peer, byte, bg, bgByte, pc, cur, left, sawEOF, trailer,
                     wroteHeader, closeAfterReply, reply>>
    BY DEF HijackRead, clientVars, crVars, bgVars, requestVars, bodyVars, respVars
<1>2. /\ bufr \in Seq(Bytes) /\ byte = <<>> /\ bgByte = <<>> /\ sock \in Seq(Bytes)
    BY <1>1, StreamParts DEF IInv, HijackComplete
<1>3. Unread # <<>> /\ Unread' = Tail(Unread)
    <2>1. CASE bufr # <<>>
        BY <1>1, <2>1, BufrHead DEF HijackRead, Unread
    <2>2. CASE bufr = <<>>
        <3>1. Unread = sock /\ Unread' = sock'
            BY <1>1, <1>2, <2>2, ConcatEmptySeq DEF Unread, HijackRead
        <3>2. bufr \o sock = sock
            BY <1>2, <2>2, ConcatEmptySeq
        <3> QED
            BY <1>1, <2>2, <3>1, <3>2 DEF HijackRead
    <2> QED
        BY <2>1, <2>2
<1>4. ClientInv' /\ OrderInv'
    BY <1>1, <1>3, TakenKeeps
<1>5. Position' = Position /\ Total(cur)' = Total(cur)
    BY <1>1 DEF Position, Total
<1>6. ByteInv' /\ ReplyInv' /\ BodyInv' /\ PlaceInv'
    BY <1>1 DEF ByteInv, ReplyInv, BodyInv, HasBody, PlaceInv
<1>7. AheadInv' /\ EofInv'
    BY <1>1, <1>3, <1>5 DEF AheadInv, EofInv
<1> QED
    BY <1>3, <1>4, <1>6, <1>7

\* What is read of a body is the byte of it that comes next.
LEMMA ReadBodyHead ==
    ASSUME SInv, ReadBody
    PROVE  /\ cur \in 1..MaxRequests /\ HasBody(cur) /\ ~sawEOF
           /\ Head(bufr) = <<cur, Position>> /\ Position < Total(cur)
           /\ Unread # <<>> /\ Upcoming[1] = <<cur, Position>> /\ Unread' = Tail(Unread)
<1> USE DEF SInv
<1>1. /\ pc \in {"bodyRead", "discard", "closeBody"} /\ bufr # <<>>
      /\ bufr' = Tail(bufr) /\ UNCHANGED <<byte, bgByte, sock>>
    BY DEF ReadBody
<1>2. Unread # <<>> /\ Upcoming[1] = Head(bufr) /\ Unread' = Tail(Unread)
    BY <1>1, BufrHead DEF Unread
<1>3. cur \in 1..MaxRequests
    BY <1>1, StreamParts DEF IInv, EndInv
<1>4. HasBody(cur) /\ ~sawEOF
    BY <1>1, <1>3 DEF BodyInv
<1>5. Position # Total(cur)
    <2>1. script[cur].len \in Nat /\ left \in 0..script[cur].len
        BY <1>3, TotalType DEF BodyInv
    <2>2. CASE script[cur].chunked
        <3>1. Position <= script[cur].len + 2
            BY <1>3, <1>4, <2>1, <2>2 DEF Position
        <3>2. Total(cur) = script[cur].len + 3
            BY <1>3, <2>2, TotalType
        <3> QED
            BY <2>1, <3>1, <3>2
    <2>3. CASE ~script[cur].chunked
        <3>1. left > 0
            BY <1>3, <1>4, <2>3 DEF BodyInv
        <3>2. Position = 1 + (script[cur].len - left)
            BY <1>3, <2>1, <2>3 DEF Position
        <3>3. Total(cur) = script[cur].len + 1
            BY <1>3, <2>3, TotalType
        <3> QED
            BY <2>1, <3>1, <3>2, <3>3
    <2> QED
        BY <2>2, <2>3
<1>6. Upcoming[1] = <<cur, Position>> /\ Position < Total(cur)
    BY <1>1, <1>2, <1>3, <1>5 DEF PlaceInv, Skipped
<1> QED
    BY <1>2, <1>3, <1>4, <1>6

\* It is a byte of the data, the last chunk or the trailer.
LEMMA ReadBodyCases ==
    ASSUME SInv, ReadBody
    PROVE  \/ /\ left > 0 /\ left' = left - 1 /\ ~trailer /\ ~trailer'
              /\ (sawEOF' <=> ~script[cur].chunked /\ left = 1)
           \/ /\ script[cur].chunked /\ ~trailer /\ left = 0
              /\ left' = left /\ trailer' /\ ~sawEOF'
           \/ /\ script[cur].chunked /\ trailer /\ left = 0
              /\ left' = left /\ ~trailer' /\ sawEOF'
<1> USE DEF SInv
<1> DEFINE b == Head(bufr)
           len == script[cur].len
<1>1. /\ cur \in 1..MaxRequests /\ ~sawEOF /\ b = <<cur, Position>>
    BY ReadBodyHead
<1>2. len \in Nat /\ left \in 0..len /\ script[cur].chunked \in BOOLEAN /\ trailer \in BOOLEAN
    BY <1>1, TotalType DEF BodyInv, IInv, TypeOK, RequestType
<1> HIDE DEF len
<1>3. CASE ~script[cur].chunked
    <2>1. ~trailer /\ left > 0
        BY <1>1, <1>3 DEF BodyInv
    <2>2. left' = left - 1 /\ ~trailer'
        BY <1>3 DEF ReadBody
    <2>3. sawEOF' = (left = 1)
        BY <1>1, <1>3 DEF ReadBody
    <2> QED
        BY <1>3, <2>1, <2>2, <2>3
<1>4. CASE script[cur].chunked /\ trailer
    <2>1. left = 0
        BY <1>1, <1>4 DEF BodyInv
    <2>2. left' = left /\ ~trailer' /\ sawEOF'
        BY <1>4 DEF ReadBody
    <2> QED
        BY <1>4, <2>1, <2>2
<1>5. CASE script[cur].chunked /\ ~trailer
    <2>1. Position = 1 + (len - left)
        BY <1>1, <1>2, <1>5 DEF Position, len
    <2>2. b[1] = cur /\ b[2] = 1 + (len - left)
        BY <1>1, <2>1
    <2>3. IsData(b) <=> left > 0
        BY <1>2, <2>2 DEF IsData, len
    <2>4. IsLastChunk(b) <=> left = 0
        BY <1>2, <1>5, <2>2 DEF IsLastChunk, len
    <2>5. CASE left > 0
        <3>1. ~IsLastChunk(b) /\ IsData(b)
            BY <2>3, <2>4, <2>5
        <3>2. left' = left - 1 /\ ~trailer'
            BY <1>5, <3>1 DEF ReadBody
        <3>3. ~sawEOF'
            BY <1>1, <1>5 DEF ReadBody
        <3> QED
            BY <1>5, <2>5, <3>2, <3>3
    <2>6. CASE left = 0
        <3>1. IsLastChunk(b) /\ ~IsData(b)
            BY <2>3, <2>4, <2>6
        <3>2. left' = left /\ trailer'
            BY <1>5, <3>1 DEF ReadBody
        <3>3. ~sawEOF'
            BY <1>1, <1>5 DEF ReadBody
        <3> QED
            BY <1>5, <2>6, <3>2, <3>3
    <2> QED
        BY <1>2, <2>5, <2>6
<1> QED
    BY <1>2, <1>3, <1>4, <1>5

LEMMA ReadBodyPc ==
    ASSUME SInv, ReadBody, IInv'
    PROVE  /\ pc' \notin {"idle", "peek", "read", "hijack", "hijacked", "hijackFailed",
                          "close", "closed"}
           /\ pc' \in {"bodyRead", "discard", "closeBody"} => ~sawEOF'
           /\ pc = "discard" /\ pc' # "discard" => closeAfterReply' \/ sawEOF'
           /\ pc # "discard" => pc' # "discard"
<1> USE DEF SInv
<1>1. /\ pc \in {"bodyRead", "discard", "closeBody"}
      /\ pc = "closeBody" => ret \in {"handler", "reuse"}
      /\ ~sawEOF
    BY ReadBodyHead DEF ReadBody, IInv, ReturnInv
<1>2. ~inRead
    <2>1. ~filling
        BY DEF ReadBody, IInv, ReaderInv
    <2>2. bg = "off"
        BY <1>1 DEF IInv, BackgroundInv
    <2> QED
        BY <2>1, <2>2 DEF IInv, ReaderInv
<1> DEFINE bb      == Head(bufr)
           isEnd   == script[cur].chunked /\ trailer
           isLast  == script[cur].chunked /\ ~trailer /\ IsLastChunk(bb)
           isData  == ~script[cur].chunked \/ (~trailer /\ IsData(bb))
           isBad   == ~isEnd /\ ~isLast /\ ~isData
           eof     == isEnd \/ (~script[cur].chunked /\ left = 1)
           tooBig  == pc = "discard" /\ isData /\ copied = maxPostHandlerReadBytes
           early   == pc = "closeBody" /\ isData /\ copied + 1 = maxPostHandlerReadBytes
           done    == eof \/ isBad \/ tooBig \/ early \/ (pc = "bodyRead" /\ isData)
           next    == IF ~done THEN pc ELSE IF pc = "bodyRead" THEN "handler"
                      ELSE IF pc = "discard" THEN "flush" ELSE ret
<1>3. /\ pc' = next
      /\ sawEOF' <=> eof
      /\ closeAfterReply' <=> closeAfterReply \/ tooBig \/ (pc = "discard" /\ isBad)
    <2>1. IF eof THEN startBackgroundRead(next) ELSE pc' = next
        BY DEF ReadBody
    <2>2. pc' = next
        BY <1>2, <2>1 DEF startBackgroundRead
    <2>3. sawEOF' <=> eof
        BY <1>1 DEF ReadBody
    <2>4. closeAfterReply' <=> closeAfterReply \/ tooBig \/ (pc = "discard" /\ isBad)
        BY DEF ReadBody
    <2> QED
        BY <2>2, <2>3, <2>4
<1> HIDE DEF isEnd, isLast, isData, isBad, eof
<1>4. eof => done
    OBVIOUS
<1>5. pc = "discard" /\ done => eof \/ tooBig \/ (pc = "discard" /\ isBad)
    OBVIOUS
<1> HIDE DEF done
<1>6. pc' = pc \/ pc' \in {"handler", "flush", "reuse"}
    BY <1>1, <1>3
<1>7. done => pc' \in {"handler", "flush", "reuse"}
    BY <1>1, <1>3
<1>8. ~done => pc' = pc
    BY <1>3
<1>9. pc' \in {"bodyRead", "discard", "closeBody"} => ~sawEOF'
    BY <1>3, <1>4, <1>7
<1>10. pc = "discard" /\ pc' # "discard" => closeAfterReply' \/ sawEOF'
    BY <1>3, <1>5, <1>8
<1> QED
    BY <1>1, <1>6, <1>9, <1>10

LEMMA ReadBodyKeeps ==
    ASSUME SInv, ReadBody, IInv'
    PROVE  SInv' /\ Position' = Position + 1 /\ UNCHANGED <<script, peer, cur>>
<1> USE DEF SInv
<1>1. /\ cur \in 1..MaxRequests /\ HasBody(cur) /\ ~sawEOF
      /\ Position < Total(cur)
      /\ Unread # <<>> /\ Upcoming[1] = <<cur, Position>> /\ Unread' = Tail(Unread)
    BY ReadBodyHead
<1>2. UNCHANGED <<script, creq, cpos, peer, cur, byte, wroteHeader, reply>>
    BY DEF ReadBody, clientVars
<1> DEFINE len == script[cur].len
<1>3. /\ len \in Nat /\ left \in 0..len /\ script[cur].chunked \in BOOLEAN
      /\ Total(cur) = IF script[cur].chunked THEN len + 3 ELSE len + 1
      /\ cur > 0
    BY <1>1, TotalType DEF BodyInv
<1>4. Position = 1 + (len - left)
                 + (IF ~script[cur].chunked THEN 0 ELSE IF trailer THEN 1 ELSE 0)
    BY <1>1, <1>3 DEF Position
<1>5. Position' = 1 + (len - left')
                  + (IF ~script[cur].chunked THEN 0
                     ELSE IF sawEOF' THEN 2 ELSE IF trailer' THEN 1 ELSE 0)
    BY <1>2, <1>3 DEF Position
<1>6. Total(cur)' = Total(cur) /\ HasBody(cur)' = HasBody(cur)
    BY <1>2 DEF Total, HasBody
<1> HIDE DEF len
<1>7. ~script[cur].chunked => ~trailer /\ left > 0
    BY <1>1, <1>3 DEF BodyInv
<1>8. Position' = Position + 1
    <2>1. CASE script[cur].chunked
        BY <1>3, <1>4, <1>5, <2>1, ReadBodyCases
    <2>2. CASE ~script[cur].chunked
        BY <1>3, <1>4, <1>5, <2>2, ReadBodyCases
    <2> QED
        BY <2>1, <2>2
<1>9. BodyInv'
    <2>1. left' \in 0..len
        BY <1>3, ReadBodyCases
    <2>2. script[cur].chunked /\ (sawEOF' \/ trailer') => left' = 0
        BY <1>3, ReadBodyCases
    <2>3. ~script[cur].chunked => ~trailer' /\ (~sawEOF' => left' > 0)
        BY <1>3, ReadBodyCases
    <2>4. pc' \in {"bodyRead", "discard", "closeBody"} => HasBody(cur) /\ ~sawEOF'
        BY <1>1, ReadBodyPc
    <2> QED
        BY <1>2, <1>6, <2>1, <2>2, <2>3, <2>4 DEF BodyInv, len
<1>10. EofInv'
    <2>1. sawEOF' => left' = 0
        BY <1>3, <1>7, ReadBodyCases
    <2>2. sawEOF' => Position' = Total(cur)
        BY <1>3, <1>5, <2>1
    <2> QED
        BY <1>6, <2>2 DEF EofInv
<1>11. ClientInv' /\ OrderInv' /\ Upcoming'[1] = Following(<<cur, Position>>)
    BY <1>1, <1>2, TakenKeeps
<1>12. ByteInv'
    BY DEF ByteInv, ReadBody, startBackgroundRead
<1>13. AheadInv'
    BY <1>1, <1>2 DEF AheadInv
<1>14. ReplyInv'
    <2>1. closeAfterReply => closeAfterReply'
        BY DEF ReadBody
    <2>3. /\ pc' \notin {"idle", "peek", "read"}
          /\ pc = "discard" /\ pc' # "discard" => closeAfterReply' \/ sawEOF'
          /\ pc # "discard" => pc' # "discard"
        BY ReadBodyPc
    <2> QED
        BY <1>1, <1>2, <2>1, <2>3 DEF ReplyInv
<1>15. PlaceInv'
    <2>1. CASE Position + 1 = Total(cur)
        <3>1. Upcoming'[1] = <<cur + 1, 0>>
            BY <1>11, <2>1 DEF Following
        <3> QED
            BY <1>2, <1>6, <1>8, <2>1, <3>1 DEF PlaceInv
    <2>2. CASE Position + 1 # Total(cur)
        <3>1. Upcoming'[1] = <<cur, Position + 1>>
            BY <1>11, <2>2 DEF Following
        <3>2. Position + 1 < Total(cur)
            BY <1>1, <1>3, <1>4, <2>2
        <3> QED
            BY <1>2, <1>3, <1>6, <1>8, <3>1, <3>2 DEF PlaceInv
    <2> QED
        BY <2>1, <2>2
<1> QED
    BY <1>2, <1>8, <1>9, <1>10, <1>11, <1>12, <1>13, <1>14, <1>15

-----------------------------------------------------------------------------
(* The invariant.                                                          *)

LEMMA InitSInv == Init => SInv
<1> SUFFICES ASSUME Init PROVE SInv
    OBVIOUS
<1>1. IInv
    BY InitInv
<1>2. /\ creq = 1 /\ cpos = 0 /\ cur = 0 /\ bg = "off" /\ byte = <<>> /\ bgByte = <<>>
      /\ bufr = <<>> /\ sock = <<>> /\ wroteHeader = FALSE /\ reply = "none"
    BY DEF Init
<1>3. Unread = <<>>
    BY <1>2 DEF Unread
<1>4. Upcoming = <<<<1, 0>>>>
    BY <1>2, <1>3 DEF Upcoming
<1>5. 1 \in 1..MaxRequests
    BY RequestsAssumption
<1>6. ByteInv /\ AheadInv /\ BodyInv /\ EofInv /\ ReplyInv
    BY <1>2 DEF ByteInv, AheadInv, BodyInv, EofInv, ReplyInv
<1>7. ClientInv
    BY <1>1, <1>2, <1>5, TotalType DEF ClientInv
<1>8. OrderInv
    BY <1>4 DEF OrderInv, Ordered
<1>9. PlaceInv
    BY <1>2, <1>4 DEF PlaceInv
<1> QED
    BY <1>1, <1>6, <1>7, <1>8, <1>9 DEF SInv

LEMMA StepSInv ==
    ASSUME SInv, [Next]_vars
    PROVE  SInv'
<1>1. IInv'
    BY StepInv DEF SInv
<1> QED
    BY <1>1, StepCases, QuietKeeps, ClientSendKeeps, ClientSkipBodyKeeps, ReadRequestKeeps,
       ReadBodyKeeps, HijackReadKeeps

-----------------------------------------------------------------------------
(* The steps of RequestStream.                                             *)

\* Where a quiet step leaves the connection.
LEMMA QuietStage ==
    ASSUME SInv, Quiet
    PROVE  \/ Stage' = Stage
           \/ peer' = peer /\ Stage = "busy" /\ Stage' = "hijacked"
           \/ peer' = peer /\ Stage \in {"idle", "busy"} /\ Stage' = "closed"
           \/ peer' = peer /\ pc = "reuse" /\ pc' = "idle" /\ ~closeAfterReply
<1> USE DEF clientVars
<1>1. pc' = pc => Stage' = Stage
    BY DEF Stage
<1>2. CASE ClientClose \/ BackgroundRead \/ BackgroundDone \/ Broadcast \/ ReadData
           \/ UNCHANGED vars
    BY <1>1, <1>2 DEF ClientClose, BackgroundRead, BackgroundDone, Broadcast, ReadData, vars
<1>3. CASE HandlerReadBody \/ HandlerCloseBody
    <2>1. pc = "handler" /\ pc' \in {"handler", "bodyRead", "closeBody"}
        BY <1>3 DEF HandlerReadBody, HandlerCloseBody, closeBody
    <2> QED
        BY <2>1 DEF Stage
<1>4. CASE HandlerFlush \/ HandlerReturn \/ HandlerHijack \/ HandlerPanic
    <2>1. pc = "handler" /\ pc' \in {"header", "abort", "close"} /\ peer' = peer
        BY <1>4 DEF HandlerFlush, HandlerReturn, HandlerHijack, HandlerPanic
    <2> QED
        BY <2>1 DEF Stage
<1>5. CASE Read
    <2>1. pc' = pc
        BY <1>5 DEF Read, Reading, SInv, IInv, ReaderInv, BackgroundInv
    <2> QED
        BY <1>1, <2>1
<1>6. CASE ReadError
    <2>1. /\ pc \in Reading /\ (pc = "closeBody" => ret \in {"handler", "reuse"})
          /\ peer' = peer
          /\ pc' = IF pc \in {"read", "peek"} THEN "close"
                   ELSE IF pc = "bodyRead" THEN "handler"
                   ELSE IF pc = "discard" THEN "flush" ELSE ret
        BY <1>6 DEF ReadError, SInv, IInv, ReaderInv, ReturnInv
    <2> QED
        BY <2>1 DEF Stage, Reading
<1>7. CASE Dispatch
    <2>1. pc = "dispatch" /\ pc' \in {"handler", "close"} /\ peer' = peer
        BY <1>7 DEF Dispatch, startBackgroundRead
    <2> QED
        BY <2>1 DEF Stage
<1>8. CASE shouldReuseConnection
    BY <1>8 DEF shouldReuseConnection, Stage
<1>9. CASE Idle \/ Peek
    <2>1. /\ pc \in {"idle", "peek"} /\ pc' \in {"close", "peek", "read"} /\ peer' = peer
        BY <1>9 DEF Idle, Peek
    <2> QED
        BY <2>1 DEF Stage
<1>10. CASE Close \/ hijackLocked
    <2>1. \/ pc = "close" /\ pc' = "closed"
          \/ pc = "hijack" /\ pc' \in {"hijacked", "hijackFailed"}
        BY <1>10 DEF Close, hijackLocked
    <2> QED
        BY <2>1 DEF Stage
<1>11. CASE writeHeader \/ finishRequest
    <2>1. pc \in {"header", "closeReq"} /\ pc' \in {"discard", "flush", "reuse", "closeBody"}
        BY <1>11 DEF writeHeader, finishRequest, closeBody
    <2> QED
        BY <2>1 DEF Stage
<1>12. CASE Flush
    <2>1. pc = "flush" /\ pc' \in {"handler", "abort"}
        BY <1>12 DEF Flush, SInv, IInv, ReturnInv
    <2> QED
        BY <2>1 DEF Stage
<1>13. CASE abortPendingRead \/ AbortWake
    <2>1. pc \in {"abort", "wait"} /\ pc' \in {pc, "wait", "hijack", "closeReq"} /\ peer' = peer
        BY <1>13 DEF abortPendingRead, AbortWake, AfterAbort
    <2> QED
        BY <2>1 DEF Stage
<1> QED
    BY <1>2, <1>3, <1>4, <1>5, <1>6, <1>7, <1>8, <1>9, <1>10, <1>11, <1>12, <1>13 DEF Quiet

LEMMA QuietStep ==
    ASSUME SInv, Quiet
    PROVE  [Stream!Next]_(Stream!vars)
<1>1. /\ UNCHANGED <<script, cur>> /\ (peer' = peer \/ peer' = "closed")
    BY QuietFrame DEF SInv
<1>2. Unread' = Unread /\ Position' = Position
    BY QuietUnread, QuietPosition DEF SInv
<1>3. [r \in 1..MaxRequests |-> Total(r)]' = [r \in 1..MaxRequests |-> Total(r)]
    BY <1>1 DEF Total
<1>4. CASE Stage' = Stage
    BY <1>1, <1>2, <1>3, <1>4 DEF Stream!Next, Stream!HangUp, Stream!vars, Unread
<1>5. CASE peer' = peer /\ Stage = "busy" /\ Stage' = "hijacked"
    BY <1>1, <1>2, <1>3, <1>5 DEF Stream!Next, Stream!Hijack, Unread
<1>6. CASE peer' = peer /\ Stage \in {"idle", "busy"} /\ Stage' = "closed"
    BY <1>1, <1>2, <1>3, <1>6 DEF Stream!Next, Stream!Close, Unread
<1>7. CASE peer' = peer /\ pc = "reuse" /\ pc' = "idle" /\ ~closeAfterReply
    <2>1. cur \in 1..MaxRequests
        BY <1>7, StreamParts DEF SInv, IInv, EndInv
    <2>2. sawEOF
        BY <1>7 DEF SInv, IInv, EndInv, Ending, ReplyInv
    <2>3. Position = Total(cur) \/ (peer = "closed" /\ Unread = <<>>)
        BY <2>1, <2>2 DEF SInv, EofInv
    <2>4. [r \in 1..MaxRequests |-> Total(r)][cur] = Total(cur)
        BY <2>1
    <2>5. Stage = "busy" /\ Stage' = "idle"
        BY <1>7 DEF Stage
    <2> QED
        BY <1>1, <1>2, <1>3, <1>7, <2>3, <2>4, <2>5 DEF Stream!Next, Stream!Finish, Unread
<1> QED
    BY <1>4, <1>5, <1>6, <1>7, QuietStage

LEMMA ClientStep ==
    ASSUME SInv, ClientSend \/ ClientSkipBody
    PROVE  [Stream!Next]_(Stream!vars)
<1> DEFINE lens == [r \in 1..MaxRequests |-> Total(r)]
<1>1. UNCHANGED <<script, peer, byte, bgByte, pc, bufr, cur, left, sawEOF, trailer>>
    BY DEF ClientSend, ClientSkipBody, rwcVars, crVars, bgVars, requestVars, bodyVars
<1>2. lens' = lens /\ Stage' = Stage /\ Position' = Position
    BY <1>1 DEF Total, Stage, Position
<1>3. CASE ClientSend
    <2>1. /\ peer = "open" /\ creq \in 1..MaxRequests /\ cpos \in Nat
          /\ sock' = Append(sock, <<creq, cpos>>)
        BY <1>3, StreamParts DEF SInv, ClientSend
    <2>2. cpos \in 0..(lens[creq] - 1)
        <3>1. Total(creq) \in Nat /\ cpos < Total(creq)
            BY <2>1, TotalType, RequestsAssumption DEF SInv, ClientInv
        <3> QED
            BY <2>1, <3>1
    <2> DEFINE e == <<creq, cpos>>
    <2>3. (bufr \o byte \o bgByte) \o Append(sock, e) = Append((bufr \o byte \o bgByte) \o sock, e)
        <3>1. bufr \in Seq(Bytes) /\ byte \in Seq(Bytes) /\ bgByte \in Seq(Bytes) /\ sock \in Seq(Bytes)
            BY StreamParts DEF SInv
        <3>2. e \in Bytes
            BY <2>1 DEF Bytes
        <3>3. bufr \o byte \o bgByte \in Seq(Bytes)
            BY <3>1, ConcatProperties
        <3> HIDE DEF e
        <3> QED
            BY <3>1, <3>2, <3>3, ConcatAppend
    <2>4. (bufr \o byte \o bgByte \o sock)' = Append(bufr \o byte \o bgByte \o sock, <<creq, cpos>>)
        BY <1>1, <2>1, <2>3
    <2>5. creq \in DOMAIN lens
        BY <2>1
    <2> HIDE DEF lens
    <2> QED
        BY <1>1, <1>2, <2>1, <2>2, <2>4, <2>5 DEF Stream!Next, Stream!Send, lens
<1>4. CASE ClientSkipBody
    <2>1. sock' = sock
        BY <1>4 DEF ClientSkipBody, rwcVars
    <2> QED
        BY <1>1, <1>2, <2>1 DEF Stream!vars
<1> QED
    BY <1>3, <1>4

LEMMA TakeStep ==
    ASSUME SInv, SInv', ReadRequest \/ ReadBody \/ HijackRead
    PROVE  Stream!Next
<1> DEFINE lens == [r \in 1..MaxRequests |-> Total(r)]
<1>1. UNCHANGED <<script, peer>> /\ lens' = lens
    BY DEF ReadRequest, ReadBody, HijackRead, clientVars, Total
<1> HIDE DEF lens
<1>2. CASE ReadRequest
    <2>1. /\ Unread # <<>> /\ Head(Unread) = <<cur + 1, 0>> /\ Unread' = Tail(Unread)
        BY <1>2, ReadRequestHead, UpcomingParts DEF SInv
    <2>2. pc = "read" /\ pc' = "dispatch" /\ cur' = cur + 1 /\ Position' = 1
        BY <1>2, ReadRequestKeeps DEF SInv, ReadRequest
    <2>3. Stage = "idle" /\ Stage' = "busy"
        BY <2>2 DEF Stage
    <2>4. cur + 1 > cur
        BY StreamParts DEF SInv
    <2> QED
        BY <1>1, <2>1, <2>2, <2>3, <2>4 DEF Stream!Next, Stream!Begin, Unread, lens
<1>3. CASE ReadBody
    <2>1. /\ Unread # <<>> /\ Head(Unread) = <<cur, Position>> /\ Unread' = Tail(Unread)
        BY <1>3, ReadBodyHead, UpcomingParts DEF SInv
    <2>2. Position' = Position + 1 /\ cur' = cur
        BY <1>3, ReadBodyKeeps DEF SInv
    <2>3. Stage = "busy"
        BY <1>3 DEF ReadBody, Stage
    <2>4. Stage' = "busy"
        BY <1>3, ReadBodyPc DEF SInv, Stage
    <2> QED
        BY <1>1, <2>1, <2>2, <2>3, <2>4 DEF Stream!Next, Stream!ReadBody, Unread, lens
<1>4. CASE HijackRead
    <2>1. Unread # <<>> /\ Unread' = Tail(Unread)
        BY <1>4, HijackReadKeeps DEF SInv
    <2>2. pc = "hijacked" /\ UNCHANGED <<pc, cur, left, sawEOF, trailer>>
        BY <1>4 DEF HijackRead, requestVars, bodyVars
    <2>3. Stage = "hijacked" /\ Stage' = Stage /\ Position' = Position
        BY <1>1, <2>2 DEF Stage, Position
    <2> QED
        BY <1>1, <2>1, <2>2, <2>3 DEF Stream!Next, Stream!ReadHijacked, Unread, lens
<1> QED
    BY <1>2, <1>3, <1>4

LEMMA StreamInit == Init => Stream!Init
<1> SUFFICES ASSUME Init PROVE Stream!Init
    OBVIOUS
<1> DEFINE lens == [r \in 1..MaxRequests |-> Total(r)]
<1>1. \A r \in 1..MaxRequests : Total(r) \in Nat
    BY InitInv, TotalType
<1>2. lens \in [1..MaxRequests -> Nat]
    BY <1>1
<1>3. lens \in Seq(Nat)
    BY <1>2, RequestsAssumption, SeqDef
<1>4. bufr \o byte \o bgByte \o sock = <<>>
    BY DEF Init
<1>5. Stage = "idle" /\ Position = 0 /\ cur = 0 /\ ~(peer = "closed")
    BY DEF Init, Stage, Position
<1> QED
    BY <1>3, <1>4, <1>5 DEF Stream!Init

(* The connection implements RequestStream, whatever the requests, their   *)
(* number, the size of c.bufr and the limits: no byte of the client is     *)
(* lost, repeated or overtaken between socket, byteBuf and c.bufr, a       *)
(* header is read only where a request begins, the next request begins     *)
(* only when the body of the last has gone by or the stream has ended, and *)
(* a hijacker gets the stream from where it was.                           *)
THEOREM ServesRequestStream == Spec => Implements
<1>1. Init => SInv
    BY InitSInv
<1>2. SInv /\ [Next]_vars => SInv'
    BY StepSInv
<1>3. Init => Stream!Init
    BY StreamInit
<1>4. SInv /\ [Next]_vars => [Stream!Next]_(Stream!vars)
    BY StepSInv, StepCases, QuietStep, ClientStep, TakeStep
<1> QED
    BY <1>1, <1>2, <1>3, <1>4, PTL DEF Spec, Implements, Stream!Spec
=============================================================================
