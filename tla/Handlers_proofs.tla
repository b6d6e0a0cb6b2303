--------------------------- MODULE Handlers_proofs ---------------------------
(***************************************************************************)
(* Proofs about what stands between a connection and a handler: the        *)
(* TimeoutHandler, the Logger (whose own proofs are lifted to Handlers),   *)
(* the 100 Continue of a reply, messages on the wire, replies on the wire, *)
(* and the ServeMux.                                                       *)
(*                                                                         *)
(* A TimeoutHandler sends one reply, for every set of codes and fields and *)
(* any number of writes, with a handler that may return, panic, vanish or  *)
(* never end: tw.mu excludes the handler's calls while the reply goes out, *)
(* done is closed only by a handler that makes no more calls, and timedOut *)
(* is set before tw.mu is given back.                                      *)
(***************************************************************************)
EXTENDS Handlers, FiniteSetTheorems, SequenceTheorems, TLAPS

\* The serving goroutine sends the handler's reply, or the 503.
Sending    == serve \in {"header", "body"}
Sending503 == serve \in {"header503", "body503", "mark"}

MutexInv ==
    /\ mu = "handler" <=> handler = "locked"
    /\ mu = "serve" <=> Sending \/ Sending503

\* Only a handler that has returned has closed done, and only then is its
\* reply sent; its code is settled by then.
DoneInv ==
    /\ done <=> handler = "returned"
    /\ serve = "lockDone" \/ Sending => done
    /\ Sending => wroteHeader \/ code = StatusOK

Whole == [code |-> code, header |-> h, body |-> wbuf]

\* How far the reply is, by where the serving goroutine is.
ReplyInv ==
    /\ serve \notin {"body", "body503", "mark", "returned"} => reply = NoReply
    /\ serve = "body" => reply = [code |-> code, header |-> h, body |-> <<>>]
    /\ serve = "body503" =>
            reply = [code |-> StatusServiceUnavailable, header |-> {}, body |-> <<>>]
    /\ serve = "mark" \/ timedOut => reply = TimeoutReply
    /\ timedOut => serve = "returned"
    /\ serve = "returned" /\ ~timedOut =>
            done /\ reply = Whole /\ (wroteHeader \/ code = StatusOK)

IInv == TypeOK /\ MutexInv /\ DoneInv /\ ReplyInv

(* The replies and the absence of a call have their types.                 *)
LEMMA ReplyTypes ==
    /\ errorBody \in Seq(Nat)
    /\ NoReply \in [code : Nat, header : SUBSET Names, body : Seq(Nat)]
    /\ NoCall \in [op : {"none", "Write", "WriteHeader"}, arg : Nat]
BY DEF errorBody, NoReply, NoCall

(* Initially nothing is locked, closed or sent.                            *)
LEMMA InitHolds == Init => IInv
<1> SUFFICES ASSUME Init PROVE IInv
    OBVIOUS
<1>1. call \in [op : {"none", "Write", "WriteHeader"}, arg : Nat]
      /\ reply \in [code : Nat, header : SUBSET Names, body : Seq(Nat)]
    BY ReplyTypes DEF Init
<1>2. wbuf \in Seq(Nat) /\ h \subseteq Names
    BY DEF Init
<1>3. TypeOK
    <2>1. /\ handler \in {"running", "locked", "panicking", "returning", "returned", "ended"}
          /\ serve \in {"select", "lockDone", "header", "body", "lockTimeout", "header503",
                        "body503", "mark", "returned", "panicked"}
          /\ mu \in {"free", "handler", "serve"}
        BY DEF Init
    <2>2. /\ ctxDone \in BOOLEAN /\ done \in BOOLEAN /\ panicChan \in BOOLEAN
          /\ timedOut \in BOOLEAN /\ wroteHeader \in BOOLEAN
        BY DEF Init
    <2>3. writes \in Nat /\ code \in Nat
        BY DEF Init
    <2> QED
        BY ONLY <1>1, <1>2, <2>1, <2>2, <2>3 DEF TypeOK
<1>4. MutexInv /\ DoneInv /\ ReplyInv
    BY DEF Init, MutexInv, DoneInv, ReplyInv, Sending, Sending503
<1> QED
    BY <1>4, <1>3 DEF IInv

(* Every step of either goroutine keeps the types.                         *)
LEMMA TypeStep == TypeOK /\ [Next]_vars => TypeOK'
<1> USE CodesAssumption
<1> SUFFICES ASSUME TypeOK, [Next]_vars PROVE TypeOK'
    OBVIOUS
<1> USE DEF TypeOK
<1>1. ASSUME HandlerCalls PROVE TypeOK'
    <2>1. ASSUME NEW n \in Names, SetHeader(n) PROVE TypeOK'
        BY <2>1 DEF SetHeader, twVars
    <2>2. ASSUME CallWrite PROVE TypeOK'
        BY <2>2 DEF CallWrite, Call, twVars
    <2>3. ASSUME NEW c \in Codes, CallWriteHeader(c) PROVE TypeOK'
        BY <2>3 DEF CallWriteHeader, Call, twVars
    <2>4. ASSUME NEW how \in {"returning", "panicking", "ended"}, HandlerEnds(how)
          PROVE  TypeOK'
        BY <2>4 DEF HandlerEnds, twVars
    <2> QED
        BY <1>1, <2>1, <2>2, <2>3, <2>4 DEF HandlerCalls
<1>2. CASE Write
    <2>1. wbuf' = wbuf \/ wbuf' = Append(wbuf, call.arg)
        BY <1>2 DEF Write
    <2>2. wbuf \in Seq(Nat) /\ call.arg \in Nat
        OBVIOUS
    <2>3. wbuf' \in Seq(Nat)
        BY ONLY <2>1, <2>2
    <2>4. wroteHeader' = wroteHeader \/ wroteHeader' = TRUE
        BY <1>2 DEF Write, writeHeaderLocked
    <2>5. code' = code \/ code' = StatusOK
        BY <1>2 DEF Write, writeHeaderLocked
    <2>6. wroteHeader' \in BOOLEAN
        BY <2>4
    <2>7. code' \in Nat
        BY <2>5 DEF StatusOK
    <2> QED
        BY <1>2, <2>6, <2>3, <2>7, ReplyTypes DEF Write
<1>3. CASE WriteHeader
    <2>1. wroteHeader' = wroteHeader \/ wroteHeader' = TRUE
        BY <1>3 DEF WriteHeader, writeHeaderLocked
    <2>2. code' = code \/ code' = call.arg
        BY <1>3 DEF WriteHeader, writeHeaderLocked
    <2>3. wroteHeader' \in BOOLEAN
        BY <2>1
    <2>4. code' \in Nat
        BY <2>2
    <2>5. handler' \in {"running", "panicking"}
        BY <1>3 DEF WriteHeader
    <2> QED
        BY <1>3, <2>3, <2>4, <2>5, ReplyTypes DEF WriteHeader
<1>4. CASE CloseDone \/ SendPanic
    <2>1. CASE CloseDone
        BY <2>1 DEF CloseDone, twVars
    <2>2. CASE SendPanic
        BY <2>2 DEF SendPanic, twVars
    <2> QED
        BY <1>4, <2>1, <2>2
<1>5. CASE SelectPanic
    BY <1>5 DEF SelectPanic, Goto, handlerVars, twVars
<1>6. CASE SelectDone
    BY <1>6 DEF SelectDone, Goto, handlerVars, twVars
<1>7. CASE SelectTimeout
    BY <1>7 DEF SelectTimeout, Goto, handlerVars, twVars
<1>8. CASE LockDone
    BY <1>8 DEF LockDone, Goto, handlerVars, StatusOK
<1>9. CASE LockTimeout
    BY <1>9 DEF LockTimeout, Goto, handlerVars, twVars
<1>10. CASE SendHeader
    <2>1. reply \in [code : Nat, header : SUBSET Names, body : Seq(Nat)] /\ code \in Nat /\ h \subseteq Names
        OBVIOUS
    <2>2. reply' \in [code : Nat, header : SUBSET Names, body : Seq(Nat)]
        BY ONLY <1>10, <2>1 DEF SendHeader
    <2> QED
        BY <1>10, <2>2 DEF SendHeader, Goto, handlerVars, twVars
<1>11. CASE SendBody
    <2>1. reply \in [code : Nat, header : SUBSET Names, body : Seq(Nat)] /\ wbuf \in Seq(Nat)
        OBVIOUS
    <2>2. reply' \in [code : Nat, header : SUBSET Names, body : Seq(Nat)]
        BY ONLY <1>11, <2>1 DEF SendBody
    <2> QED
        BY <1>11, <2>2 DEF SendBody, Goto, handlerVars, twVars
<1>12. CASE SendHeader503
    <2>1. reply \in [code : Nat, header : SUBSET Names, body : Seq(Nat)]
        OBVIOUS
    <2>4. reply' = [reply EXCEPT !.code = 503] /\ 503 \in Nat
        BY <1>12 DEF SendHeader503, StatusServiceUnavailable
    <2>2. reply' \in [code : Nat, header : SUBSET Names, body : Seq(Nat)]
        BY ONLY <2>1, <2>4
    <2>3. serve' = "body503" /\ UNCHANGED <<handlerVars, twVars, mu, ctxDone, done, panicChan>>
        BY <1>12 DEF SendHeader503, Goto
    <2> QED
        BY ONLY TypeOK, <2>2, <2>3 DEF TypeOK, handlerVars, twVars
<1>13. CASE SendBody503
    <2>1. reply \in [code : Nat, header : SUBSET Names, body : Seq(Nat)] /\ errorBody \in Seq(Nat)
        BY ReplyTypes
    <2>2. reply' \in [code : Nat, header : SUBSET Names, body : Seq(Nat)]
        BY ONLY <1>13, <2>1 DEF SendBody503
    <2>3. serve' = "mark" /\ UNCHANGED <<handlerVars, twVars, mu, ctxDone, done, panicChan>>
        BY <1>13 DEF SendBody503, Goto
    <2> QED
        BY ONLY TypeOK, <2>2, <2>3 DEF TypeOK, handlerVars, twVars
<1>14. CASE MarkTimedOut
    BY <1>14 DEF MarkTimedOut, Goto, handlerVars
<1>15. CASE ContextEnds
    BY <1>15 DEF ContextEnds, handlerVars, twVars
<1>16. CASE UNCHANGED vars
    BY <1>16 DEF vars, handlerVars, twVars
<1> QED
    BY <1>1, <1>2, <1>3, <1>4, <1>5, <1>6, <1>7, <1>8, <1>9, <1>10, <1>11, <1>12, <1>13,
       <1>14, <1>15, <1>16 DEF Next, HandlerRuns, Serve

(* A step of the handler: what it may change it changes before it has      *)
(* returned, and its calls find tw.mu held by nobody else.                 *)
LEMMA HandlerStep == IInv /\ (HandlerCalls \/ HandlerRuns) => (MutexInv /\ DoneInv /\ ReplyInv)'
<1> SUFFICES ASSUME IInv, HandlerCalls \/ HandlerRuns PROVE (MutexInv /\ DoneInv /\ ReplyInv)'
    OBVIOUS
<1> USE DEF IInv, MutexInv, DoneInv, ReplyInv, Sending, Sending503, Whole
<1>1. ASSUME NEW n \in Names, SetHeader(n) PROVE (MutexInv /\ DoneInv /\ ReplyInv)'
    BY <1>1 DEF SetHeader, twVars
<1>2. ASSUME NEW op, NEW arg, Call(op, arg) PROVE (MutexInv /\ DoneInv /\ ReplyInv)'
    BY <1>2 DEF Call, twVars
<1>3. ASSUME NEW how \in {"returning", "panicking", "ended"}, HandlerEnds(how)
      PROVE  (MutexInv /\ DoneInv /\ ReplyInv)'
    BY <1>3 DEF HandlerEnds, twVars
<1>4. CASE Write
    BY <1>4 DEF Write, writeHeaderLocked
<1>5. CASE WriteHeader
    BY <1>5 DEF WriteHeader, writeHeaderLocked
<1>6. CASE CloseDone
    BY <1>6 DEF CloseDone, twVars
<1>7. CASE SendPanic
    BY <1>7 DEF SendPanic, twVars
<1> QED
    BY <1>1, <1>2, <1>3, <1>4, <1>5, <1>6, <1>7
    DEF HandlerCalls, HandlerRuns, CallWrite, CallWriteHeader

(* A step of the serving goroutine.                                        *)
LEMMA ServeStep == IInv /\ Serve => (MutexInv /\ DoneInv /\ ReplyInv)'
<1> SUFFICES ASSUME IInv, Serve PROVE (MutexInv /\ DoneInv /\ ReplyInv)'
    OBVIOUS
<1> USE DEF IInv, MutexInv, DoneInv, ReplyInv, Sending, Sending503, Whole, Goto,
            handlerVars, twVars
<1>1. CASE SelectPanic \/ SelectDone \/ SelectTimeout
    BY <1>1 DEF SelectPanic, SelectDone, SelectTimeout
<1>2. CASE LockDone
    BY <1>2 DEF LockDone
<1>3. CASE SendHeader
    <2>1. reply = NoReply
        BY <1>3 DEF SendHeader
    <2>2. reply' = [code |-> code, header |-> h, body |-> <<>>]
        BY ONLY <1>3, <2>1 DEF SendHeader, NoReply
    <2> QED
        BY <1>3, <2>2 DEF SendHeader
<1>4. CASE SendBody
    BY <1>4 DEF SendBody
<1>5. CASE LockTimeout
    BY <1>5 DEF LockTimeout
<1>6. CASE SendHeader503
    <2>1. reply = NoReply
        BY <1>6 DEF SendHeader503
    <2>2. reply' = [code |-> StatusServiceUnavailable, header |-> {}, body |-> <<>>]
        BY ONLY <1>6, <2>1 DEF SendHeader503, NoReply
    <2> QED
        BY <1>6, <2>2 DEF SendHeader503
<1>7. CASE SendBody503
    <2>1. reply = [code |-> StatusServiceUnavailable, header |-> {}, body |-> <<>>]
        BY <1>7 DEF SendBody503
    <2>2. reply' = TimeoutReply
        BY ONLY <1>7, <2>1 DEF SendBody503, TimeoutReply
    <2> QED
        BY <1>7, <2>2 DEF SendBody503
<1>8. CASE MarkTimedOut
    BY <1>8 DEF MarkTimedOut
<1> QED
    BY <1>1, <1>2, <1>3, <1>4, <1>5, <1>6, <1>7, <1>8 DEF Serve

(* IInv holds in every state of every behaviour.                           *)
THEOREM Invariant == Spec => []IInv
<1>1. IInv /\ [Next]_vars => IInv'
    <2> SUFFICES ASSUME IInv, [Next]_vars PROVE IInv'
        OBVIOUS
    <2>1. TypeOK'
        BY TypeStep DEF IInv
    <2>2. CASE ContextEnds \/ UNCHANGED vars
        BY <2>1, <2>2 DEF ContextEnds, vars, handlerVars, twVars, IInv, MutexInv, DoneInv,
           ReplyInv, Sending, Sending503, Whole
    <2> QED
        BY <2>1, <2>2, HandlerStep, ServeStep DEF Next, IInv
<1> QED
    BY <1>1, InitHolds, PTL DEF Spec

(* Every variable keeps its type.                                          *)
THEOREM TypeCorrect == Spec => []TypeOK
<1>1. IInv => TypeOK
    BY DEF IInv
<1> QED
    BY <1>1, Invariant, PTL

(* When ServeHTTP has returned the connection has got either the reply of  *)
(* a handler that returned, whole, or the 503, and never parts of both.    *)
THEOREM ExactlyOneReply == Spec => []OneReply
<1>1. IInv => OneReply
    BY DEF IInv, ReplyInv, DoneInv, OneReply, Whole, StatusOK
<1> QED
    BY <1>1, Invariant, PTL

(* A Write that returns no error has written before the reply began.       *)
THEOREM WritesAreInTime == Spec => AcceptedInTime
<1>1. IInv /\ [Next]_vars => [wbuf' # wbuf => reply = NoReply]_vars
    <2> SUFFICES ASSUME IInv, Next, wbuf' # wbuf PROVE reply = NoReply
        BY DEF vars, twVars
    <2>1. Write
        BY DEF Next, HandlerCalls, HandlerRuns, Serve, SetHeader, CallWrite, CallWriteHeader,
           Call, HandlerEnds, CloseDone, SendPanic, WriteHeader, SelectPanic, SelectDone,
           SelectTimeout, LockDone, SendHeader, SendBody, LockTimeout, SendHeader503,
           SendBody503, MarkTimedOut, ContextEnds, twVars
    <2>2. handler = "locked" /\ ~timedOut
        BY <2>1 DEF Write
    <2>3. ~Sending /\ ~Sending503 /\ ~done
        BY <2>2 DEF IInv, MutexInv, DoneInv
    <2> QED
        BY <2>2, <2>3 DEF IInv, ReplyInv, Sending, Sending503
<1> QED
    BY <1>1, Invariant, PTL DEF AcceptedInTime, Spec

-----------------------------------------------------------------------------
(* The Logger: what Logger_proofs proves of it holds of the one in         *)
(* Handlers, whose steps are the same.                                     *)

L == INSTANCE Logger_proofs WITH mu <- logMu, call <- syslogCall

LEMMA LogNext == Log!Next <=> L!Next
BY DEF Log!Next, L!Next, Log!Set, L!Set, Log!CloseWriter, L!CloseWriter, Log!Begin, L!Begin,
       Log!Start, L!Start, Log!Relock, L!Relock, Log!Format, L!Format,
       Log!WriteStderr, L!WriteStderr, Log!WriteSyslog, L!WriteSyslog, Log!Crit, L!Crit,
       Log!Syslogs, L!Syslogs, Log!Return, L!Return, Log!Done, L!Done,
       Log!NoJob, L!NoJob, Log!NoCall, L!NoCall, Log!Enter, L!Enter,
       Log!SyslogStep, L!SyslogStep, Log!Sent, L!Sent, Log!SendFails, L!SendFails,
       Log!Connect, L!Connect, Log!ConnectFails, L!ConnectFails, Log!Attempt, L!Attempt,
       Log!Leave, L!Leave, Log!EndLine, L!EndLine, Log!Newline, L!Newline,
       Log!NoConn, L!NoConn, Log!Facility, L!Facility, Log!Severity, L!Severity,
       Log!severityMask, L!severityMask, Log!Formatted, L!Formatted,
       Log!formatHeader, L!formatHeader, Log!Text, L!Text, Log!File, L!File,
       Log!LOG_CRIT, L!LOG_CRIT, Log!syslogVars, L!syslogVars, Log!loggerVars, L!loggerVars

LEMMA LogInit == Log!Init <=> L!Init
BY DEF Log!Init, L!Init, Log!SyslogInit, L!SyslogInit, Log!NoJob, L!NoJob, Log!NoCall, L!NoCall

LEMMA LogWhole == Log!WholeLines <=> L!WholeLines
BY DEF Log!WholeLines, L!WholeLines, Log!Whole, L!Whole, Log!Message, L!Message,
       Log!Severity, L!Severity, Log!severityMask, L!severityMask, Log!LOG_CRIT, L!LOG_CRIT,
       Log!formatHeader, L!formatHeader, Log!Text, L!Text, Log!File, L!File,
       Log!Newline, L!Newline

LEMMA LogWritten == \A msg0 : Log!Written(msg0) <=> L!Written(msg0)
BY DEF Log!Written, L!Written, Log!EndLine, L!EndLine, Log!Newline, L!Newline

LEMMA LogKeeps == Log!SyslogKeeps <=> L!SyslogKeeps
BY LogWritten
   DEF Log!SyslogKeeps, L!SyslogKeeps, Log!Facility, L!Facility, Log!Severity, L!Severity,
       Log!severityMask, L!severityMask, Log!NoConn, L!NoConn

LogInv == which = "log" => L!IInv

LEMMA LogAssumption == L!LoggerAssumption
BY BoundsAssumption DEF Log!LoggerAssumption, L!LoggerAssumption,
                        Log!SyslogAssumption, L!SyslogAssumption

LEMMA LogInitInv == MCInit => LogInv
BY LogInit, LogAssumption, L!InitInv DEF MCInit, LogInv

LEMMA LogStepInv == LogInv /\ [MCNext]_mcVars => LogInv'
<1> SUFFICES ASSUME LogInv, [MCNext]_mcVars, which' = "log" PROVE L!IInv'
    BY DEF LogInv
<1>1. which = "log" /\ [L!Next]_(L!vars)
    <2>1. CASE TimeoutStep
        BY <2>1 DEF TimeoutStep, Timeout
    <2>2. CASE MuxStep
        BY <2>2 DEF MuxStep
    <2>3. CASE ReplyStep
        BY <2>3 DEF ReplyStep
    <2>4. CASE LogStep
        BY <2>4, LogNext DEF LogStep
    <2>5. CASE UNCHANGED mcVars
        BY <2>5 DEF mcVars, logVars, L!vars, L!loggerVars, L!syslogVars
    <2> QED
        BY <2>1, <2>2, <2>3, <2>4, <2>5 DEF MCNext
<1>2. L!IInv
    BY <1>1 DEF LogInv
<1> QED
    BY <1>1, <1>2, LogAssumption, L!StepInv

LEMMA LogAlways == MCSpec => []LogInv
BY LogInitInv, LogStepInv, PTL DEF MCSpec

\* The lines of the Logger are whole, each of one call and by the settings of
\* one moment, for any number of goroutines and any flags (log.go Output).
THEOREM LogLinesAreWhole == MCSpec => []WholeLines
<1>1. LogInv => WholeLines
    <2>1. L!IInv => L!WholeLines
        BY DEF L!IInv, L!SentInv, L!Accepted, L!StderrInv, L!WholeLines
    <2> QED
        BY <2>1, LogWhole DEF LogInv, WholeLines
<1> QED
    BY <1>1, LogAlways, PTL

\* A call of a syslog.Writer returns nil if and only if its message was written,
\* no message is written twice, a retry comes at once and over a connection of
\* its own, and none is left open (syslog.go writeAndRetry, connect, Close).
THEOREM LogMessagesAreKept == MCSpec => []SyslogKeeps
<1>1. LogInv => SyslogKeeps
    <2>1. L!IInv => L!SyslogKeeps
        BY DEF L!IInv, L!SentInv, L!RetryInv, L!Accepted, L!ReturnedInv, L!Kept, L!ConnInv, L!SyslogKeeps
    <2> QED
        BY <2>1, LogKeeps DEF LogInv, SyslogKeeps
<1> QED
    BY <1>1, LogAlways, PTL
-----------------------------------------------------------------------------
(* The 100 Continue, by handlers that do not flush before they read.       *)

ContinueInv == which = "reply" =>
    /\ out = [head |-> out.head, continues |-> out.continues, wire |-> out.wire]
    /\ out.continues \in Seq({"first"})
    /\ continue = "locked" => ~cw.wroteHeader
    /\ continue = "set" /\ state = "handler" => ~cw.wroteHeader

LEMMA ContinueInitInv == MCInit => ContinueInv
<1> SUFFICES ASSUME RW!Init PROVE ContinueInv
    BY DEF MCInit, ContinueInv
<1>1. <<>> \in Seq({"first"})
    OBVIOUS
<1> QED
    BY <1>1 DEF RW!Init, ContinueInv

\* The steps that send nothing but header and body.
LEMMA BecomesKeeps ==
    ASSUME NEW w, RW!Becomes(w),
           out = [head |-> out.head, continues |-> out.continues, wire |-> out.wire]
    PROVE  /\ out' = [head |-> out'.head, continues |-> out'.continues, wire |-> out'.wire]
           /\ out'.continues = out.continues
           /\ cw' = w.cw
BY DEF RW!Becomes

LEMMA ContinueStep ==
    ASSUME FlushBeforeReading = FALSE, which = "reply", which' = "reply", ContinueInv, RW!Next
    PROVE  ContinueInv'
<1>1. /\ out = [head |-> out.head, continues |-> out.continues, wire |-> out.wire]
      /\ out.continues \in Seq({"first"})
      /\ continue = "locked" => ~cw.wroteHeader
      /\ continue = "set" /\ state = "handler" => ~cw.wroteHeader
    BY DEF ContinueInv
<1>2. ASSUME NEW w, RW!Becomes(w), continue' = "unset" \/ (state' = "finished" /\ continue' # "locked")
      PROVE  ContinueInv'
    BY <1>1, <1>2, BecomesKeeps DEF ContinueInv
<1>3. CASE RW!WriteHeader
    <2>1. RW!Becomes(RW!LogicalHeader(RW!Response)) /\ UNCHANGED <<state, continue>>
        BY <1>3 DEF RW!WriteHeader
    <2>2. RW!LogicalHeader(RW!Response).cw = cw
        BY DEF RW!LogicalHeader, RW!Response
    <2> QED
        BY <1>1, <2>1, <2>2, BecomesKeeps DEF ContinueInv
<1>4. CASE RW!Flush
    BY <1>2, <1>4 DEF RW!Flush
<1>5. CASE RW!StartContinue
    BY <1>1, <1>5 DEF RW!StartContinue, RW!InHandler, ContinueInv
<1>6. CASE RW!WriteContinue
    <2>1. out' = [out EXCEPT !.continues = Append(@, "first")]
        BY <1>1, <1>6 DEF RW!WriteContinue
    <2>2. out' = [head |-> out.head, continues |-> Append(out.continues, "first"), wire |-> out.wire]
        BY <1>1, <2>1
    <2>3. Append(out.continues, "first") \in Seq({"first"})
        BY <1>1
    <2> QED
        BY <1>6, <2>2, <2>3 DEF RW!WriteContinue, ContinueInv
<1>7. CASE RW!finishRequest
    <2>1. state' = "finished" /\ continue' # "locked" /\ \E w : RW!Becomes(w)
        BY <1>7 DEF RW!finishRequest
    <2> QED
        BY <1>2, <2>1
<1>8. ASSUME NEW n \in 1..MaxBody, RW!Write(n) PROVE ContinueInv'
    <2>1. continue' = "unset" /\ \E w : RW!Becomes(w)
        BY <1>8 DEF RW!Write
    <2> QED
        BY <1>2, <2>1
<1>9. ASSUME NEW n \in 1..MaxBody, RW!ReadFrom(n) PROVE ContinueInv'
    <2>1. state = "handler" /\ state' = state /\ continue # "locked"
        BY <1>9 DEF RW!ReadFrom, RW!MaySend, RW!InHandler
    <2>2. \E w : RW!Becomes(w)
        BY <1>9 DEF RW!ReadFrom
    <2>3. continue' = "unset" \/ (cw.wroteHeader /\ continue' = continue)
        <3> DEFINE first == IF cw.wroteHeader THEN 0 ELSE RW!MinOf(n, SniffLen)
        <3>1. continue' = "unset" \/ (continue' = continue /\ first = 0)
            BY <1>9 DEF RW!ReadFrom
        <3>2. cw.wroteHeader \/ first # 0
            BY BoundsAssumption DEF RW!WriterAssumption, RW!MinOf
        <3> HIDE DEF first
        <3> QED
            BY <3>1, <3>2
    <2>4. continue' = "unset" \/ continue' \notin {"locked", "set"}
        BY <1>1, <2>1, <2>3
    <2> QED
        BY <1>1, <2>2, <2>4, BecomesKeeps DEF ContinueInv
<1> QED
    BY <1>3, <1>4, <1>5, <1>6, <1>7, <1>8, <1>9 DEF RW!Next

LEMMA ContinueStepInv ==
    FlushBeforeReading = FALSE /\ ContinueInv /\ [MCNext]_mcVars => ContinueInv'
<1> SUFFICES ASSUME FlushBeforeReading = FALSE, ContinueInv, [MCNext]_mcVars, which' = "reply"
             PROVE  ContinueInv'
    BY DEF ContinueInv
<1>1. CASE TimeoutStep
    BY <1>1 DEF TimeoutStep, Timeout
<1>2. CASE MuxStep
    BY <1>2 DEF MuxStep
<1>3. CASE ReplyStep
    BY <1>3, ContinueStep DEF ReplyStep
<1>4. CASE LogStep
    BY <1>4 DEF LogStep
<1>5. CASE UNCHANGED mcVars
    BY <1>5 DEF mcVars, replyVars, ContinueInv
<1> QED
    BY <1>1, <1>2, <1>3, <1>4, <1>5 DEF MCNext

\* A 100 Continue is never sent behind the header of the reply, whatever other
\* goroutines of the handler read and write: unless the handler flushes before
\* it reads a body that the client holds back, which the code does not prevent
\* (server.go expectContinueReader.Read, response.Write, Flush).
THEOREM ContinueIsFirst == FlushBeforeReading = FALSE => (MCSpec => []ContinueFirst)
<1>1. ContinueInv => ContinueFirst
    <2> SUFFICES ASSUME ContinueInv, which = "reply", NEW i \in DOMAIN out.continues
                 PROVE  out.continues[i] # "late"
        BY DEF ContinueFirst, RW!ContinueFirst
    <2>1. out.continues[i] \in {"first"}
        BY DEF ContinueInv
    <2> QED
        BY <2>1
<1>2. (FlushBeforeReading = FALSE) => (FlushBeforeReading = FALSE)'
    OBVIOUS
<1> QED
    BY <1>1, <1>2, ContinueInitInv, ContinueStepInv, PTL DEF MCSpec

-----------------------------------------------------------------------------
(* Induction, recursion and sums, as in Buffers_proofs: a module about     *)
(* Buffers and one about Handlers cannot extend one another.               *)

(* A set of numbers has a least one: the initial segments below its        *)
(* members are finite sets, on which strict inclusion is well founded.     *)
LEMMA LeastNumber ==
    ASSUME NEW T, T \subseteq Nat, T # {}
    PROVE  \E c \in T : \A y \in T : c <= y
<1> DEFINE U == {1..t : t \in T}
<1>1. U # {} /\ U \subseteq FiniteSubsetsOf(Nat)
    <2>1. ASSUME NEW t \in T PROVE 1..t \in FiniteSubsetsOf(Nat)
        <3>1. t \in Nat /\ 1..t \subseteq Nat
            OBVIOUS
        <3> QED
            BY <3>1, FS_Interval DEF FiniteSubsetsOf
    <2> QED
        BY <2>1
<1>2. PICK u \in U : \A s \in U : ~(<<s, u>> \in StrictSubsetOrdering(Nat))
    <2>1. IsWellFoundedOn(StrictSubsetOrdering(Nat), FiniteSubsetsOf(Nat))
        BY FS_StrictSubsetOrderingWellFounded
    <2> QED
        BY <1>1, <2>1, WFMin
<1>3. PICK c \in T : u = 1..c
    OBVIOUS
<1>4. ASSUME NEW y \in T, ~(c <= y) PROVE FALSE
    <2>1. c \in Nat /\ y \in Nat /\ y < c
        BY <1>4
    <2>2. 1..y \subseteq 1..c /\ 1..y # 1..c /\ 1..c \subseteq Nat
        <3>1. c \in 1..c /\ c \notin 1..y
            BY <2>1
        <3> QED
            BY <2>1, <3>1
    <2>3. <<1..y, 1..c>> \in StrictSubsetOrdering(Nat)
        BY <2>2 DEF StrictSubsetOrdering
    <2> QED
        BY <1>2, <1>3, <2>3
<1> QED
    BY <1>4

(* Induction.                                                              *)
LEMMA SetInduction ==
    ASSUME NEW S, 0 \in S, \A k \in Nat : k \in S => k + 1 \in S
    PROVE  Nat \subseteq S
<1> DEFINE T == {k \in Nat : k \notin S}
<1>1. SUFFICES ASSUME T # {} PROVE FALSE
    OBVIOUS
<1>2. PICK c \in T : \A y \in T : c <= y
    <2>1. T \subseteq Nat
        OBVIOUS
    <2> HIDE DEF T
    <2> QED
        BY <1>1, <2>1, LeastNumber
<1>3. c \in Nat /\ c # 0 /\ c - 1 \in Nat /\ ~(c <= c - 1)
    OBVIOUS
<1>4. c - 1 \in T
    <2>1. c - 1 \in S => c - 1 + 1 \in S
        BY <1>3
    <2> QED
        BY <2>1, <1>3
<1> QED
    BY <1>2, <1>3, <1>4

(* A function on 0..n whose value at i comes from its value at i-1.        *)
Recursive(n, V, base, step, f) ==
    f \in [0..n -> V] /\ f[0] = base /\ \A i \in 1..n : f[i] = step[<<i, f[i - 1]>>]

LEMMA Recursion ==
    ASSUME NEW n \in Nat, NEW V, NEW base \in V, NEW step \in [(1..n) \X V -> V]
    PROVE  \E f : Recursive(n, V, base, step, f)
<1> DEFINE Upto(k, f) == f[0] = base /\ \A i \in 1..k : f[i] = step[<<i, f[i - 1]>>]
           S == {k \in Nat : k <= n => \E f \in [0..k -> V] : Upto(k, f)}
<1>1. 0 \in S
    <2>1. [i \in 0..0 |-> base] \in [0..0 -> V] /\ Upto(0, [i \in 0..0 |-> base])
        OBVIOUS
    <2> QED
        BY <2>1
<1>2. ASSUME NEW k \in Nat, k \in S PROVE k + 1 \in S
    <2>1. SUFFICES ASSUME k + 1 <= n PROVE \E f \in [0..(k + 1) -> V] : Upto(k + 1, f)
        OBVIOUS
    <2>2. PICK f \in [0..k -> V] : Upto(k, f)
        BY <1>2, <2>1
    <2> DEFINE g == [i \in 0..(k + 1) |-> IF i = k + 1 THEN step[<<k + 1, f[k]>>] ELSE f[i]]
    <2>3. f[k] \in V /\ <<k + 1, f[k]>> \in (1..n) \X V
        BY <2>1
    <2>4. step[<<k + 1, f[k]>>] \in V
        BY <2>3
    <2>5. g \in [0..(k + 1) -> V]
        BY <2>4
    <2>6. ASSUME NEW i \in 1..(k + 1) PROVE g[i] = step[<<i, g[i - 1]>>]
        <3>1. i - 1 \in 0..k /\ i - 1 # k + 1 /\ g[i - 1] = f[i - 1]
            OBVIOUS
        <3>2. CASE i = k + 1
            <4>1. i - 1 = k /\ k + 1 \in 0..(k + 1)
                BY <3>2
            <4>2. g[k + 1] = step[<<k + 1, f[k]>>]
                BY <4>1
            <4>3. g[i - 1] = f[k]
                BY <3>1, <4>1
            <4> HIDE DEF g
            <4> QED
                BY <3>2, <4>1, <4>2, <4>3
        <3>3. CASE i \in 1..k
            <4>1. g[i] = f[i] /\ f[i] = step[<<i, f[i - 1]>>]
                BY <2>2, <3>3
            <4> QED
                BY <3>1, <4>1
        <3> QED
            BY <3>2, <3>3
    <2>7. g[0] = base
        BY <2>2
    <2> QED
        BY <2>5, <2>6, <2>7
<1>3. Nat \subseteq S
    <2> HIDE DEF S
    <2> QED
        BY <1>1, <1>2, SetInduction
<1>4. n \in S
    <2> HIDE DEF S
    <2> QED
        BY <1>3
<1>5. n <= n
    OBVIOUS
<1> QED
    BY <1>4, <1>5 DEF Recursive

(* The sums of a sequence of numbers, from its start.                      *)
RunningSums(s) == LET f[i \in 0..Len(s)] == IF i = 0 THEN 0 ELSE f[i - 1] + s[i] IN f

SumsOf(s, f) ==
    /\ f \in [0..Len(s) -> Nat]
    /\ f[0] = 0
    /\ \A i \in 1..Len(s) : f[i] = f[i - 1] + s[i]

LEMMA RunningSumsAre ==
    ASSUME NEW s \in Seq(Nat)
    PROVE  SumsOf(s, RunningSums(s))
<1> DEFINE n == Len(s)
           F == CHOOSE f : f = [i \in 0..n |-> IF i = 0 THEN 0 ELSE f[i - 1] + s[i]]
           step == [d \in (1..n) \X Nat |-> d[2] + s[d[1]]]
<1>1. n \in Nat /\ step \in [(1..n) \X Nat -> Nat]
    OBVIOUS
<1>2. PICK f \in [0..n -> Nat] : f[0] = 0 /\ \A i \in 1..n : f[i] = step[<<i, f[i - 1]>>]
    <2> DEFINE base == 0
               V == Nat
    <2>1. n \in Nat /\ base \in V /\ step \in [(1..n) \X V -> V]
        BY <1>1
    <2>2. \E f : Recursive(n, V, base, step, f)
        <3> HIDE DEF step, n, base, V, F
        <3> QED
            BY <2>1, Recursion
    <2> QED
        BY <2>2 DEF Recursive
<1>3. ASSUME NEW i \in 1..n PROVE f[i] = f[i - 1] + s[i]
    <2>1. i - 1 \in 0..n /\ f[i - 1] \in Nat
        BY <1>1
    <2>2. step[<<i, f[i - 1]>>] = f[i - 1] + s[i]
        BY <2>1
    <2> HIDE DEF step
    <2> QED
        BY <1>2, <2>2
<1>4. f = [i \in 0..n |-> IF i = 0 THEN 0 ELSE f[i - 1] + s[i]]
    BY <1>1, <1>2, <1>3
<1>5. F = [i \in 0..n |-> IF i = 0 THEN 0 ELSE F[i - 1] + s[i]]
    BY <1>4
<1>6. RunningSums(s) = F
    BY DEF RunningSums
<1>7. F[0] = 0 /\ \A i \in 1..n : F[i] = F[i - 1] + s[i]
    <2> HIDE DEF F
    <2> QED
        BY <1>1, <1>5
<1>8. Nat \subseteq {i \in Nat : i <= n => F[i] \in Nat}
    <2> DEFINE S == {i \in Nat : i <= n => F[i] \in Nat}
    <2> HIDE DEF F
    <2>1. 0 \in S
        BY <1>7
    <2>2. ASSUME NEW k \in Nat, k \in S PROVE k + 1 \in S
        <3>1. CASE k + 1 <= n
            <4>1. k + 1 \in 1..n /\ F[k + 1] = F[k + 1 - 1] + s[k + 1] /\ s[k + 1] \in Nat
                BY <1>1, <1>7, <3>1
            <4> QED
                BY <1>1, <2>2, <3>1, <4>1
        <3> QED
            BY <1>1, <3>1
    <2> HIDE DEF S
    <2>3. Nat \subseteq S
        BY <2>1, <2>2, SetInduction
    <2> QED
        BY <2>3 DEF S
<1>9. F \in [0..n -> Nat]
    <2>1. \A i \in 0..n : i \in Nat /\ i <= n
        BY <1>1
    <2> HIDE DEF F
    <2> QED
        BY <1>5, <1>8, <2>1
<1> QED
    BY <1>6, <1>7, <1>9 DEF SumsOf

LEMMA SumsAppend ==
    ASSUME NEW s \in Seq(Nat), NEW n \in Nat
    PROVE  RunningSums(Append(s, n))[Len(s) + 1] = RunningSums(s)[Len(s)] + n
<1> DEFINE t == Append(s, n)
           f == RunningSums(s)
           g == RunningSums(t)
<1>1. t \in Seq(Nat) /\ Len(t) = Len(s) + 1 /\ t[Len(s) + 1] = n /\ Len(s) \in Nat
      /\ \A i \in 1..Len(s) : t[i] = s[i]
    OBVIOUS
<1>2. SumsOf(s, f) /\ SumsOf(t, g)
    BY <1>1, RunningSumsAre
<1> HIDE DEF f, g, t
<1> DEFINE S == {i \in Nat : i <= Len(s) => g[i] = f[i]}
<1>3. 0 \in S
    BY <1>2 DEF SumsOf
<1>4. ASSUME NEW k \in Nat, k \in S PROVE k + 1 \in S
    <2>1. SUFFICES ASSUME k + 1 <= Len(s) PROVE g[k + 1] = f[k + 1]
        OBVIOUS
    <2>2. k + 1 \in 1..Len(s) /\ k + 1 \in 1..Len(t) /\ k + 1 - 1 = k /\ k <= Len(s)
        BY <1>1, <2>1
    <2>3. g[k + 1] = g[k] + t[k + 1] /\ f[k + 1] = f[k] + s[k + 1]
        BY <1>2, <2>2 DEF SumsOf
    <2> QED
        BY <1>1, <1>4, <2>2, <2>3
<1>5. Nat \subseteq S
    <2> HIDE DEF S
    <2> QED
        BY <1>3, <1>4, SetInduction
<1>6. g[Len(s)] = f[Len(s)]
    BY <1>1, <1>5
<1>7. Len(s) + 1 \in 1..Len(t) /\ Len(s) + 1 - 1 = Len(s)
    BY <1>1
<1>8. g[Len(s) + 1] = g[Len(s)] + t[Len(s) + 1]
    BY <1>2, <1>7 DEF SumsOf
<1> QED
    BY <1>1, <1>6, <1>8 DEF f, g, t

-----------------------------------------------------------------------------
(* Messages on the wire.                                                   *)

\* What both ends make of a body: so many bytes as they are, or one chunk.
RawWire(wire, n) == wire.raw = n /\ wire.chunks = <<>> /\ wire.last = FALSE
ChunkedWire(wire, n) ==
    wire.raw = 0 /\ wire.chunks = (IF n > 0 THEN <<n>> ELSE <<>>) /\ wire.last = TRUE

LEMMA SumIs ==
    ASSUME NEW s \in Seq(Nat)
    PROVE  RW!SumOf(s) = RunningSums(s)[Len(s)] /\ RW!SumOf(s) \in Nat
<1>1. RW!SumOf(s) = RunningSums(s)[Len(s)]
    BY DEF RW!SumOf, RunningSums
<1>2. SumsOf(s, RunningSums(s))
    BY RunningSumsAre
<1>3. RunningSums(s) \in [0..Len(s) -> Nat]
    BY <1>2 DEF SumsOf
<1>4. Len(s) \in 0..Len(s)
    OBVIOUS
<1>5. RunningSums(s)[Len(s)] \in Nat
    <2> DEFINE f == RunningSums(s)
               top == Len(s)
    <2>1. f \in [0..top -> Nat] /\ top \in 0..top
        BY <1>3, <1>4
    <2> HIDE DEF f, top
    <2>2. f[top] \in Nat
        BY <2>1
    <2> QED
        BY <2>2 DEF f, top
<1> QED
    BY <1>1, <1>5

LEMMA SumOfOne ==
    /\ RW!SumOf(<<>>) = 0
    /\ \A n \in Nat : RW!SumOf(<<n>>) = n
<1>1. SumsOf(<<>>, RunningSums(<<>>)) /\ Len(<<>>) = 0 /\ <<>> \in Seq(Nat)
    <2>1. <<>> \in Seq(Nat) /\ Len(<<>>) = 0
        OBVIOUS
    <2> QED
        BY <2>1, RunningSumsAre
<1>2. RW!SumOf(<<>>) = 0
    BY <1>1, SumIs DEF SumsOf
<1>3. ASSUME NEW n \in Nat PROVE RW!SumOf(<<n>>) = n
    <2>1. <<n>> = Append(<<>>, n) /\ <<n>> \in Seq(Nat) /\ Len(<<n>>) = 0 + 1
        OBVIOUS
    <2>2. RW!SumOf(<<n>>) = RunningSums(<<>>)[0] + n
        <3>1. RunningSums(Append(<<>>, n))[Len(<<>>) + 1] = RunningSums(<<>>)[Len(<<>>)] + n
            BY <1>1, SumsAppend
        <3>2. RW!SumOf(<<n>>) = RunningSums(<<n>>)[Len(<<n>>)]
            BY <2>1, SumIs
        <3> QED
            BY <1>1, <2>1, <3>1, <3>2
    <2>3. RunningSums(<<>>)[0] = 0
        BY <1>1 DEF SumsOf
    <2> QED
        BY <2>2, <2>3
<1> QED
    BY <1>2, <1>3

\* ReadBody by how the body is read.
LEMMA BodyIs ==
    ASSUME NEW u, NEW wire
    PROVE  /\ u.body = "chunked" =>
                /\ RW!ReadBody(u, wire).bytes = RW!SumOf(wire.chunks)
                /\ RW!ReadBody(u, wire).ok = (/\ wire.raw = 0 /\ wire.last
                        /\ {i \in DOMAIN wire.chunks : wire.chunks[i] = 0} = {})
                /\ RW!ReadBody(u, wire).left =
                        (wire.raw > 0 \/ {i \in DOMAIN wire.chunks : wire.chunks[i] = 0} # {})
           /\ u.body = "none" =>
                /\ RW!ReadBody(u, wire).bytes = 0
                /\ RW!ReadBody(u, wire).ok = TRUE
                /\ RW!ReadBody(u, wire).left = (wire.raw > 0 \/ wire.chunks # <<>> \/ wire.last)
           /\ u.body = "length" =>
                /\ RW!ReadBody(u, wire).bytes = RW!MinOf(u.length, wire.raw)
                /\ RW!ReadBody(u, wire).ok = (wire.chunks = <<>> /\ ~wire.last /\ wire.raw >= u.length)
                /\ RW!ReadBody(u, wire).left =
                        (wire.raw > RW!MinOf(u.length, wire.raw) \/ wire.chunks # <<>> \/ wire.last)
           /\ u.body = "eof" =>
                /\ RW!ReadBody(u, wire).bytes = wire.raw
                /\ RW!ReadBody(u, wire).ok = (wire.chunks = <<>> /\ ~wire.last)
                /\ RW!ReadBody(u, wire).left =
                        (wire.raw > wire.raw \/ wire.chunks # <<>> \/ wire.last)
<1>1. CASE u.body = "chunked"
    BY <1>1 DEF RW!ReadBody
<1>2. CASE u.body = "none"
    BY <1>2 DEF RW!ReadBody
<1>3. CASE u.body = "length"
    BY <1>3 DEF RW!ReadBody
<1>4. CASE u.body = "eof"
    BY <1>4 DEF RW!ReadBody
<1> QED
    BY <1>1, <1>2, <1>3, <1>4

LEMMA BodyRead ==
    ASSUME NEW u, NEW wire, NEW n \in Nat
    PROVE  /\ u.body = "chunked" /\ ChunkedWire(wire, n) =>
                /\ RW!ReadBody(u, wire).bytes = n
                /\ RW!ReadBody(u, wire).ok = TRUE
                /\ RW!ReadBody(u, wire).left = FALSE
           /\ u.body = "none" /\ RawWire(wire, n) =>
                /\ RW!ReadBody(u, wire).bytes = 0
                /\ RW!ReadBody(u, wire).ok = TRUE
                /\ RW!ReadBody(u, wire).left = (n > 0)
           /\ u.body = "length" /\ u.length \in Nat /\ RawWire(wire, n) =>
                /\ RW!ReadBody(u, wire).bytes = RW!MinOf(u.length, n)
                /\ RW!ReadBody(u, wire).ok = (n >= u.length)
                /\ RW!ReadBody(u, wire).left = (n > u.length)
           /\ u.body = "eof" /\ RawWire(wire, n) =>
                /\ RW!ReadBody(u, wire).bytes = n
                /\ RW!ReadBody(u, wire).ok = TRUE
                /\ RW!ReadBody(u, wire).left = FALSE
<1>1. CASE ChunkedWire(wire, n) /\ u.body = "chunked"
    <2>1. /\ wire.raw = 0 /\ wire.last = TRUE
          /\ wire.chunks = IF n > 0 THEN <<n>> ELSE <<>>
        BY <1>1 DEF ChunkedWire
    <2>2. {i \in DOMAIN wire.chunks : wire.chunks[i] = 0} = {}
        <3>1. CASE n > 0
            BY <2>1, <3>1
        <3>2. CASE ~(n > 0)
            BY <2>1, <3>2
        <3> QED
            BY <3>1, <3>2
    <2>3. RW!SumOf(wire.chunks) = n
        <3>1. CASE n > 0
            BY <2>1, <3>1, SumOfOne
        <3>2. CASE ~(n > 0)
            BY <2>1, <3>2, SumOfOne
        <3> QED
            BY <3>1, <3>2
    <2>4. ~(0 > 0)
        OBVIOUS
    <2>5. RW!ReadBody(u, wire).bytes = n
        BY <1>1, <2>3, BodyIs
    <2>6. RW!ReadBody(u, wire).ok = TRUE
        BY <1>1, <2>1, <2>2, BodyIs
    <2>7. RW!ReadBody(u, wire).left = FALSE
        BY <1>1, <2>1, <2>2, <2>4, BodyIs
    <2> QED
        BY <1>1, <2>5, <2>6, <2>7
<1>2. CASE RawWire(wire, n) /\ u.body # "chunked"
    <2>1. wire.raw = n /\ wire.chunks = <<>> /\ wire.last = FALSE
        BY <1>2 DEF RawWire
    <2>2. CASE u.body = "none"
        <3>1. RW!ReadBody(u, wire).left = (wire.raw > 0 \/ wire.chunks # <<>> \/ wire.last)
            BY <2>2, BodyIs
        <3>2. RW!ReadBody(u, wire).left = (n > 0)
            BY <2>1, <3>1
        <3>3. RW!ReadBody(u, wire).bytes = 0 /\ RW!ReadBody(u, wire).ok = TRUE
            BY <2>2, BodyIs
        <3> QED
            BY <1>2, <2>2, <3>2, <3>3
    <2>3. CASE u.body = "length" /\ u.length \in Nat
        <3>1. RW!MinOf(u.length, n) = IF u.length < n THEN u.length ELSE n
            BY DEF RW!MinOf
        <3>2. (n > RW!MinOf(u.length, n)) = (n > u.length)
            BY <2>3, <3>1
        <3>3. RW!ReadBody(u, wire).bytes = RW!MinOf(u.length, n)
            BY <2>1, <2>3, BodyIs
        <3>4. RW!ReadBody(u, wire).ok = (wire.chunks = <<>> /\ ~wire.last /\ wire.raw >= u.length)
            BY <2>3, BodyIs
        <3>5. RW!ReadBody(u, wire).left =
                (wire.raw > RW!MinOf(u.length, wire.raw) \/ wire.chunks # <<>> \/ wire.last)
            BY <2>3, BodyIs
        <3>6. RW!ReadBody(u, wire).ok = (n >= u.length)
            BY <2>1, <3>4
        <3>7. RW!ReadBody(u, wire).left = (n > u.length)
            BY <2>1, <3>2, <3>5
        <3> QED
            BY <1>2, <2>3, <3>3, <3>6, <3>7
    <2>4. CASE u.body = "eof"
        <3>1. ~(n > n)
            OBVIOUS
        <3> QED
            BY <2>1, <2>4, <3>1, BodyIs
    <2> QED
        BY <1>2, <2>2, <2>3, <2>4
<1> QED
    BY <1>1, <1>2

\* A body that is n bytes long, all of it.
Complete(u, wire, n) ==
    /\ RW!ReadBody(u, wire).bytes = n
    /\ RW!ReadBody(u, wire).ok = TRUE
    /\ RW!ReadBody(u, wire).left = FALSE

LEMMA BodyComplete ==
    ASSUME NEW u, NEW wire, NEW n \in Nat,
           \/ u.body = "chunked" /\ ChunkedWire(wire, n)
           \/ u.body = "none" /\ n = 0 /\ RawWire(wire, n)
           \/ u.body = "length" /\ u.length = n /\ RawWire(wire, n)
           \/ u.body = "eof" /\ RawWire(wire, n)
    PROVE  Complete(u, wire, n)
<1>1. (n > 0) = (n # 0) /\ (n > n) = FALSE /\ (n >= n) = TRUE /\ RW!MinOf(n, n) = n
    BY DEF RW!MinOf
<1>2. CASE u.body = "chunked" /\ ChunkedWire(wire, n)
    BY <1>2, BodyRead DEF Complete
<1>3. CASE u.body = "none" /\ n = 0 /\ RawWire(wire, n)
    <2>1. /\ RW!ReadBody(u, wire).bytes = 0 /\ RW!ReadBody(u, wire).ok = TRUE
          /\ RW!ReadBody(u, wire).left = (n > 0)
        BY <1>3, BodyRead
    <2>2. (n > 0) = FALSE
        BY <1>3
    <2> QED
        BY <1>3, <2>1, <2>2 DEF Complete
<1>4. CASE u.body = "length" /\ u.length = n /\ RawWire(wire, n)
    BY <1>1, <1>4, BodyRead DEF Complete
<1>5. CASE u.body = "eof" /\ RawWire(wire, n)
    BY <1>5, BodyRead DEF Complete
<1> QED
    BY <1>2, <1>3, <1>4, <1>5

\* What a transferWriter knows.
TransferWriter ==
    [te : RW!Encodings, head : BOOLEAN, method : STRING, close : BOOLEAN, body : BOOLEAN,
     size : Nat, length : Nat \cup {-1}, trailer : {"none", "fields", "bad"}]

LEMMA TransferWritten ==
    ASSUME NEW t \in TransferWriter
    PROVE  /\ RW!chunked(t.te) <=> t.te = <<"chunked">>
           /\ RW!isIdentity(t.te) <=> t.te = <<"identity">>
           /\ RW!chunked(t.te) => ChunkedWire(RW!WireOf(t), IF t.body THEN t.size ELSE 0)
           /\ ~RW!chunked(t.te) =>
                RawWire(RW!WireOf(t), IF ~t.body THEN 0 ELSE IF t.length = -1 THEN t.size
                                      ELSE RW!MinOf(t.size, t.length))
           /\ RW!TransferBody(t).err <=>
                ~t.head /\ t.length # -1 /\ t.length # (IF t.body THEN t.size ELSE 0)
<1>1. (RW!chunked(t.te) <=> t.te = <<"chunked">>) /\ (RW!isIdentity(t.te) <=> t.te = <<"identity">>)
    BY DEF TransferWriter, RW!Encodings, RW!chunked, RW!isIdentity
<1> DEFINE n == IF t.body THEN t.size ELSE 0
           raw == IF ~t.body THEN 0 ELSE IF t.length = -1 THEN n ELSE RW!MinOf(n, t.length)
<1>2. RW!TransferBody(t) =
        [err |-> ~t.head /\ t.length # -1 /\ t.length # n,
         wire |-> [raw |-> raw, chunks |-> IF n > 0 THEN <<n>> ELSE <<>>, last |-> TRUE]]
    BY DEF RW!TransferBody, RW!NoLength
<1> HIDE DEF n, raw
<1>3. RW!TransferBody(t).err = (~t.head /\ t.length # -1 /\ t.length # n)
    BY <1>2
<1>4. RW!TransferBody(t).wire = [raw |-> raw, chunks |-> IF n > 0 THEN <<n>> ELSE <<>>, last |-> TRUE]
    BY <1>2
<1>5. RW!chunked(t.te) => ChunkedWire(RW!WireOf(t), n)
    <2>1. PICK w : /\ w = [raw |-> raw, chunks |-> IF n > 0 THEN <<n>> ELSE <<>>, last |-> TRUE]
                   /\ RW!chunked(t.te) => RW!WireOf(t) = [w EXCEPT !.raw = 0]
        BY <1>4 DEF RW!WireOf
    <2> QED
        BY <2>1 DEF ChunkedWire
<1>6. ~RW!chunked(t.te) => RawWire(RW!WireOf(t), raw)
    <2>1. RW!TransferBody(t).wire.raw = raw
        BY <1>4
    <2>2. PICK v : /\ v = [raw |-> 0, chunks |-> <<>>, last |-> FALSE]
                   /\ ~RW!chunked(t.te) => RW!WireOf(t) = [v EXCEPT !.raw = raw]
        BY <2>1 DEF RW!WireOf, RW!NoWire
    <2> QED
        BY <2>2 DEF RawWire
<1>7. raw = IF ~t.body THEN 0 ELSE IF t.length = -1 THEN t.size ELSE RW!MinOf(t.size, t.length)
    BY DEF raw, n
<1> QED
    BY <1>1, <1>3, <1>5, <1>6, <1>7 DEF n

\* The transferWriter of a Request.
LEMMA RequestWriter ==
    ASSUME NEW r \in RW!RequestMessage
    PROVE  LET t == RW!RequestTransfer(r)
               n == RW!outgoingLength(r)
               asks == n < 0 /\ r.te = <<>>
               chunks == asks /\ RW!shouldSendChunkedRequestBody(r)
               empty == asks /\ RW!requestMethodUsuallyLacksBody(r.method) /\ ~chunks
           IN  /\ t \in TransferWriter /\ n \in Nat \cup {-1}
               /\ n = IF r.body # "reader" THEN 0 ELSE IF r.contentLength # 0 THEN r.contentLength ELSE -1
               /\ t.te = (IF r.body = "nil" THEN <<>> ELSE IF chunks THEN <<"chunked">> ELSE r.te)
               /\ t.head = FALSE /\ t.method = r.method /\ t.close = r.close /\ t.size = r.size
               /\ t.body = (r.body # "nil" /\ ~empty)
               /\ t.length = (IF t.te = <<"chunked">> THEN -1 ELSE IF empty THEN 0 ELSE n)
               /\ t.trailer = (IF t.te = <<"chunked">> THEN r.trailer ELSE "none")
<1>1. /\ r.method \in STRING /\ r.body \in {"nil", "NoBody", "reader"} /\ r.size \in Nat
      /\ r.contentLength \in Nat \cup {-1} /\ r.te \in RW!Encodings /\ r.close \in BOOLEAN
      /\ r.trailer \in {"none", "fields", "bad"}
    BY DEF RW!RequestMessage, RW!NoLength
<1> DEFINE n == RW!outgoingLength(r)
           asks == n < 0 /\ r.te = <<>>
           should == RW!shouldSendChunkedRequestBody(r)
           lacks == RW!requestMethodUsuallyLacksBody(r.method)
           chunks == asks /\ should
           te == IF r.body = "nil" THEN <<>> ELSE IF chunks THEN <<"chunked">> ELSE r.te
           empty == asks /\ lacks /\ te = <<>>
           t == RW!RequestTransfer(r)
<1>2. n = (IF r.body # "reader" THEN 0 ELSE IF r.contentLength # 0 THEN r.contentLength ELSE -1)
      /\ n \in Nat \cup {-1}
    BY <1>1 DEF RW!outgoingLength, RW!NoLength
<1>3. te \in RW!Encodings /\ (RW!chunked(te) <=> te = <<"chunked">>)
    <2>1. \A e \in RW!Encodings : RW!chunked(e) <=> e = <<"chunked">>
        BY DEF RW!Encodings, RW!chunked
    <2>2. <<>> \in RW!Encodings /\ <<"chunked">> \in RW!Encodings
        BY DEF RW!Encodings
    <2> HIDE DEF chunks
    <2>3. te \in RW!Encodings
        BY <1>1, <2>2
    <2> QED
        BY <2>1, <2>3
<1>4. n = 0 => ~asks
    OBVIOUS
<1>5. empty <=> asks /\ lacks /\ ~chunks
    <2>1. r.body = "nil" => ~asks
        BY <1>2, <1>4
    <2>2. <<"chunked">> # <<>>
        OBVIOUS
    <2> HIDE DEF n
    <2> QED
        BY <2>1, <2>2
<1>6. t = [te |-> te, head |-> FALSE, method |-> r.method, close |-> r.close,
           body |-> r.body # "nil" /\ ~empty, size |-> r.size,
           length |-> IF RW!chunked(te) THEN -1 ELSE IF empty THEN 0 ELSE n,
           trailer |-> IF RW!chunked(te) THEN r.trailer ELSE "none"]
    BY DEF RW!RequestTransfer, RW!NoLength
<1>7. t.te = te /\ t.head = FALSE /\ t.method = r.method /\ t.close = r.close /\ t.size = r.size
      /\ t.body = (r.body # "nil" /\ ~empty)
      /\ t.length = (IF RW!chunked(te) THEN -1 ELSE IF empty THEN 0 ELSE n)
      /\ t.trailer = (IF RW!chunked(te) THEN r.trailer ELSE "none")
    <2> HIDE DEF te, empty, n, t
    <2> QED
        BY <1>6
<1>8. t \in TransferWriter
    <2> HIDE DEF te, empty, n
    <2>1. (IF RW!chunked(te) THEN -1 ELSE IF empty THEN 0 ELSE n) \in Nat \cup {-1}
        BY <1>2
    <2>2. (IF RW!chunked(te) THEN r.trailer ELSE "none") \in {"none", "fields", "bad"}
        BY <1>1
    <2>3. (r.body # "nil" /\ ~empty) \in BOOLEAN
        OBVIOUS
    <2> QED
        BY <1>1, <1>3, <1>6, <2>1, <2>2, <2>3 DEF TransferWriter
<1>9. (r.body # "nil" /\ ~empty) = (r.body # "nil" /\ ~(asks /\ lacks /\ ~chunks))
    <2> HIDE DEF empty, asks, chunks
    <2> QED
        BY <1>5
<1>10. (IF empty THEN 0 ELSE n) = (IF asks /\ lacks /\ ~chunks THEN 0 ELSE n)
    <2> HIDE DEF empty, asks, chunks, n
    <2> QED
        BY <1>5
<1> HIDE DEF t, empty, te
<1>11. /\ t.body = (r.body # "nil" /\ ~(asks /\ lacks /\ ~chunks))
       /\ t.length = (IF t.te = <<"chunked">> THEN -1 ELSE IF asks /\ lacks /\ ~chunks THEN 0 ELSE n)
       /\ t.trailer = (IF t.te = <<"chunked">> THEN r.trailer ELSE "none")
    BY <1>3, <1>7, <1>9, <1>10
<1> QED
    BY <1>2, <1>7, <1>8, <1>11 DEF t, te

\* What readTransfer makes of a head with chunks, and of one without.
ChunkedRead(u, f) ==
    /\ u.err = FALSE /\ u.close = RW!shouldClose(1, f.conn) /\ u.body = "chunked"
    /\ f.trailer \in BOOLEAN => u.trailer = f.trailer

LEMMA ChunksRead ==
    ASSUME NEW f, NEW u, NEW method, NEW status \in Nat, NEW isResponse \in BOOLEAN,
           method # "HEAD", RW!bodyAllowedForStatus(status), f.te = <<"chunked">>, f.cl = <<>>,
           u = RW!readTransfer(isResponse, status, method, 1, f)
    PROVE  ChunkedRead(u, f)
<1>1. RW!IsChunked(f, 1) = TRUE /\ RW!BadEncoding(f, 1) = FALSE
    BY DEF RW!IsChunked, RW!BadEncoding
<1>2. RW!BadLength(isResponse, status, method, <<>>) = FALSE
    BY DEF RW!BadLength
<1>3. RW!fixLength(isResponse, status, method, <<>>, TRUE) = -1 /\ ~RW!noResponseBodyExpected(method)
    BY DEF RW!fixLength, RW!NoLength, RW!noResponseBodyExpected
<1>4. u.body = "chunked"
    BY <1>1, <1>3 DEF RW!readTransfer
<1>5. u.close = RW!shouldClose(1, f.conn)
    BY <1>1 DEF RW!readTransfer, RW!shouldClose
<1>6. u.err = FALSE
    BY <1>1, <1>2 DEF RW!readTransfer
<1>7. f.trailer \in BOOLEAN => u.trailer = f.trailer
    BY <1>1 DEF RW!readTransfer
<1> QED
    BY <1>4, <1>5, <1>6, <1>7 DEF ChunkedRead

\* The length of a body without chunks; none is that of a body of which
\* nothing is said.
LengthSaid(f, method, status, none) ==
    IF method = "HEAD" \/ ~RW!bodyAllowedForStatus(status) THEN 0
    ELSE IF f.cl # <<>> THEN f.cl[1] ELSE none

\* What is made of a head that says so.
PlainRead(u, f, minor, length) ==
    /\ u.err = FALSE /\ u.trailer = FALSE /\ u.length = length /\ length \in Nat \cup {-1}
    /\ u.close = (RW!shouldClose(minor, f.conn) \/ length = -1)
    /\ u.body = IF length = 0 THEN "none" ELSE IF length > 0 THEN "length" ELSE "eof"

LEMMA RequestLength ==
    ASSUME NEW f, NEW u, NEW method, f.te = <<>>, f.cl = <<>> \/ \E k \in Nat : f.cl = <<k>>,
           u = RW!readTransfer(FALSE, 200, method, 1, f),
           method # "HEAD" \/ f.cl = <<>> \/ f.cl[1] = 0
    PROVE  PlainRead(u, f, 1, LengthSaid(f, method, 200, 0))
<1> DEFINE l == LengthSaid(f, method, 200, 0)
<1>0. l = IF method = "HEAD" \/ ~RW!bodyAllowedForStatus(200) THEN 0
          ELSE IF f.cl # <<>> THEN f.cl[1] ELSE 0
    BY DEF LengthSaid
<1> HIDE DEF l
<1>1. RW!IsChunked(f, 1) = FALSE /\ RW!BadEncoding(f, 1) = FALSE
    BY DEF RW!IsChunked, RW!BadEncoding
<1>2. f.cl # <<>> => f.cl[1] \in Nat /\ f.cl[1] # -2 /\ \A i, j \in DOMAIN f.cl : f.cl[i] = f.cl[j]
    OBVIOUS
<1>3. l \in Nat \cup {-1}
    BY <1>2, <1>0
<1>4. RW!fixLength(FALSE, 200, method, f.cl, FALSE) = l
    BY <1>0 DEF RW!fixLength, RW!NoLength, RW!noResponseBodyExpected
<1>5. l # -1
    <2>1. 0 # -1 /\ \A k \in Nat : k # -1
        OBVIOUS
    <2> QED
        BY <1>2, <1>0, <2>1
<1>6. u.length = l
    BY <1>1, <1>4 DEF RW!readTransfer
<1>7. u.trailer = FALSE
    BY <1>1 DEF RW!readTransfer
<1>8. u.close = (RW!shouldClose(1, f.conn) \/ l = -1)
    BY <1>1, <1>4, <1>5 DEF RW!readTransfer, RW!NoLength
<1>9. u.body = IF l = 0 THEN "none" ELSE IF l > 0 THEN "length" ELSE "eof"
    <2>1. u.body = IF u.length = 0 THEN "none" ELSE IF u.length > 0 THEN "length"
                   ELSE IF u.close THEN "eof" ELSE "none"
        BY <1>1 DEF RW!readTransfer
    <2>2. l \notin Nat => u.close
        BY <1>3, <1>8
    <2>3. l \in Nat => l = 0 \/ l > 0
        OBVIOUS
    <2> QED
        <3>1. CASE l \in Nat
            BY <1>6, <2>1, <2>3, <3>1
        <3>2. CASE l = -1
            <4>1. -1 # 0 /\ ~(-1 > 0) /\ -1 \notin Nat
                OBVIOUS
            <4>2. u.close /\ u.length = -1
                BY <1>6, <2>2, <3>2, <4>1
            <4>3. u.body = "eof"
                BY <2>1, <4>1, <4>2
            <4> QED
                BY <3>2, <4>1, <4>3
        <3> QED
            BY <1>3, <3>1, <3>2
<1>10. u.err = FALSE
    <2>1. ~(\E i, j \in DOMAIN f.cl : f.cl[i] # f.cl[j])
        <3>1. f.cl = <<>> => ~(\E i, j \in DOMAIN f.cl : f.cl[i] # f.cl[j])
            OBVIOUS
        <3> QED
            BY <1>2, <3>1
    <2>2. RW!BadLength(FALSE, 200, method, f.cl) = FALSE
        BY <1>2, <2>1 DEF RW!BadLength, RW!Bad, RW!noResponseBodyExpected
    <2> QED
        BY <1>1, <1>2, <2>2 DEF RW!readTransfer, RW!Bad
<1>11. PlainRead(u, f, 1, l)
    BY <1>3, <1>6, <1>7, <1>8, <1>9, <1>10 DEF PlainRead
<1> QED
    BY <1>11 DEF l

LEMMA ResponseLength ==
    ASSUME NEW f, NEW u, NEW method, NEW status \in Nat,
           NEW minor \in {0, 1}, f.te = <<>>, f.cl = <<>> \/ \E k \in Nat : f.cl = <<k>>,
           u = RW!readTransfer(TRUE, status, method, minor, f)
    PROVE  PlainRead(u, f, minor, LengthSaid(f, method, status, -1))
<1> DEFINE l == LengthSaid(f, method, status, -1)
<1>0. l = IF method = "HEAD" \/ ~RW!bodyAllowedForStatus(status) THEN 0
          ELSE IF f.cl # <<>> THEN f.cl[1] ELSE -1
    BY DEF LengthSaid
<1> HIDE DEF l
<1>1. RW!IsChunked(f, minor) = FALSE /\ RW!BadEncoding(f, minor) = FALSE
    BY DEF RW!IsChunked, RW!BadEncoding
<1>2. f.cl # <<>> => f.cl[1] \in Nat /\ f.cl[1] # -2 /\ \A i, j \in DOMAIN f.cl : f.cl[i] = f.cl[j]
    OBVIOUS
<1>3. l \in Nat \cup {-1}
    BY <1>2, <1>0
<1>4. RW!fixLength(TRUE, status, method, f.cl, FALSE) = l
    BY <1>0 DEF RW!fixLength, RW!NoLength, RW!noResponseBodyExpected
<1>5. l = -1 => RW!bodyAllowedForStatus(status)
    <2>1. 0 # -1 /\ \A k \in Nat : k # -1
        OBVIOUS
    <2> QED
        BY <1>2, <1>0, <2>1
<1>6. u.length = l
    BY <1>1, <1>4 DEF RW!readTransfer
<1>7. u.trailer = FALSE
    BY <1>1 DEF RW!readTransfer
<1>8. u.close = (RW!shouldClose(minor, f.conn) \/ l = -1)
    BY <1>1, <1>4, <1>5 DEF RW!readTransfer, RW!NoLength
<1>9. u.body = IF l = 0 THEN "none" ELSE IF l > 0 THEN "length" ELSE "eof"
    <2>1. u.body = IF u.length = 0 THEN "none" ELSE IF u.length > 0 THEN "length"
                   ELSE IF u.close THEN "eof" ELSE "none"
        BY <1>1 DEF RW!readTransfer
    <2>2. l \notin Nat => u.close
        BY <1>3, <1>8
    <2>3. l \in Nat => l = 0 \/ l > 0
        OBVIOUS
    <2> QED
        <3>1. CASE l \in Nat
            BY <1>6, <2>1, <2>3, <3>1
        <3>2. CASE l = -1
            <4>1. -1 # 0 /\ ~(-1 > 0) /\ -1 \notin Nat
                OBVIOUS
            <4>2. u.close /\ u.length = -1
                BY <1>6, <2>2, <3>2, <4>1
            <4>3. u.body = "eof"
                BY <2>1, <4>1, <4>2
            <4> QED
                BY <3>2, <4>1, <4>3
        <3> QED
            BY <1>3, <3>1, <3>2
<1>10. u.err = FALSE
    <2>1. ~(\E i, j \in DOMAIN f.cl : f.cl[i] # f.cl[j])
        <3>1. f.cl = <<>> => ~(\E i, j \in DOMAIN f.cl : f.cl[i] # f.cl[j])
            OBVIOUS
        <3> QED
            BY <1>2, <3>1
    <2>2. RW!BadLength(TRUE, status, method, f.cl) = FALSE
        BY <1>2, <2>1 DEF RW!BadLength, RW!Bad, RW!noResponseBodyExpected
    <2> QED
        BY <1>1, <1>2, <2>2 DEF RW!readTransfer, RW!Bad
<1>11. PlainRead(u, f, minor, l)
    BY <1>3, <1>6, <1>7, <1>8, <1>9, <1>10 DEF PlainRead
<1> QED
    BY <1>11 DEF l

LEMMA RequestsAreRead ==
    ASSUME NEW r \in RW!RequestMessage
    PROVE  RW!RequestArrives(r)
<1> DEFINE t == RW!RequestTransfer(r)
           n == RW!outgoingLength(r)
           asks == n < 0 /\ r.te = <<>>
           chunks == asks /\ RW!shouldSendChunkedRequestBody(r)
           empty == asks /\ RW!requestMethodUsuallyLacksBody(r.method) /\ ~chunks
           host_ == IF r.host # "" THEN r.host ELSE r.urlHost
           f == RW!TransferFields(t)
           head == [method |-> r.method, minor |-> 1, urlHost |-> "", hosts |-> <<host_>>, fields |-> f]
           w == RW!WriteRequest(r)
           u == RW!readTransfer(FALSE, 200, r.method, 1, f)
           b == RW!ReadBody(u, RW!WireOf(t))
           sent == IF r.body = "reader" THEN r.size ELSE 0
<1>1. /\ r.method \in STRING /\ r.body \in {"nil", "NoBody", "reader"} /\ r.size \in Nat
      /\ r.contentLength \in Nat \cup {-1} /\ r.te \in RW!Encodings /\ r.close \in BOOLEAN
      /\ r.trailer \in {"none", "fields", "bad"}
      /\ r.size > 0 => r.body = "reader"
    BY DEF RW!RequestMessage, RW!NoLength
<1>2. /\ t \in TransferWriter /\ n \in Nat \cup {-1}
      /\ n = IF r.body # "reader" THEN 0 ELSE IF r.contentLength # 0 THEN r.contentLength ELSE -1
      /\ t.te = (IF r.body = "nil" THEN <<>> ELSE IF chunks THEN <<"chunked">> ELSE r.te)
      /\ t.head = FALSE /\ t.method = r.method /\ t.close = r.close /\ t.size = r.size
      /\ t.body = (r.body # "nil" /\ ~empty)
      /\ t.length = (IF t.te = <<"chunked">> THEN -1 ELSE IF empty THEN 0 ELSE n)
      /\ t.trailer = (IF t.te = <<"chunked">> THEN r.trailer ELSE "none")
    BY RequestWriter
<1>3. /\ w.head = head /\ w.wire = RW!WireOf(t)
      /\ ~w.err => ~RW!TransferBody(t).err /\ t.trailer # "bad"
    <2> DEFINE v == RW!Written(t, head)
    <2>1. v = [err |-> t.trailer = "bad" \/ RW!TransferBody(t).err, head |-> head, wire |-> RW!WireOf(t)]
        BY DEF RW!Written
    <2>2. w = [v EXCEPT !.err = v.err \/ (r.contentLength # 0 /\ r.body = "nil")]
        BY DEF RW!WriteRequest
    <2> HIDE DEF t, head, v, host_, w
    <2>3. v.err = (t.trailer = "bad" \/ RW!TransferBody(t).err) /\ v.head = head /\ v.wire = RW!WireOf(t)
        BY <2>1
    <2>4. w.err = (v.err \/ (r.contentLength # 0 /\ r.body = "nil"))
        BY <2>1, <2>2
    <2>5. w.head = head /\ w.wire = RW!WireOf(t)
        BY <2>1, <2>2
    <2> QED
        BY <2>3, <2>4, <2>5
<1> HIDE DEF t, w
<1>4. /\ f.te = (IF t.te = <<"chunked">> THEN <<"chunked">> ELSE <<>>)
      /\ f.conn = (IF r.close THEN {"close"} ELSE {})
      /\ f.trailer = (t.trailer = "fields")
      /\ f.cl = <<>> \/ (f.cl = <<t.length>> /\ t.length \in Nat)
      /\ t.te # <<"chunked">> /\ t.length > 0 => f.cl # <<>>
      /\ t.te = <<"chunked">> => f.cl = <<>>
    <2>1. RW!chunked(t.te) = (t.te = <<"chunked">>)
        BY <1>2, TransferWritten DEF RW!chunked
    <2>2. f = [cl |-> IF RW!shouldSendContentLength(t) THEN <<t.length>> ELSE <<>>,
               te |-> IF RW!chunked(t.te) THEN <<"chunked">> ELSE <<>>,
               conn |-> IF t.close THEN {"close"} ELSE {},
               trailer |-> t.trailer = "fields"]
        BY DEF RW!TransferFields
    <2>3. t.length \in Nat \cup {-1}
        BY <1>2 DEF TransferWriter
    <2>4. /\ RW!shouldSendContentLength(t) => t.length \in Nat /\ t.te # <<"chunked">>
          /\ t.te # <<"chunked">> /\ t.length > 0 => RW!shouldSendContentLength(t)
        <3>1. RW!shouldSendContentLength(t) => ~RW!chunked(t.te) /\ t.length >= 0
            BY DEF RW!shouldSendContentLength
        <3>2. ~RW!chunked(t.te) /\ t.length >= 0 /\ t.length > 0 => RW!shouldSendContentLength(t)
            BY DEF RW!shouldSendContentLength
        <3>3. (t.length > 0 => t.length >= 0) /\ (t.length >= 0 => t.length \in Nat)
            BY <2>3
        <3> QED
            BY <2>1, <3>1, <3>2, <3>3
    <2>5. /\ f.cl = IF RW!shouldSendContentLength(t) THEN <<t.length>> ELSE <<>>
          /\ f.te = (IF t.te = <<"chunked">> THEN <<"chunked">> ELSE <<>>)
          /\ f.conn = (IF r.close THEN {"close"} ELSE {})
          /\ f.trailer = (t.trailer = "fields")
        <3> HIDE DEF f
        <3> QED
            BY <1>2, <2>1, <2>2
    <2> HIDE DEF f
    <2> QED
        BY <2>4, <2>5
<1> HIDE DEF f
<1>5. SUFFICES ASSUME ~w.err, ~RW!Unframed(r)
      PROVE  /\ u.err = FALSE /\ b.ok = TRUE /\ b.left = FALSE /\ b.bytes = sent
             /\ u.close = r.close
             /\ u.trailer = (f.te # <<>> /\ r.trailer = "fields")
    <2>1. /\ RW!ReadRequest(head).transfer = u
          /\ RW!ReadRequest(head).host = host_
          /\ RW!ReadRequest(head).err = (u.err \/ Len(<<host_>>) > 1)
        BY DEF RW!ReadRequest
    <2>2. ~(Len(<<host_>>) > 1)
        OBVIOUS
    <2>3. head.fields = f
        OBVIOUS
    <2> HIDE DEF head, u, host_, sent
    <2>4. RW!RequestArrives(r) <=>
            (~w.err /\ ~RW!Unframed(r) =>
                /\ ~RW!ReadRequest(w.head).err
                /\ RW!ReadBody(RW!ReadRequest(w.head).transfer, w.wire).ok
                /\ ~RW!ReadBody(RW!ReadRequest(w.head).transfer, w.wire).left
                /\ RW!ReadBody(RW!ReadRequest(w.head).transfer, w.wire).bytes = sent
                /\ RW!ReadRequest(w.head).host = host_
                /\ r.close => RW!ReadRequest(w.head).transfer.close
                /\ RW!ReadRequest(w.head).transfer.trailer
                        = (w.head.fields.te # <<>> /\ r.trailer = "fields"))
        BY DEF RW!RequestArrives, host_, w, sent
    <2>5. RW!RequestArrives(r) <=>
            (~w.err /\ ~RW!Unframed(r) =>
                /\ ~(u.err \/ Len(<<host_>>) > 1) /\ b.ok /\ ~b.left /\ b.bytes = sent
                /\ r.close => u.close
                /\ u.trailer = (f.te # <<>> /\ r.trailer = "fields"))
        BY <1>3, <2>1, <2>3, <2>4
    <2> HIDE DEF b
    <2> QED
        BY <2>2, <2>5
<1>6. RW!shouldClose(1, f.conn) = r.close
    <2>1. ("close" \in f.conn) = r.close
        BY <1>1, <1>4
    <2> QED
        BY <2>1 DEF RW!shouldClose
<1>7. /\ r.method = "HEAD" /\ r.body # "nil" => r.size = 0 /\ ~r.slow /\ r.te # <<"chunked">>
      /\ r.body = "reader" /\ n = -1 => r.method # "CONNECT" /\ r.te # <<"identity">>
    <2>1. r.te = <<"chunked">> => RW!chunked(r.te)
        BY DEF RW!chunked
    <2>2. r.te = <<"identity">> => RW!isIdentity(r.te)
        BY DEF RW!isIdentity
    <2>3. r.size > 0 \/ r.size = 0
        BY <1>1
    <2>4. r.method = "HEAD" /\ r.body # "nil" => r.size = 0 /\ ~r.slow /\ ~RW!chunked(r.te)
        BY <1>5, <2>3 DEF RW!Unframed
    <2>5. r.body = "reader" /\ n = -1 => r.method # "CONNECT" /\ ~RW!isIdentity(r.te)
        BY <1>5 DEF RW!Unframed, RW!NoLength
    <2> QED
        BY <2>1, <2>2, <2>4, <2>5
<1>8. RW!bodyAllowedForStatus(200)
    BY DEF RW!bodyAllowedForStatus
<1>9. /\ RW!requestMethodUsuallyLacksBody("HEAD") /\ ~RW!requestMethodUsuallyLacksBody("CONNECT")
      /\ chunks /\ RW!requestMethodUsuallyLacksBody(r.method) => r.size > 0 \/ r.slow
      /\ empty => r.size = 0
    BY <1>1 DEF RW!requestMethodUsuallyLacksBody, RW!shouldSendChunkedRequestBody
<1>12. sent \in Nat /\ (r.body # "nil" => r.size = sent) /\ (r.size = 0 => sent = 0)
       /\ <<>> # <<"chunked">> /\ (r.body = "nil" => sent = 0)
    BY <1>1
<1>13. /\ asks <=> n < 0 /\ r.te = <<>>
       /\ chunks <=> asks /\ RW!shouldSendChunkedRequestBody(r)
       /\ empty <=> asks /\ RW!requestMethodUsuallyLacksBody(r.method) /\ ~chunks
       /\ n = -1 => n < 0
    OBVIOUS
<1>14. u = RW!readTransfer(FALSE, 200, r.method, 1, f)
    OBVIOUS
<1>15. /\ b.ok = RW!ReadBody(u, RW!WireOf(t)).ok /\ b.left = RW!ReadBody(u, RW!WireOf(t)).left
       /\ b.bytes = RW!ReadBody(u, RW!WireOf(t)).bytes
    OBVIOUS
<1> HIDE DEF n, asks, chunks, empty, sent, u, b
<1>10. CASE t.te = <<"chunked">>
    <2>1. r.body # "nil" /\ (chunks \/ r.te = <<"chunked">>)
        BY <1>2, <1>10, <1>12
    <2>2. r.method # "HEAD"
        BY <1>1, <1>7, <1>9, <2>1
    <2>3. ~empty
        BY <1>12, <1>13, <2>1
    <2>4. t.body = TRUE
        BY <1>2, <2>1, <2>3
    <2>5. ChunkedWire(RW!WireOf(t), r.size)
        BY <1>2, <1>10, <2>4, TransferWritten
    <2>6. u.err = FALSE /\ u.close = r.close /\ u.body = "chunked" /\ u.trailer = (r.trailer = "fields")
        <3>1. f.te = <<"chunked">> /\ f.cl = <<>> /\ f.trailer = (r.trailer = "fields")
            BY <1>2, <1>4, <1>10
        <3>2. f.trailer \in BOOLEAN
            BY <3>1
        <3>3. /\ u.err = FALSE /\ u.close = RW!shouldClose(1, f.conn) /\ u.body = "chunked"
              /\ f.trailer \in BOOLEAN => u.trailer = f.trailer
            <4>1. 200 \in Nat /\ FALSE \in BOOLEAN
                OBVIOUS
            <4>2. ChunkedRead(u, f)
                BY <1>8, <2>2, <3>1, <1>14, <4>1, ChunksRead
            <4> QED
                BY <4>2 DEF ChunkedRead
        <3> QED
            BY <1>6, <3>1, <3>2, <3>3
    <2>7. b.ok = TRUE /\ b.left = FALSE /\ b.bytes = r.size
        <3>1. Complete(u, RW!WireOf(t), r.size)
            BY <1>1, <2>5, <2>6, BodyComplete
        <3> QED
            BY <1>15, <3>1 DEF Complete
    <2>8. r.size = sent
        BY <1>12, <2>1
    <2>9. f.te # <<>>
        BY <1>4, <1>10, <1>12
    <2> QED
        BY <2>6, <2>7, <2>8, <2>9
<1>11. CASE t.te # <<"chunked">>
    <2>1. t.length \in Nat /\ t.length = (IF t.body THEN r.size ELSE 0)
        <3>1. t.length # -1
            <4>1. SUFFICES ASSUME t.length = -1 PROVE FALSE
                OBVIOUS
            <4>2. ~empty /\ n = -1
                <5>1. 0 # -1
                    OBVIOUS
                <5> QED
                    BY <1>2, <1>11, <4>1, <5>1
            <4>3. r.body = "reader"
                <5>1. 0 # -1
                    OBVIOUS
                <5> QED
                    BY <1>2, <4>2, <5>1
            <4>4. ~chunks /\ r.te # <<"chunked">>
                BY <1>2, <1>11, <4>3
            <4>5. r.te = <<>>
                BY <1>1, <1>7, <4>2, <4>3, <4>4 DEF RW!Encodings
            <4>6. asks
                BY <1>13, <4>2, <4>5
            <4>7. ~RW!requestMethodUsuallyLacksBody(r.method)
                BY <1>13, <4>2, <4>4, <4>6
            <4>8. RW!shouldSendChunkedRequestBody(r)
                BY <1>7, <4>2, <4>3, <4>7 DEF RW!shouldSendChunkedRequestBody
            <4> QED
                BY <1>13, <4>4, <4>6, <4>8
        <3>2. ~RW!TransferBody(t).err
            BY <1>3, <1>5
        <3> QED
            BY <1>2, <3>1, <3>2, TransferWritten DEF TransferWriter
    <2>2. t.length = sent
        BY <1>1, <1>2, <1>9, <1>12, <2>1
    <2>3. RawWire(RW!WireOf(t), sent)
        <3>1. RW!MinOf(sent, sent) = sent
            BY <1>12 DEF RW!MinOf
        <3>2. RawWire(RW!WireOf(t), IF ~t.body THEN 0 ELSE IF t.length = -1 THEN t.size
                                    ELSE RW!MinOf(t.size, t.length))
            BY <1>2, <1>11, TransferWritten
        <3>3. t.length # -1 /\ (t.body => t.size = sent) /\ (~t.body => sent = 0)
            <4>1. sent # -1
                BY <1>12
            <4> QED
                BY <1>2, <2>1, <2>2, <4>1
        <3> QED
            BY <2>2, <3>1, <3>2, <3>3
    <2>4. f.te = <<>> /\ f.trailer = FALSE /\ (f.cl = <<>> \/ f.cl = <<sent>>) /\ (sent > 0 => f.cl # <<>>)
        BY <1>2, <1>4, <1>11, <2>2
    <2>5. r.method = "HEAD" => sent = 0
        BY <1>7, <1>12
    <2>6. sent \in Nat /\ <<sent>>[1] = sent
        BY <1>12
    <2>7. ~(r.method = "HEAD" /\ f.cl # <<>> /\ f.cl[1] # 0)
        BY <2>4, <2>5, <2>6
    <2>8. LengthSaid(f, r.method, 200, 0) = sent
        BY <1>8, <2>4, <2>5, <2>6 DEF LengthSaid
    <2>9. f.cl = <<>> \/ \E k \in Nat : f.cl = <<k>>
        BY <2>4, <2>6
    <2>10. /\ u.length = sent /\ u.trailer = FALSE /\ u.err = FALSE
           /\ u.close = (r.close \/ sent = -1)
           /\ u.body = IF sent = 0 THEN "none" ELSE IF sent > 0 THEN "length" ELSE "eof"
        <3>1. f.te = <<>> /\ 200 \in Nat /\ FALSE \in BOOLEAN /\ 1 \in {0, 1}
            BY <2>4
        <3>2. r.method # "HEAD" \/ f.cl = <<>> \/ f.cl[1] = 0
            BY <2>7
        <3>3. /\ u.length = sent /\ u.trailer = FALSE /\ u.err = FALSE
              /\ u.close = (RW!shouldClose(1, f.conn) \/ u.length = -1)
              /\ u.body = IF sent = 0 THEN "none" ELSE IF sent > 0 THEN "length" ELSE "eof"
            <4>1. PlainRead(u, f, 1, LengthSaid(f, r.method, 200, 0))
                BY <2>9, <3>1, <3>2, <1>14, RequestLength
            <4> QED
                BY <2>8, <4>1 DEF PlainRead
        <3> QED
            BY <1>6, <3>3
    <2>11. u.close = r.close
        <3>1. sent # -1
            BY <2>6
        <3> QED
            BY <1>1, <2>10, <3>1
    <2>12. b.ok = TRUE /\ b.left = FALSE /\ b.bytes = sent
        <3>1. sent = 0 \/ sent > 0
            BY <2>6
        <3>2. (u.body = "none" /\ sent = 0) \/ (u.body = "length" /\ u.length = sent)
            BY <2>10, <3>1
        <3>3. Complete(u, RW!WireOf(t), sent)
            BY <2>3, <2>6, <3>2, BodyComplete
        <3> QED
            BY <1>15, <3>3 DEF Complete
    <2> QED
        BY <2>4, <2>10, <2>11, <2>12
<1> QED
    BY <1>10, <1>11

\* A Response as Response.Write sends it, and its transferWriter.
LEMMA ResponseWriter ==
    ASSUME NEW r \in RW!ResponseMessage
    PROVE  LET r1 == RW!Closing(RW!Sized(r))
               t == RW!ResponseTransfer(r1)
               c == IF r.contentLength = 0 /\ r.body = "reader" /\ r.size > 0 THEN -1
                    ELSE r.contentLength
           IN  /\ t \in TransferWriter /\ c \in Nat \cup {-1} /\ r1.contentLength = c /\ r1.te = r.te
               /\ t.te = (IF r.method # "HEAD" /\ (r.minor = 0 \/ r.body = "nil") THEN <<>> ELSE r.te)
               /\ t.head = (r.method = "HEAD") /\ t.method = r.method /\ t.size = r.size
               /\ t.close = (r.close \/ (c = -1 /\ r.minor = 1 /\ r.te # <<"chunked">>))
               /\ t.body = (r.body # "nil" /\ r.method # "HEAD")
               /\ t.length = (IF t.te = <<"chunked">> THEN -1
                              ELSE IF r.method # "HEAD" /\ r.body = "nil" THEN 0 ELSE c)
               /\ t.trailer = (IF t.te = <<"chunked">> THEN r.trailer ELSE "none")
<1> DEFINE r0 == RW!Sized(r)
           r1 == RW!Closing(r0)
           t == RW!ResponseTransfer(r1)
           c == IF r.contentLength = 0 /\ r.body = "reader" /\ r.size > 0 THEN -1 ELSE r.contentLength
           te == IF r.method # "HEAD" /\ (r.minor = 0 \/ r.body = "nil") THEN <<>> ELSE r.te
<1>1. /\ r.method \in STRING /\ r.body \in {"nil", "NoBody", "reader"} /\ r.size \in Nat
      /\ r.contentLength \in Nat \cup {-1} /\ r.te \in RW!Encodings /\ r.close \in BOOLEAN
      /\ r.trailer \in {"none", "fields", "bad"} /\ r.minor \in {0, 1}
    BY DEF RW!ResponseMessage, RW!NoLength
<1>2. c \in Nat \cup {-1}
    BY <1>1
<1>3. \A e \in RW!Encodings : RW!chunked(e) = (e = <<"chunked">>)
    BY DEF RW!Encodings, RW!chunked
<1>4. /\ r0.contentLength = c /\ r0.method = r.method /\ r0.minor = r.minor /\ r0.body = r.body
      /\ r0.size = r.size /\ r0.te = r.te /\ r0.close = r.close /\ r0.trailer = r.trailer
      /\ r0 \in RW!ResponseMessage
    <2>1. CASE r.contentLength = 0 /\ r.body = "reader" /\ r.size > 0
        <3>1. r0 = [r EXCEPT !.contentLength = -1] /\ c = -1
            BY <2>1 DEF RW!Sized, RW!NoLength
        <3> HIDE DEF r0, c
        <3> QED
            BY <3>1 DEF RW!ResponseMessage, RW!NoLength
    <2>2. CASE ~(r.contentLength = 0 /\ r.body = "reader" /\ r.size > 0)
        BY <2>2 DEF RW!Sized
    <2> QED
        BY <2>1, <2>2
<1> HIDE DEF r0, c
<1>5. /\ r1.contentLength = c /\ r1.method = r.method /\ r1.minor = r.minor /\ r1.body = r.body
      /\ r1.size = r.size /\ r1.te = r.te /\ r1.trailer = r.trailer
      /\ r1.close = (r.close \/ (c = -1 /\ r.minor = 1 /\ r.te # <<"chunked">>))
    <2>1. CASE c = -1 /\ r.minor = 1 /\ ~RW!chunked(r.te)
        <3>1. r1 = [r0 EXCEPT !.close = TRUE]
            BY <1>4, <2>1 DEF RW!Closing, RW!NoLength
        <3>2. r.te # <<"chunked">>
            BY <1>1, <1>3, <2>1
        <3> HIDE DEF r1
        <3>3. r1.close = TRUE
            BY <1>4, <3>1 DEF RW!ResponseMessage
        <3> QED
            BY <1>4, <2>1, <3>1, <3>2, <3>3 DEF RW!ResponseMessage
    <2>2. CASE ~(c = -1 /\ r.minor = 1 /\ ~RW!chunked(r.te))
        <3>1. r1 = r0
            BY <1>4, <2>2 DEF RW!Closing, RW!NoLength
        <3>2. ~(c = -1 /\ r.minor = 1 /\ r.te # <<"chunked">>)
            BY <1>1, <1>3, <2>2
        <3> HIDE DEF r1
        <3> QED
            BY <1>1, <1>4, <3>1, <3>2
    <2> QED
        BY <2>1, <2>2
<1> HIDE DEF r1
<1>6. te \in RW!Encodings
    BY <1>1 DEF RW!Encodings
<1>7. t = [te |-> te, head |-> r.method = "HEAD", method |-> r.method, close |-> r1.close,
           body |-> r.body # "nil" /\ r.method # "HEAD", size |-> r.size,
           length |-> IF RW!chunked(te) THEN -1
                      ELSE IF r.method # "HEAD" /\ r.body = "nil" THEN 0 ELSE c,
           trailer |-> IF RW!chunked(te) THEN r.trailer ELSE "none"]
    BY <1>5 DEF RW!ResponseTransfer, RW!noResponseBodyExpected, RW!NoLength
<1> HIDE DEF te, t
<1>8. /\ t.te = te /\ t.head = (r.method = "HEAD") /\ t.method = r.method /\ t.close = r1.close
      /\ t.body = (r.body # "nil" /\ r.method # "HEAD") /\ t.size = r.size
      /\ t.length = (IF te = <<"chunked">> THEN -1
                     ELSE IF r.method # "HEAD" /\ r.body = "nil" THEN 0 ELSE c)
      /\ t.trailer = (IF te = <<"chunked">> THEN r.trailer ELSE "none")
    BY <1>3, <1>6, <1>7
<1>9. t \in TransferWriter
    <2>1. /\ (IF RW!chunked(te) THEN -1
              ELSE IF r.method # "HEAD" /\ r.body = "nil" THEN 0 ELSE c) \in Nat \cup {-1}
          /\ (IF RW!chunked(te) THEN r.trailer ELSE "none") \in {"none", "fields", "bad"}
        BY <1>1, <1>2
    <2>2. (r.body # "nil" /\ r.method # "HEAD") \in BOOLEAN /\ (r.method = "HEAD") \in BOOLEAN
        OBVIOUS
    <2>3. r1.close \in BOOLEAN
        BY <1>5
    <2> QED
        BY <1>1, <1>6, <1>7, <2>1, <2>2, <2>3 DEF TransferWriter
<1> QED
    BY <1>2, <1>5, <1>8, <1>9 DEF te, c, t, r1, r0

LEMMA ResponsesAreRead ==
    ASSUME NEW r \in RW!ResponseMessage
    PROVE  RW!ResponseArrives(r)
<1> DEFINE r1 == RW!Closing(RW!Sized(r))
           t == RW!ResponseTransfer(r1)
           c == IF r.contentLength = 0 /\ r.body = "reader" /\ r.size > 0 THEN -1 ELSE r.contentLength
           f == RW!TransferFields(t)
           zero == /\ r1.contentLength = 0 /\ ~RW!chunked(r1.te)
                   /\ ~RW!shouldSendContentLength(t) /\ RW!bodyAllowedForStatus(r.status)
           g == IF zero THEN [f EXCEPT !.cl = <<0>>] ELSE f
           head == [status |-> r.status, minor |-> r.minor, fields |-> g]
           w == RW!WriteResponse(r)
           u == RW!readTransfer(TRUE, r.status, r.method, r.minor, g)
           b == RW!ReadBody(u, RW!WireOf(t))
           none == r.method = "HEAD" \/ r.body # "reader"
           closes == c = -1 /\ r.minor = 1 /\ r.te # <<"chunked">>
<1>1. /\ r.method \in STRING /\ r.body \in {"nil", "NoBody", "reader"} /\ r.size \in Nat
      /\ r.contentLength \in Nat \cup {-1} /\ r.te \in RW!Encodings /\ r.close \in BOOLEAN
      /\ r.trailer \in {"none", "fields", "bad"} /\ r.minor \in {0, 1} /\ r.status \in Nat
      /\ r.size > 0 => r.body = "reader"
    BY DEF RW!ResponseMessage, RW!NoLength
<1>2. /\ t \in TransferWriter /\ c \in Nat \cup {-1} /\ r1.contentLength = c /\ r1.te = r.te
      /\ t.te = (IF r.method # "HEAD" /\ (r.minor = 0 \/ r.body = "nil") THEN <<>> ELSE r.te)
      /\ t.head = (r.method = "HEAD") /\ t.method = r.method /\ t.size = r.size
      /\ t.close = (r.close \/ closes)
      /\ t.body = (r.body # "nil" /\ r.method # "HEAD")
      /\ t.length = (IF t.te = <<"chunked">> THEN -1
                     ELSE IF r.method # "HEAD" /\ r.body = "nil" THEN 0 ELSE c)
      /\ t.trailer = (IF t.te = <<"chunked">> THEN r.trailer ELSE "none")
    BY ResponseWriter
<1>3. /\ w.head = head /\ w.wire = RW!WireOf(t)
      /\ ~w.err => ~RW!TransferBody(t).err
    <2>1. w = [err |-> t.trailer = "bad" \/ RW!TransferBody(t).err, head |-> head, wire |-> RW!WireOf(t)]
        BY DEF RW!Written, RW!WriteResponse
    <2> HIDE DEF t, head, w
    <2>2. w.err = (t.trailer = "bad" \/ RW!TransferBody(t).err)
        BY <2>1
    <2> QED
        BY <2>1, <2>2
<1> HIDE DEF t, w, r1
<1>4. /\ f.te = (IF t.te = <<"chunked">> THEN <<"chunked">> ELSE <<>>)
      /\ f.conn = (IF r.close \/ closes THEN {"close"} ELSE {})
      /\ f.trailer = (t.trailer = "fields")
      /\ f.cl = IF RW!shouldSendContentLength(t) THEN <<t.length>> ELSE <<>>
    <2>1. RW!chunked(t.te) = (t.te = <<"chunked">>)
        BY <1>2, TransferWritten DEF RW!chunked
    <2>2. f = [cl |-> IF RW!shouldSendContentLength(t) THEN <<t.length>> ELSE <<>>,
               te |-> IF RW!chunked(t.te) THEN <<"chunked">> ELSE <<>>,
               conn |-> IF t.close THEN {"close"} ELSE {},
               trailer |-> t.trailer = "fields"]
        BY DEF RW!TransferFields
    <2> HIDE DEF f, closes
    <2> QED
        BY <1>2, <2>1, <2>2
<1>5. /\ RW!shouldSendContentLength(t) => t.length \in Nat /\ t.te # <<"chunked">>
      /\ t.te # <<"chunked">> /\ t.length > 0 => RW!shouldSendContentLength(t)
    <2>1. RW!chunked(t.te) = (t.te = <<"chunked">>)
        BY <1>2, TransferWritten DEF RW!chunked
    <2>2. RW!shouldSendContentLength(t) => ~RW!chunked(t.te) /\ t.length >= 0
        BY DEF RW!shouldSendContentLength
    <2>3. ~RW!chunked(t.te) /\ t.length >= 0 /\ t.length > 0 => RW!shouldSendContentLength(t)
        BY DEF RW!shouldSendContentLength
    <2>4. (t.length > 0 => t.length >= 0) /\ (t.length >= 0 => t.length \in Nat)
        <3>1. t.length \in Nat \cup {-1}
            BY <1>2 DEF TransferWriter
        <3> QED
            BY <3>1
    <2> QED
        BY <2>1, <2>2, <2>3, <2>4
<1>6. zero <=> /\ c = 0 /\ r.te # <<"chunked">> /\ ~RW!shouldSendContentLength(t)
               /\ RW!bodyAllowedForStatus(r.status)
    <2>1. RW!chunked(r.te) = (r.te = <<"chunked">>)
        BY <1>1 DEF RW!Encodings, RW!chunked
    <2> QED
        BY <1>2, <2>1
<1> HIDE DEF zero
<1>7. /\ g.te = f.te /\ g.conn = f.conn /\ g.trailer = f.trailer
      /\ g.cl = IF zero THEN <<0>> ELSE f.cl
    <2>1. f = [cl |-> f.cl, te |-> f.te, conn |-> f.conn, trailer |-> f.trailer]
        BY DEF RW!TransferFields
    <2>2. zero => g = [f EXCEPT !.cl = <<0>>]
        OBVIOUS
    <2>3. ~zero => g = f
        OBVIOUS
    <2> HIDE DEF f, g
    <2> QED
        BY <2>1, <2>2, <2>3
<1> HIDE DEF f, g
<1>8. SUFFICES ASSUME ~w.err, RW!bodyAllowedForStatus(r.status) \/ (none /\ r.te = <<>>),
                      ~(r.method = "HEAD" /\ r.te = <<"chunked">>)
      PROVE  /\ u.err = FALSE /\ b.ok = TRUE /\ b.left = FALSE
             /\ b.bytes = (IF none THEN 0 ELSE r.size)
             /\ r.close => u.close
             /\ u.body = "eof" /\ ~RW!Unclosed(r) => RW!shouldClose(r.minor, g.conn)
    <2>1. RW!ReadResponse(head, r.method) = u
        BY DEF RW!ReadResponse
    <2>2. head.fields = g
        OBVIOUS
    <2>3. RW!chunked(r.te) = (r.te = <<"chunked">>)
        BY <1>1 DEF RW!Encodings, RW!chunked
    <2> HIDE DEF head, u, none
    <2>4. RW!ResponseArrives(r) <=>
            (~w.err /\ (RW!bodyAllowedForStatus(r.status) \/ (none /\ r.te = <<>>))
                    /\ ~(r.method = "HEAD" /\ RW!chunked(r.te)) =>
                /\ ~RW!ReadResponse(w.head, r.method).err
                /\ RW!ReadBody(RW!ReadResponse(w.head, r.method), w.wire).ok
                /\ (~RW!ReadResponse(w.head, r.method).close
                        => ~RW!ReadBody(RW!ReadResponse(w.head, r.method), w.wire).left)
                /\ RW!ReadBody(RW!ReadResponse(w.head, r.method), w.wire).bytes
                        = (IF none THEN 0 ELSE r.size)
                /\ r.close => RW!ReadResponse(w.head, r.method).close
                /\ RW!ReadResponse(w.head, r.method).body = "eof" /\ ~RW!Unclosed(r)
                        => RW!shouldClose(r.minor, w.head.fields.conn))
        BY DEF RW!ResponseArrives, w, none
    <2>5. RW!ResponseArrives(r) <=>
            (~w.err /\ (RW!bodyAllowedForStatus(r.status) \/ (none /\ r.te = <<>>))
                    /\ ~(r.method = "HEAD" /\ RW!chunked(r.te)) =>
                /\ ~u.err /\ b.ok /\ (~u.close => ~b.left)
                /\ b.bytes = (IF none THEN 0 ELSE r.size)
                /\ r.close => u.close
                /\ u.body = "eof" /\ ~RW!Unclosed(r) => RW!shouldClose(r.minor, g.conn))
        BY <1>3, <2>1, <2>2, <2>4
    <2> HIDE DEF b
    <2> QED
        BY <2>3, <2>5
<1>9. u = RW!readTransfer(TRUE, r.status, r.method, r.minor, g)
    OBVIOUS
<1>10. /\ b.ok = RW!ReadBody(u, RW!WireOf(t)).ok /\ b.left = RW!ReadBody(u, RW!WireOf(t)).left
       /\ b.bytes = RW!ReadBody(u, RW!WireOf(t)).bytes
    OBVIOUS
<1>11. /\ r.size = 0 \/ r.size > 0
       /\ (IF none THEN 0 ELSE r.size) = (IF r.method = "HEAD" THEN 0 ELSE r.size)
       /\ <<>> # <<"chunked">>
    BY <1>1
<1>12. (IF none THEN 0 ELSE r.size) \in Nat
    BY <1>1
<1>13. /\ r.close \/ closes <=> "close" \in g.conn
       /\ "keep-alive" \notin g.conn
    BY <1>4, <1>7
<1>14. RW!shouldClose(r.minor, g.conn) = (r.close \/ closes \/ r.minor = 0)
    BY <1>1, <1>13 DEF RW!shouldClose
<1> HIDE DEF closes, u, b
<1>15. CASE t.te = <<"chunked">>
    <2>1. r.method # "HEAD" /\ r.minor = 1 /\ r.body # "nil" /\ r.te = <<"chunked">> /\ r.te # <<>>
        BY <1>1, <1>2, <1>8, <1>11, <1>15
    <2>2. RW!bodyAllowedForStatus(r.status)
        BY <1>8, <2>1
    <2>3. g.te = <<"chunked">> /\ g.cl = <<>>
        BY <1>4, <1>5, <1>6, <1>7, <1>15, <2>1
    <2>4. u.err = FALSE /\ u.close = RW!shouldClose(1, g.conn) /\ u.body = "chunked"
        <3>1. TRUE \in BOOLEAN
            OBVIOUS
        <3>2. ChunkedRead(u, g)
            BY <1>1, <1>9, <2>1, <2>2, <2>3, <3>1, ChunksRead
        <3> QED
            BY <3>2 DEF ChunkedRead
    <2>5. t.body = TRUE
        BY <1>2, <2>1
    <2>6. ChunkedWire(RW!WireOf(t), r.size)
        BY <1>2, <1>15, <2>5, TransferWritten
    <2>7. b.ok = TRUE /\ b.left = FALSE /\ b.bytes = r.size
        <3>1. Complete(u, RW!WireOf(t), r.size)
            BY <1>1, <2>4, <2>6, BodyComplete
        <3> QED
            BY <1>10, <3>1 DEF Complete
    <2>8. r.close => u.close
        BY <1>14, <2>1, <2>4
    <2> QED
        BY <1>11, <2>1, <2>4, <2>7, <2>8
<1>16. CASE t.te # <<"chunked">>
    <2> DEFINE l == LengthSaid(g, r.method, r.status, -1)
               n == IF ~t.body THEN 0 ELSE IF t.length = -1 THEN t.size
                    ELSE RW!MinOf(t.size, t.length)
    <2>1. g.te = <<>> /\ (g.cl = <<>> \/ \E k \in Nat : g.cl = <<k>>)
        BY <1>4, <1>5, <1>7, <1>16
    <2>2. PlainRead(u, g, r.minor, l)
        BY <1>1, <1>9, <2>1, ResponseLength
    <2>3. RawWire(RW!WireOf(t), n)
        BY <1>2, <1>16, TransferWritten
    <2>4. ~t.head => t.length = -1 \/ t.length = (IF t.body THEN t.size ELSE 0)
        BY <1>2, <1>3, <1>8, TransferWritten
    <2>5. r.close => u.close
        BY <1>14, <2>2 DEF PlainRead
    <2>6. n \in Nat /\ n = (IF r.method = "HEAD" THEN 0 ELSE r.size)
        <3>1. CASE ~t.body
            <4>1. r.method = "HEAD" \/ r.size = 0
                BY <1>1, <1>2, <1>11, <3>1
            <4> QED
                BY <1>1, <3>1, <4>1
        <3>2. CASE t.body
            <4>1. r.method # "HEAD" /\ t.size = r.size /\ (t.length = -1 \/ t.length = r.size)
                BY <1>2, <2>4, <3>2
            <4>2. RW!MinOf(r.size, r.size) = r.size
                BY DEF RW!MinOf
            <4> QED
                BY <1>1, <3>2, <4>1, <4>2
        <3> QED
            BY <3>1, <3>2
    <2>7. /\ t.length \in Nat \cup {-1} /\ \A k \in Nat : k # -1
          /\ t.length = (IF r.method # "HEAD" /\ r.body = "nil" THEN 0 ELSE c)
          /\ r.method # "HEAD" /\ t.length # -1 => t.length = r.size
        <3>1. t.length \in Nat \cup {-1}
            BY <1>2 DEF TransferWriter
        <3>2. \A k \in Nat : k # -1
            OBVIOUS
        <3>3. ASSUME r.method # "HEAD", t.length # -1 PROVE t.length = r.size
            <4>1. t.length = (IF t.body THEN t.size ELSE 0)
                BY <1>2, <2>4, <3>3
            <4> QED
                BY <1>1, <1>2, <1>11, <3>3, <4>1
        <3> QED
            BY <1>2, <1>16, <3>1, <3>2, <3>3
    <2>8. l = 0 \/ l = n \/ l = -1
        <3>1. CASE r.method = "HEAD" \/ ~RW!bodyAllowedForStatus(r.status)
            BY <3>1 DEF LengthSaid
        <3>2. CASE r.method # "HEAD" /\ RW!bodyAllowedForStatus(r.status)
            <4>1. l = IF g.cl # <<>> THEN g.cl[1] ELSE -1
                BY <3>2 DEF LengthSaid
            <4>2. CASE zero
                BY <1>7, <4>1, <4>2
            <4>3. CASE ~zero /\ RW!shouldSendContentLength(t)
                <5>1. g.cl = <<t.length>> /\ t.length = r.size
                    BY <1>4, <1>5, <1>7, <2>7, <3>2, <4>3
                <5> QED
                    BY <2>6, <3>2, <4>1, <5>1
            <4>4. CASE ~zero /\ ~RW!shouldSendContentLength(t)
                BY <1>4, <1>7, <4>1, <4>4
            <4> QED
                BY <4>2, <4>3, <4>4
        <3> QED
            BY <3>1, <3>2
    <2>9. l = 0 => n = 0
        <3> SUFFICES ASSUME l = 0 PROVE n = 0
            OBVIOUS
        <3>1. CASE r.method = "HEAD"
            BY <2>6, <3>1
        <3>2. CASE r.method # "HEAD" /\ ~RW!bodyAllowedForStatus(r.status)
            BY <1>1, <1>8, <1>11, <2>6, <3>2
        <3>3. CASE r.method # "HEAD" /\ RW!bodyAllowedForStatus(r.status)
            <4>1. 0 # -1 /\ 0 = IF g.cl # <<>> THEN g.cl[1] ELSE -1
                BY <3>3 DEF LengthSaid
            <4>2. CASE zero
                <5>1. t.length = 0
                    BY <1>6, <2>7, <4>2
                <5> QED
                    BY <2>6, <2>7, <3>3, <4>1, <5>1
            <4>3. CASE ~zero /\ RW!shouldSendContentLength(t)
                <5>1. g.cl = <<t.length>> /\ t.length = r.size
                    BY <1>4, <1>5, <1>7, <2>7, <3>3, <4>3
                <5> QED
                    BY <2>6, <3>3, <4>1, <5>1
            <4>4. CASE ~zero /\ ~RW!shouldSendContentLength(t)
                BY <1>4, <1>7, <4>1, <4>4
            <4> QED
                BY <4>2, <4>3, <4>4
        <3> QED
            BY <3>1, <3>2, <3>3
    <2>10. l = -1 => r.method # "HEAD" /\ (RW!Unclosed(r) \/ r.minor = 0 \/ closes)
        <3> SUFFICES ASSUME l = -1 PROVE r.method # "HEAD" /\ (RW!Unclosed(r) \/ r.minor = 0 \/ closes)
            OBVIOUS
        <3>1. r.method # "HEAD" /\ RW!bodyAllowedForStatus(r.status)
            <4>1. 0 # -1
                OBVIOUS
            <4> QED
                BY <4>1 DEF LengthSaid
        <3>2. -1 = IF g.cl # <<>> THEN g.cl[1] ELSE -1
            BY <3>1 DEF LengthSaid
        <3>3. ~zero /\ ~RW!shouldSendContentLength(t)
            <4>1. ~zero
                <5>1. zero => g.cl = <<0>>
                    BY <1>7
                <5>2. <<0>> # <<>> /\ <<0>>[1] = 0 /\ 0 # -1
                    OBVIOUS
                <5> QED
                    BY <3>2, <5>1, <5>2
            <4>2. RW!shouldSendContentLength(t) => g.cl = <<t.length>> /\ t.length \in Nat
                BY <1>4, <1>5, <1>7, <4>1
            <4>3. <<t.length>> # <<>> /\ <<t.length>>[1] = t.length
                OBVIOUS
            <4>4. t.length \in Nat => t.length # -1
                BY <2>7
            <4> QED
                BY <3>2, <4>1, <4>2, <4>3, <4>4
        <3>4. t.length = 0 \/ t.length = -1
            <4>1. ~(t.length > 0)
                BY <1>5, <1>16, <3>3
            <4> QED
                BY <2>7, <4>1
        <3>5. c = 0 => r.te = <<"chunked">>
            BY <1>6, <3>1, <3>3
        <3>6. r.te = <<"chunked">> => r.minor = 0 \/ r.body = "nil"
            BY <1>2, <1>16
        <3>7. CASE r.minor = 0
            BY <3>1, <3>7
        <3>8. CASE r.minor = 1 /\ r.body # "nil"
            <4>1. r.te # <<"chunked">> /\ c = -1
                <5>1. t.length = c /\ 0 # -1
                    BY <2>7, <3>8
                <5>2. r.te # <<"chunked">>
                    BY <3>6, <3>8
                <5> QED
                    BY <3>4, <3>5, <5>1, <5>2
            <4> QED
                BY <3>1, <3>8, <4>1 DEF closes
        <3>9. CASE r.minor = 1 /\ r.body = "nil"
            <4>1. RW!Unclosed(r) <=> RW!chunked(r.te) \/ r.contentLength > 0
                BY <3>9 DEF RW!Unclosed, RW!chunked
            <4>2. RW!chunked(r.te) = (r.te = <<"chunked">>)
                BY <1>1 DEF RW!Encodings, RW!chunked
            <4>3. c = r.contentLength
                BY <3>9 DEF c
            <4>4. CASE r.te = <<"chunked">>
                BY <3>1, <4>1, <4>2, <4>4
            <4>5. CASE r.te # <<"chunked">> /\ c = -1
                BY <3>1, <3>9, <4>5 DEF closes
            <4>6. CASE r.te # <<"chunked">> /\ c # -1
                <5>1. c # 0
                    BY <3>5, <4>6
                <5>2. r.contentLength > 0
                    BY <1>1, <4>3, <4>6, <5>1
                <5> QED
                    BY <3>1, <4>1, <5>2
            <4> QED
                BY <4>4, <4>5, <4>6
        <3> QED
            BY <1>1, <3>7, <3>8, <3>9
    <2> HIDE DEF l, n
    <2>11. /\ u.err = FALSE /\ u.length = l
           /\ u.body = IF l = 0 THEN "none" ELSE IF l > 0 THEN "length" ELSE "eof"
        BY <2>2 DEF PlainRead
    <2>12. b.ok = TRUE /\ b.left = FALSE /\ b.bytes = n
        <3>1. CASE l = 0
            <4>1. u.body = "none" /\ n = 0
                BY <2>9, <2>11, <3>1
            <4>2. Complete(u, RW!WireOf(t), n)
                BY <2>3, <2>6, <4>1, BodyComplete
            <4> QED
                BY <1>10, <4>2 DEF Complete
        <3>2. CASE l = n /\ l # 0
            <4>1. u.body = "length" /\ u.length = n
                BY <2>6, <2>11, <3>2
            <4>2. Complete(u, RW!WireOf(t), n)
                BY <2>3, <2>6, <4>1, BodyComplete
            <4> QED
                BY <1>10, <4>2 DEF Complete
        <3>3. CASE l = -1
            <4>1. u.body = "eof"
                <5>1. -1 # 0 /\ ~(-1 > 0)
                    OBVIOUS
                <5> QED
                    BY <2>11, <3>3, <5>1
            <4>2. Complete(u, RW!WireOf(t), n)
                BY <2>3, <2>6, <4>1, BodyComplete
            <4> QED
                BY <1>10, <4>2 DEF Complete
        <3> QED
            BY <2>8, <3>1, <3>2, <3>3
    <2>13. u.body = "eof" => l = -1
        <3>1. l = n => l = 0 \/ l > 0
            BY <2>6
        <3> QED
            BY <2>8, <2>11, <3>1
    <2>14. u.body = "eof" /\ ~RW!Unclosed(r) => RW!shouldClose(r.minor, g.conn)
        BY <1>14, <2>10, <2>13
    <2>15. n = (IF none THEN 0 ELSE r.size)
        BY <1>11, <2>6
    <2> QED
        BY <2>5, <2>11, <2>12, <2>14, <2>15
<1> QED
    BY <1>15, <1>16

\* What Request.Write and Response.Write put on the wire without an error is
\* read back by readRequest and ReadResponse as it was meant, with nothing of
\* it left over: for messages of any size, length, status and method, so long
\* as the encoding asked for is one of those transfer.go knows.
THEOREM MessagesAreRead == MCSpec => []MessagesArrive
<1> DEFINE Inv == which = "message" => msg \in Messages
<1>1. MCInit => Inv
    BY DEF MCInit
<1>2. Inv /\ [MCNext]_mcVars => Inv'
    BY DEF MCNext, TimeoutStep, Timeout, MuxStep, ReplyStep, LogStep, mcVars
<1>3. Inv => MessagesArrive
    <2> SUFFICES ASSUME Inv, which = "message"
                 PROVE  IF msg.kind = "request" THEN RW!RequestArrives(msg) ELSE RW!ResponseArrives(msg)
        BY DEF MessagesArrive
    <2>1. msg \in RW!RequestMessage \/ msg \in RW!ResponseMessage
        BY MessagesAssumption
    <2>2. CASE msg \in RW!RequestMessage
        <3>1. msg.kind = "request"
            BY <2>2 DEF RW!RequestMessage
        <3> QED
            BY <2>2, <3>1, RequestsAreRead
    <2>3. CASE msg \in RW!ResponseMessage
        <3>1. msg.kind = "response"
            BY <2>3 DEF RW!ResponseMessage
        <3> QED
            BY <2>3, <3>1, ResponsesAreRead
    <2> QED
        BY <2>1, <2>2, <2>3
<1> QED
    BY <1>1, <1>2, <1>3, PTL DEF MCSpec
-----------------------------------------------------------------------------
(* The reply of a handler, framed.                                         *)

Heads == [cl : {<<>>} \cup {<<n>> : n \in Nat}, te : {<<>>, <<"chunked">>},
          conn : SUBSET {"close", "keep-alive"}, trailer : BOOLEAN]

Wires == [raw : Nat, chunks : Seq(Nat \ {0}), last : {FALSE}]

\* What a step of the code works on, before the last chunk.
Writers ==
    [contentLength : Nat \cup {-1}, close : BOOLEAN, buffered : 0..BufSize,
     cw : [wroteHeader : BOOLEAN, chunking : BOOLEAN], done : BOOLEAN,
     wire : Wires, head : Heads]

Bodiless == x.method = "HEAD" \/ ~RW!bodyAllowed

\* The header sent is the one for this length.
HeadSent(w) ==
    /\ w.close = RW!CloseAfter([contentLength |-> w.contentLength, close |-> FALSE])
    /\ w.head = RW!HeadOf([contentLength |-> w.contentLength], w.close)
    /\ w.cw.chunking = RW!Chunking([contentLength |-> w.contentLength])

\* Of a bytes taken, those that are not in the buffer are on the wire.
BodySent(w, a) ==
    IF Bodiless THEN w.wire.raw = 0 /\ w.wire.chunks = <<>>
    ELSE IF w.cw.chunking THEN w.wire.raw = 0 /\ RW!SumOf(w.wire.chunks) + w.buffered = a
    ELSE w.wire.chunks = <<>> /\ w.wire.raw + w.buffered = a

Framing(w, a) ==
    /\ w \in Writers /\ a \in Nat
    /\ IF w.cw.wroteHeader THEN HeadSent(w)
       ELSE ~w.close /\ ~w.cw.chunking /\ w.buffered = a /\ w.wire.raw = 0 /\ w.wire.chunks = <<>>
    /\ ~RW!bodyAllowed => a = 0 /\ w.buffered = 0
    /\ BodySent(w, a)

\* w became v, which has sent its header; only a reply that is done may get
\* its length from the first bytes sent.
HeaderGone(w, v) ==
    /\ v.cw.wroteHeader /\ v.done = w.done
    /\ ~w.done \/ w.cw.wroteHeader => v.contentLength = w.contentLength

LEMMA HeadType ==
    ASSUME x \in RW!Exchange, NEW n \in Nat \cup {-1}, NEW closes \in BOOLEAN
    PROVE  RW!HeadOf([contentLength |-> n], closes) \in Heads
<1>1. x.conn \in {{}, {"close"}, {"keep-alive"}} /\ x.trailers \in BOOLEAN
    BY DEF RW!Exchange
<1>2. x.conn \in SUBSET {"close", "keep-alive"}
    BY <1>1
<1> DEFINE H == RW!HeadOf([contentLength |-> n], closes)
<1>4. H = [cl |-> H.cl, te |-> H.te, conn |-> H.conn, trailer |-> H.trailer]
    BY DEF RW!HeadOf
<1>5. H.cl \in {<<>>} \cup {<<i>> : i \in Nat}
    BY DEF RW!HeadOf, RW!NoLength
<1>6. H.te \in {<<>>, <<"chunked">>}
    BY DEF RW!HeadOf
<1>7. H.conn \in SUBSET {"close", "keep-alive"}
    BY <1>2 DEF RW!HeadOf
<1>8. H.trailer \in BOOLEAN
    BY <1>1 DEF RW!HeadOf
<1> HIDE DEF H
<1> QED
    BY <1>4, <1>5, <1>6, <1>7, <1>8 DEF Heads, H

LEMMA WriterFields ==
    ASSUME NEW w \in Writers
    PROVE  /\ w = [contentLength |-> w.contentLength, close |-> w.close, buffered |-> w.buffered,
                   cw |-> [wroteHeader |-> w.cw.wroteHeader, chunking |-> w.cw.chunking],
                   done |-> w.done,
                   wire |-> [raw |-> w.wire.raw, chunks |-> w.wire.chunks, last |-> w.wire.last],
                   head |-> w.head]
           /\ w.contentLength \in Nat \cup {-1} /\ w.close \in BOOLEAN /\ w.buffered \in 0..BufSize
           /\ w.cw.wroteHeader \in BOOLEAN /\ w.cw.chunking \in BOOLEAN /\ w.done \in BOOLEAN
           /\ w.wire.raw \in Nat /\ w.wire.chunks \in Seq(Nat \ {0}) /\ w.wire.last = FALSE
           /\ w.head \in Heads /\ BufSize \in Nat \ {0}
<1>1. BufSize \in Nat \ {0}
    BY BoundsAssumption DEF RW!WriterAssumption
<1>2. w.cw = [wroteHeader |-> w.cw.wroteHeader, chunking |-> w.cw.chunking]
      /\ w.wire = [raw |-> w.wire.raw, chunks |-> w.wire.chunks, last |-> w.wire.last]
    BY DEF Writers, Wires
<1>3. w = [contentLength |-> w.contentLength, close |-> w.close, buffered |-> w.buffered,
           cw |-> w.cw, done |-> w.done, wire |-> w.wire, head |-> w.head]
    BY DEF Writers, Wires
<1>4. w.contentLength \in Nat \cup {-1} /\ w.close \in BOOLEAN /\ w.buffered \in 0..BufSize
      /\ w.cw.wroteHeader \in BOOLEAN /\ w.cw.chunking \in BOOLEAN /\ w.done \in BOOLEAN
      /\ w.wire.raw \in Nat /\ w.wire.chunks \in Seq(Nat \ {0}) /\ w.wire.last = FALSE
      /\ w.head \in Heads
    BY DEF Writers, Wires
<1> QED
    BY ONLY <1>1, <1>2, <1>3, <1>4

\* chunkWriter.writeHeader
LEMMA PhysicalKeeps ==
    ASSUME x \in RW!Exchange, NEW w, NEW a, Framing(w, a), NEW p \in Nat
    PROVE  LET v == RW!PhysicalHeader(w, p)
           IN  /\ Framing(v, a) /\ HeaderGone(w, v)
               /\ v.buffered = w.buffered /\ v.wire = w.wire
               /\ ~w.cw.wroteHeader /\ RW!AutoLength(w, p) => v.contentLength = p
               /\ ~(~w.cw.wroteHeader /\ RW!AutoLength(w, p)) => v.contentLength = w.contentLength
<1> DEFINE v == RW!PhysicalHeader(w, p)
<1>1. CASE w.cw.wroteHeader
    <2>1. v = w
        BY <1>1 DEF RW!PhysicalHeader
    <2> QED
        BY <1>1, <2>1 DEF HeaderGone
<1>2. CASE ~w.cw.wroteHeader
    <2> DEFINE n == IF RW!AutoLength(w, p) THEN p ELSE w.contentLength
               c == RW!CloseAfter([contentLength |-> n, close |-> FALSE])
               k == RW!Chunking([contentLength |-> n])
               hd == RW!HeadOf([contentLength |-> n], c)
               u == [contentLength |-> n, close |-> c, buffered |-> w.buffered,
                     cw |-> [wroteHeader |-> TRUE, chunking |-> k], done |-> w.done,
                     wire |-> [raw |-> w.wire.raw, chunks |-> w.wire.chunks, last |-> FALSE],
                     head |-> hd]
    <2>1. w \in Writers /\ a \in Nat /\ w.close = FALSE /\ w.cw.chunking = FALSE
          /\ w.buffered = a /\ w.wire.raw = 0 /\ w.wire.chunks = <<>>
          /\ (~RW!bodyAllowed => a = 0 /\ w.buffered = 0)
          /\ w.wire = [raw |-> w.wire.raw, chunks |-> w.wire.chunks, last |-> FALSE]
          /\ w.buffered \in 0..BufSize /\ w.done \in BOOLEAN
          /\ w.wire.raw \in Nat /\ w.wire.chunks \in Seq(Nat \ {0})
        <3>1. w \in Writers /\ a \in Nat /\ ~w.close /\ ~w.cw.chunking
              /\ w.buffered = a /\ w.wire.raw = 0 /\ w.wire.chunks = <<>>
              /\ (~RW!bodyAllowed => a = 0 /\ w.buffered = 0)
            BY <1>2 DEF Framing
        <3>2. w.wire = [raw |-> w.wire.raw, chunks |-> w.wire.chunks, last |-> FALSE]
            BY <3>1 DEF Writers, Wires
        <3> QED
            BY <3>1, <3>2, WriterFields
    <2>2. n \in Nat \cup {-1} /\ c \in BOOLEAN /\ k \in BOOLEAN
        BY <2>1, WriterFields DEF RW!CloseAfter, RW!Chunking
    <2>3. hd \in Heads
        <3> HIDE DEF n, c
        <3> QED
            BY <2>2, HeadType
    <2>4. u \in Writers
        <3> HIDE DEF n, c, k, hd
        <3> QED
            BY <2>1, <2>2, <2>3 DEF Writers, Wires
    <2>5. v = u
        <3> DEFINE w1 == IF RW!AutoLength(w, p) THEN [w EXCEPT !.contentLength = p] ELSE w
        <3>1. w1 = [contentLength |-> n, close |-> FALSE, buffered |-> w.buffered,
                    cw |-> w.cw, done |-> w.done, wire |-> w.wire, head |-> w.head]
            BY <2>1 DEF Writers, Wires
        <3>2. v = [w1 EXCEPT !.close = RW!CloseAfter(w1), !.head = RW!HeadOf(w1, RW!CloseAfter(w1)),
                             !.cw = [wroteHeader |-> TRUE, chunking |-> RW!Chunking(w1)]]
            BY <1>2 DEF RW!PhysicalHeader
        <3>3. w1.contentLength = n /\ w1.close = FALSE
            BY <3>1
        <3> HIDE DEF w1, n
        <3>4. RW!Chunking(w1) = k
            BY <3>3 DEF RW!Chunking
        <3>5. RW!CloseAfter(w1) = c
            BY <3>3 DEF RW!CloseAfter
        <3> HIDE DEF c, k
        <3>6. RW!HeadOf(w1, c) = hd
            <4>1. RW!Chunking(w1) = RW!Chunking([contentLength |-> n])
                BY <3>4 DEF k
            <4> QED
                BY <3>3, <4>1 DEF RW!HeadOf
        <3> HIDE DEF hd
        <3>7. w.wire = [raw |-> w.wire.raw, chunks |-> w.wire.chunks, last |-> FALSE]
            BY <2>1
        <3>8. [w1 EXCEPT !.close = c, !.head = hd, !.cw = [wroteHeader |-> TRUE, chunking |-> k]]
              = [contentLength |-> n, close |-> c, buffered |-> w.buffered,
                 cw |-> [wroteHeader |-> TRUE, chunking |-> k], done |-> w.done,
                 wire |-> w.wire, head |-> hd]
            <4> DEFINE cw1 == [wroteHeader |-> TRUE, chunking |-> k]
                       w2 == [w1 EXCEPT !.close = c]
                       w3 == [w2 EXCEPT !.head = hd]
                       w4 == [w3 EXCEPT !.cw = cw1]
            <4>1. w2 = [contentLength |-> n, close |-> c, buffered |-> w.buffered, cw |-> w.cw,
                        done |-> w.done, wire |-> w.wire, head |-> w.head]
                BY <3>1
            <4>2. [w1 EXCEPT !.close = c, !.head = hd, !.cw = [wroteHeader |-> TRUE, chunking |-> k]]
                  = w4
                OBVIOUS
            <4> HIDE DEF w2, cw1
            <4>3. w3 = [contentLength |-> n, close |-> c, buffered |-> w.buffered, cw |-> w.cw,
                        done |-> w.done, wire |-> w.wire, head |-> hd]
                BY <4>1
            <4> HIDE DEF w3
            <4>4. w4 = [contentLength |-> n, close |-> c, buffered |-> w.buffered,
                        cw |-> cw1, done |-> w.done, wire |-> w.wire, head |-> hd]
                BY <4>3
            <4> HIDE DEF w4
            <4> QED
                BY <4>2, <4>4 DEF cw1
        <3> QED
            BY <3>2, <3>4, <3>5, <3>6, <3>7, <3>8
    <2>6. u.contentLength = n /\ u.close = c /\ u.buffered = w.buffered /\ u.cw.wroteHeader = TRUE
          /\ u.cw.chunking = k /\ u.done = w.done /\ u.head = hd
          /\ u.wire = [raw |-> w.wire.raw, chunks |-> w.wire.chunks, last |-> FALSE]
          /\ u.wire.raw = w.wire.raw /\ u.wire.chunks = w.wire.chunks
        OBVIOUS
    <2>7. HeadSent(u)
        <3> HIDE DEF u, n
        <3> QED
            BY <2>6 DEF HeadSent
    <2>8. BodySent(u, a)
        <3> HIDE DEF u, n, k, c, hd
        <3>1. RW!SumOf(<<>>) + a = a
            BY <2>1, SumOfOne
        <3> QED
            BY <2>1, <2>6, <3>1 DEF BodySent
    <2>9. Framing(u, a)
        <3> HIDE DEF u, n, k, c, hd
        <3> QED
            BY <2>1, <2>4, <2>6, <2>7, <2>8 DEF Framing
    <2>10. w.wire = u.wire
        BY ONLY <2>1, <2>6
    <2>11. ~w.done => ~RW!AutoLength(w, p)
        BY DEF RW!AutoLength
    <2> HIDE DEF u, c, k, hd
    <2> QED
        BY <1>2, <2>5, <2>6, <2>9, <2>10, <2>11 DEF HeaderGone
<1> QED
    BY <1>1, <1>2

LEMMA Sizes == BufSize \in Nat \ {0} /\ SniffLen \in Nat \ {0} /\ MaxBody \in Nat
BY BoundsAssumption DEF RW!WriterAssumption

LEMMA SumOfAppend ==
    ASSUME NEW s \in Seq(Nat \ {0})
    PROVE  /\ RW!SumOf(s) \in Nat
           /\ \A n \in Nat \ {0} : RW!SumOf(Append(s, n)) = RW!SumOf(s) + n
<1>1. s \in Seq(Nat)
    OBVIOUS
<1>2. RW!SumOf(s) = RunningSums(s)[Len(s)] /\ RW!SumOf(s) \in Nat
    BY <1>1, SumIs
<1>3. ASSUME NEW n \in Nat \ {0} PROVE RW!SumOf(Append(s, n)) = RW!SumOf(s) + n
    <2> DEFINE t == Append(s, n)
    <2>1. t \in Seq(Nat) /\ Len(t) = Len(s) + 1
        BY <1>1
    <2>2. RunningSums(t)[Len(s) + 1] = RunningSums(s)[Len(s)] + n
        BY <1>1, SumsAppend
    <2> HIDE DEF t
    <2>3. RW!SumOf(t) = RunningSums(t)[Len(s) + 1]
        BY <2>1, SumIs
    <2> QED
        BY <1>2, <2>2, <2>3 DEF t
<1> QED
    BY <1>2, <1>3

LEMMA WireSent ==
    ASSUME NEW wire \in Wires, NEW n \in Nat \ {0}
    PROVE  LET c == [wire EXCEPT !.chunks = Append(@, n)]
               r == [wire EXCEPT !.raw = @ + n]
           IN  /\ c \in Wires /\ c.raw = wire.raw /\ c.chunks = Append(wire.chunks, n)
               /\ r \in Wires /\ r.raw = wire.raw + n /\ r.chunks = wire.chunks
<1> DEFINE chunks == Append(wire.chunks, n)
           raw == wire.raw + n
<1>1. chunks \in Seq(Nat \ {0}) /\ raw \in Nat
    BY DEF Wires
<1>2. [wire EXCEPT !.chunks = Append(@, n)] = [wire EXCEPT !.chunks = chunks]
    OBVIOUS
<1>3. [wire EXCEPT !.raw = @ + n] = [wire EXCEPT !.raw = raw]
    OBVIOUS
<1> HIDE DEF chunks, raw
<1>4. LET c == [wire EXCEPT !.chunks = chunks]
      IN  c \in Wires /\ c.raw = wire.raw /\ c.chunks = chunks
    BY <1>1 DEF Wires
<1>5. LET r == [wire EXCEPT !.raw = raw]
      IN  r \in Wires /\ r.raw = raw /\ r.chunks = wire.chunks
    BY <1>1 DEF Wires
<1> QED
    BY <1>2, <1>3, <1>4, <1>5 DEF chunks, raw

LEMMA SentKeeps ==
    ASSUME NEW w, NEW a, Framing(w, a), w.cw.wroteHeader, ~Bodiless, NEW n \in Nat \ {0}
    PROVE  LET v == RW!Sent(w, n)
           IN  /\ Framing(v, a + n) /\ HeaderGone(w, v) /\ v.buffered = w.buffered
               /\ v.contentLength = w.contentLength
<1> DEFINE v == RW!Sent(w, n)
           raw == w.wire.raw
           chunks == w.wire.chunks
           b == w.buffered
<1>1. w \in Writers /\ a \in Nat /\ HeadSent(w) /\ BodySent(w, a) /\ RW!bodyAllowed /\ a + n \in Nat
    BY DEF Framing, Bodiless
<1>2. w.wire \in Wires /\ chunks \in Seq(Nat \ {0}) /\ raw \in Nat /\ b \in Nat
    <2>1. w.wire \in Wires /\ w.buffered \in 0..BufSize
        BY <1>1 DEF Writers
    <2>2. b \in Nat
        BY <2>1, Sizes
    <2>3. chunks \in Seq(Nat \ {0}) /\ raw \in Nat
        BY <2>1 DEF Wires
    <2> QED
        BY <2>1, <2>2, <2>3
<1>3. ASSUME NEW wire \in Wires, v = [w EXCEPT !.wire = wire],
             IF w.cw.chunking THEN wire.raw = 0 /\ RW!SumOf(wire.chunks) + b = a + n
             ELSE wire.chunks = <<>> /\ wire.raw + b = a + n
      PROVE  /\ Framing(v, a + n) /\ HeaderGone(w, v) /\ v.buffered = w.buffered
             /\ v.contentLength = w.contentLength
    <2>1. v \in Writers /\ v.wire = wire /\ v.cw = w.cw /\ v.close = w.close /\ v.head = w.head
          /\ v.contentLength = w.contentLength /\ v.buffered = b /\ v.done = w.done
        BY <1>1, <1>3 DEF Writers
    <2> HIDE DEF v
    <2>2. HeadSent(v)
        BY <1>1, <2>1 DEF HeadSent
    <2>3. BodySent(v, a + n)
        BY <1>3, <2>1 DEF BodySent
    <2>4. Framing(v, a + n)
        BY <1>1, <2>1, <2>2, <2>3 DEF Framing
    <2> QED
        BY <2>1, <2>4 DEF HeaderGone
<1>4. CASE w.cw.chunking
    <2> DEFINE wire == [w.wire EXCEPT !.chunks = Append(@, n)]
               old == RW!SumOf(chunks)
               new == RW!SumOf(Append(chunks, n))
    <2>1. v = [w EXCEPT !.wire = wire]
        BY <1>4 DEF RW!Sent
    <2>2. wire \in Wires /\ wire.raw = raw /\ wire.chunks = Append(chunks, n)
        BY <1>2, WireSent
    <2>3. old \in Nat /\ new = old + n
        BY <1>2, SumOfAppend
    <2>4. raw = 0 /\ old + b = a
        BY <1>1, <1>4 DEF BodySent
    <2> HIDE DEF wire, old
    <2>5. new + b = a + n
        <3> HIDE DEF new, b
        <3> QED
            BY <1>2, <2>3, <2>4
    <2> HIDE DEF v, raw, chunks, b
    <2> QED
        BY <1>3, <1>4, <2>1, <2>2, <2>4, <2>5 DEF v, b
<1>5. CASE ~w.cw.chunking
    <2> DEFINE wire == [w.wire EXCEPT !.raw = @ + n]
    <2>1. v = [w EXCEPT !.wire = wire]
        BY <1>5 DEF RW!Sent
    <2>2. wire \in Wires /\ wire.raw = raw + n /\ wire.chunks = chunks
        BY <1>2, WireSent
    <2>3. chunks = <<>> /\ raw + b = a
        BY <1>1, <1>5 DEF BodySent
    <2> HIDE DEF wire
    <2>4. raw + n + b = a + n
        <3> HIDE DEF raw, b
        <3> QED
            BY <1>2, <2>3
    <2> HIDE DEF v, raw, chunks, b
    <2> QED
        BY <1>3, <1>5, <2>1, <2>2, <2>3, <2>4 DEF v, b
<1> QED
    BY <1>4, <1>5

\* Bytes taken into the buffer, or the buffer being emptied once they are sent.
LEMMA BufferedKeeps ==
    ASSUME NEW w, NEW a, Framing(w, a), RW!bodyAllowed, NEW b \in 0..BufSize,
           NEW c \in Nat, c - b = a - w.buffered
    PROVE  LET v == [w EXCEPT !.buffered = b]
           IN  /\ Framing(v, c) /\ v.cw = w.cw /\ v.contentLength = w.contentLength
               /\ v.done = w.done /\ v.buffered = b
<1> DEFINE v == [w EXCEPT !.buffered = b]
<1>1. w \in Writers /\ a \in Nat
    BY DEF Framing
<1>2. v \in Writers /\ v.wire = w.wire /\ v.cw = w.cw /\ v.close = w.close /\ v.head = w.head
      /\ v.contentLength = w.contentLength /\ v.buffered = b /\ v.done = w.done
    BY <1>1 DEF Writers
<1>3. BufSize \in Nat /\ w.buffered \in Nat /\ w.wire.raw \in Nat /\ b \in Nat
      /\ RW!SumOf(w.wire.chunks) \in Nat
    <2>1. w.wire.chunks \in Seq(Nat \ {0}) /\ w.buffered \in 0..BufSize /\ w.wire.raw \in Nat
        BY <1>1 DEF Writers, Wires
    <2> QED
        BY <2>1, Sizes, SumOfAppend
<1>4. BodySent(v, c)
    <2>1. BodySent(w, a)
        BY DEF Framing
    <2> DEFINE sum == RW!SumOf(w.wire.chunks)
    <2> HIDE DEF v, sum
    <2>2. CASE Bodiless
        BY <1>2, <2>1, <2>2 DEF BodySent
    <2>3. CASE ~Bodiless /\ w.cw.chunking
        <3>1. w.wire.raw = 0 /\ sum + w.buffered = a
            BY <2>1, <2>3 DEF BodySent, sum
        <3>2. sum + b = c
            BY <1>1, <1>3, <3>1 DEF sum
        <3> QED
            BY <1>2, <2>3, <3>1, <3>2 DEF BodySent, sum
    <2>4. CASE ~Bodiless /\ ~w.cw.chunking
        <3>1. w.wire.chunks = <<>> /\ w.wire.raw + w.buffered = a
            BY <2>1, <2>4 DEF BodySent
        <3>2. w.wire.raw + b = c
            BY <1>1, <1>3, <3>1
        <3> QED
            BY <1>2, <2>4, <3>1, <3>2 DEF BodySent
    <2> QED
        BY <2>2, <2>3, <2>4
<1> HIDE DEF v
<1>5. CASE w.cw.wroteHeader
    <2>1. HeadSent(v)
        BY <1>2, <1>5 DEF Framing, HeadSent
    <2> QED
        BY <1>2, <1>4, <1>5, <2>1 DEF Framing, v
<1>6. CASE ~w.cw.wroteHeader
    <2>1. w.buffered = a
        BY <1>6 DEF Framing
    <2>2. b = c
        BY <1>3, <2>1
    <2> QED
        BY <1>2, <1>4, <1>6, <2>2 DEF Framing, v
<1> QED
    BY <1>5, <1>6

\* chunkWriter.Write
LEMMA ChunkWriteKeeps ==
    ASSUME x \in RW!Exchange, NEW w, NEW a, Framing(w, a), RW!bodyAllowed, NEW n \in Nat \ {0}
    PROVE  LET v == RW!ChunkWrite(w, n)
           IN  /\ Framing(v, a + n) /\ HeaderGone(w, v) /\ v.buffered = w.buffered
               /\ ~w.cw.wroteHeader /\ RW!AutoLength(w, n) => v.contentLength = n
               /\ ~(~w.cw.wroteHeader /\ RW!AutoLength(w, n)) => v.contentLength = w.contentLength
<1> DEFINE u == RW!PhysicalHeader(w, n)
           v == RW!ChunkWrite(w, n)
<1>1. /\ Framing(u, a) /\ HeaderGone(w, u) /\ u.buffered = w.buffered
      /\ ~w.cw.wroteHeader /\ RW!AutoLength(w, n) => u.contentLength = n
      /\ ~(~w.cw.wroteHeader /\ RW!AutoLength(w, n)) => u.contentLength = w.contentLength
    BY PhysicalKeeps
<1>2. a \in Nat /\ a + n \in Nat
    BY DEF Framing
<1> HIDE DEF u
<1>3. CASE x.method = "HEAD"
    <2>1. v = u
        BY <1>3 DEF RW!ChunkWrite, u
    <2>2. Framing(u, a + n)
        BY <1>1, <1>2, <1>3 DEF Framing, BodySent, Bodiless, HeaderGone
    <2> HIDE DEF v
    <2> QED
        BY <1>1, <2>1, <2>2 DEF v
<1>4. CASE x.method # "HEAD"
    <2> DEFINE s == RW!Sent(u, n)
    <2>1. v = s
        BY <1>4 DEF RW!ChunkWrite, u
    <2>2. Framing(s, a + n) /\ HeaderGone(u, s) /\ s.buffered = u.buffered
          /\ s.contentLength = u.contentLength
        <3>1. ~Bodiless /\ u.cw.wroteHeader
            BY <1>1, <1>4 DEF Bodiless, HeaderGone
        <3> QED
            BY <1>1, <3>1, SentKeeps
    <2> HIDE DEF v, s
    <2> QED
        BY <1>1, <2>1, <2>2 DEF HeaderGone, v
<1> QED
    BY <1>3, <1>4

\* bufio.Writer.Flush
LEMMA FlushBufferKeeps ==
    ASSUME x \in RW!Exchange, NEW w, NEW a, Framing(w, a)
    PROVE  LET v == RW!FlushBuffer(w)
               auto == w.buffered > 0 /\ ~w.cw.wroteHeader /\ RW!AutoLength(w, w.buffered)
           IN  /\ Framing(v, a) /\ v.buffered = 0 /\ v.done = w.done
               /\ w.buffered > 0 => v.cw.wroteHeader
               /\ w.buffered = 0 => v = w
               /\ v.contentLength = IF auto THEN w.buffered ELSE w.contentLength
<1> DEFINE v == RW!FlushBuffer(w)
           b == w.buffered
           u == RW!ChunkWrite(w, b)
<1>1. w \in Writers /\ a \in Nat /\ b \in Nat
    BY Sizes DEF Framing, Writers
<1>2. CASE b = 0
    BY <1>2 DEF RW!FlushBuffer
<1>3. CASE b > 0
    <2>1. RW!bodyAllowed /\ b \in Nat \ {0}
        BY <1>1, <1>3 DEF Framing
    <2>2. /\ Framing(u, a + b) /\ HeaderGone(w, u) /\ u.buffered = b
          /\ ~w.cw.wroteHeader /\ RW!AutoLength(w, b) => u.contentLength = b
          /\ ~(~w.cw.wroteHeader /\ RW!AutoLength(w, b)) => u.contentLength = w.contentLength
        <3> HIDE DEF b
        <3>1. /\ Framing(u, a + b) /\ HeaderGone(w, u) /\ u.buffered = w.buffered
              /\ ~w.cw.wroteHeader /\ RW!AutoLength(w, b) => u.contentLength = b
              /\ ~(~w.cw.wroteHeader /\ RW!AutoLength(w, b)) => u.contentLength = w.contentLength
            BY <2>1, ChunkWriteKeeps
        <3> QED
            BY <3>1 DEF b
    <2>3. v = [u EXCEPT !.buffered = 0]
        BY <1>3 DEF RW!FlushBuffer
    <2> HIDE DEF u, b, v
    <2>4. a - 0 = a + b - u.buffered /\ 0 \in 0..BufSize
        BY <1>1, <2>2, Sizes
    <2>5. Framing(v, a) /\ v.cw = u.cw /\ v.contentLength = u.contentLength /\ v.done = u.done
          /\ v.buffered = 0
        <3> DEFINE z == 0
        <3>1. z \in 0..BufSize /\ a - z = a + b - u.buffered /\ v = [u EXCEPT !.buffered = z]
            BY <2>3, <2>4
        <3> HIDE DEF z
        <3>2. LET y == [u EXCEPT !.buffered = z]
              IN  /\ Framing(y, a) /\ y.cw = u.cw /\ y.contentLength = u.contentLength
                  /\ y.done = u.done /\ y.buffered = z
            BY <1>1, <2>1, <2>2, <3>1, BufferedKeeps
        <3> QED
            BY <3>1, <3>2 DEF z
    <2> QED
        BY <1>3, <2>2, <2>5 DEF HeaderGone, v, b
<1> QED
    BY <1>1, <1>2, <1>3

\* bufio.Writer.Write
LEMMA BufferedWriteKeeps ==
    ASSUME x \in RW!Exchange, NEW w, NEW a, Framing(w, a), RW!bodyAllowed, ~w.done,
           NEW n \in Nat \ {0}
    PROVE  LET v == RW!BufferedWrite(w, n)
           IN  /\ Framing(v, a + n) /\ v.contentLength = w.contentLength /\ v.done = w.done
               /\ w.cw.wroteHeader => v.cw.wroteHeader
<1> DEFINE v == RW!BufferedWrite(w, n)
           room == BufSize - w.buffered
           over == n - room
           filled == [w EXCEPT !.buffered = BufSize]
           full == RW!FlushBuffer(filled)
<1>1. w \in Writers /\ a \in Nat /\ w.buffered \in 0..BufSize /\ a + n \in Nat
    BY DEF Framing, Writers
<1>2. BufSize \in Nat \ {0} /\ room \in Nat /\ a + room \in Nat /\ n \in Nat /\ over \in Int
      /\ w.buffered \in Nat
    BY <1>1, Sizes
<1>3. CASE n <= room
    <2> DEFINE b == w.buffered + n
    <2>1. b \in 0..BufSize /\ a + n - b = a - w.buffered
        BY <1>1, <1>2, <1>3
    <2>2. v = [w EXCEPT !.buffered = b]
        BY <1>3 DEF RW!BufferedWrite
    <2> HIDE DEF b, v
    <2> QED
        BY <1>1, <2>1, <2>2, BufferedKeeps DEF v
<1>4. CASE ~(n <= room) /\ w.buffered = 0
    <2>1. v = RW!ChunkWrite(w, n)
        BY <1>4 DEF RW!BufferedWrite
    <2> HIDE DEF v
    <2> QED
        BY <2>1, ChunkWriteKeeps DEF HeaderGone, v
<1>5. CASE ~(n <= room) /\ w.buffered # 0
    <2>1. /\ Framing(filled, a + room) /\ filled.cw = w.cw /\ filled.contentLength = w.contentLength
          /\ filled.done = w.done /\ filled.buffered = BufSize
        <3>1. BufSize \in 0..BufSize /\ a + room - BufSize = a - w.buffered
            BY <1>1, <1>2
        <3> DEFINE c == a + room
        <3>2. c \in Nat /\ c - BufSize = a - w.buffered
            BY <1>1, <1>2, <3>1
        <3> HIDE DEF c
        <3>3. LET y == [w EXCEPT !.buffered = BufSize]
              IN  /\ Framing(y, c) /\ y.cw = w.cw /\ y.contentLength = w.contentLength
                  /\ y.done = w.done /\ y.buffered = BufSize
            BY <3>1, <3>2, BufferedKeeps
        <3> QED
            BY <3>3 DEF c
    <2>2. ~RW!AutoLength(filled, filled.buffered)
        BY <2>1 DEF RW!AutoLength
    <2> HIDE DEF filled
    <2>3. /\ Framing(full, a + room) /\ full.buffered = 0 /\ full.done = w.done
          /\ full.cw.wroteHeader /\ full.contentLength = w.contentLength
        <3> HIDE DEF room
        <3>1. LET y == RW!FlushBuffer(filled)
              IN  /\ Framing(y, a + room) /\ y.buffered = 0 /\ y.done = filled.done
                  /\ BufSize > 0 => y.cw.wroteHeader
                  /\ y.contentLength = filled.contentLength
            BY <2>1, <2>2, FlushBufferKeeps
        <3> QED
            BY <1>2, <2>1, <3>1
    <2> HIDE DEF full
    <2>4. CASE over <= BufSize
        <3>1. v = [full EXCEPT !.buffered = over]
            BY <1>5, <2>4 DEF RW!BufferedWrite, full, filled
        <3>2. over \in 0..BufSize /\ a + n - over = a + room - full.buffered
            BY <1>1, <1>2, <1>5, <2>3, <2>4
        <3> HIDE DEF v, over, room
        <3> DEFINE c == a + n
                   a1 == a + room
        <3>3. c \in Nat /\ c - over = a1 - full.buffered /\ Framing(full, a1)
            BY <1>1, <1>2, <2>3, <3>2
        <3> HIDE DEF c, a1
        <3>4. LET y == [full EXCEPT !.buffered = over]
              IN  /\ Framing(y, c) /\ y.cw = full.cw /\ y.contentLength = full.contentLength
                  /\ y.done = full.done
            BY <3>2, <3>3, BufferedKeeps
        <3> QED
            BY <2>3, <3>1, <3>4 DEF v, c
    <2>5. CASE ~(over <= BufSize)
        <3>1. v = RW!ChunkWrite(full, over)
            BY <1>5, <2>5 DEF RW!BufferedWrite, full, filled
        <3>2. over \in Nat \ {0} /\ a + room + over = a + n
            BY <1>1, <1>2, <1>5, <2>5
        <3> HIDE DEF v, over, room
        <3>3. Framing(v, a + room + over) /\ HeaderGone(full, v)
            BY <2>3, <3>1, <3>2, ChunkWriteKeeps
        <3> QED
            BY <2>3, <3>2, <3>3 DEF HeaderGone, v
    <2> QED
        BY <2>4, <2>5
<1> QED
    BY <1>3, <1>4, <1>5

\* chunkWriter.flush
LEMMA FlushChunksKeeps ==
    ASSUME x \in RW!Exchange, NEW w, NEW a, Framing(w, a)
    PROVE  LET v == RW!FlushChunks(w)
               b == w.buffered
               auto == ~w.cw.wroteHeader /\ RW!AutoLength(w, b)
           IN  /\ Framing(v, a) /\ v.buffered = 0 /\ v.done = w.done /\ v.cw.wroteHeader
               /\ v.contentLength = IF auto THEN b ELSE w.contentLength
<1> DEFINE u == RW!FlushBuffer(w)
           v == RW!FlushChunks(w)
           b == w.buffered
<1>1. b \in Nat
    BY Sizes DEF Framing, Writers
<1>2. /\ Framing(u, a) /\ u.buffered = 0 /\ u.done = w.done
      /\ b > 0 => u.cw.wroteHeader
      /\ b = 0 => u = w
      /\ u.contentLength = IF b > 0 /\ ~w.cw.wroteHeader /\ RW!AutoLength(w, b)
                           THEN b ELSE w.contentLength
    BY FlushBufferKeeps
<1>3. v = RW!PhysicalHeader(u, 0)
    BY DEF RW!FlushChunks
<1> HIDE DEF u, v
<1>4. /\ Framing(v, a) /\ HeaderGone(u, v) /\ v.buffered = u.buffered
      /\ ~u.cw.wroteHeader /\ RW!AutoLength(u, 0) => v.contentLength = 0
      /\ ~(~u.cw.wroteHeader /\ RW!AutoLength(u, 0)) => v.contentLength = u.contentLength
    BY <1>2, <1>3, PhysicalKeeps
<1>5. CASE b = 0
    BY <1>2, <1>4, <1>5 DEF HeaderGone, v
<1>6. CASE b > 0
    BY <1>2, <1>4, <1>6 DEF HeaderGone, v
<1> QED
    BY <1>1, <1>5, <1>6

\* Each byte was taken, or else a length that was declared is exceeded.
Counted(a, sofar) ==
    sofar \in Nat /\ (a = sofar \/ (x.cl # RW!NoLength /\ sofar > x.cl))

\* response.write
LEMMA WrittenToKeeps ==
    ASSUME x \in RW!Exchange, NEW w, NEW a, Framing(RW!LogicalHeader(w), a),
           ~RW!LogicalHeader(w).done, RW!LogicalHeader(w).contentLength = x.cl,
           NEW sofar, Counted(a, sofar), NEW n \in Nat \ {0}
    PROVE  LET r == RW!WrittenTo(w, n, sofar)
           IN  /\ Framing(r.w, a + r.n) /\ Counted(a + r.n, r.written) /\ r.n \in {0, n}
               /\ ~r.w.done /\ r.w.contentLength = x.cl
<1> DEFINE r == RW!WrittenTo(w, n, sofar)
           u == RW!LogicalHeader(w)
<1> SUFFICES /\ Framing(r.w, a + r.n) /\ Counted(a + r.n, r.written) /\ r.n \in {0, n}
             /\ ~r.w.done /\ r.w.contentLength = x.cl
    OBVIOUS
<1>1. a \in Nat /\ sofar \in Nat /\ x.cl \in Nat \cup {-1} /\ a + 0 = a /\ n \in Nat \ {0}
    BY DEF Framing, Counted, RW!Exchange, RW!NoLength
<1>2. Framing(u, a) /\ ~u.done /\ u.contentLength = x.cl
    OBVIOUS
<1>3. CASE ~RW!bodyAllowed
    <2>1. r = [w |-> u, n |-> 0, written |-> sofar]
        BY <1>3 DEF RW!WrittenTo
    <2>2. r.w = u /\ r.n = 0 /\ r.written = sofar
        BY <2>1
    <2> HIDE DEF r, u
    <2> QED
        BY <1>1, <1>2, <2>2
<1>4. CASE RW!bodyAllowed /\ u.contentLength # RW!NoLength /\ sofar + n > u.contentLength
    <2>1. r = [w |-> u, n |-> 0, written |-> sofar + n]
        BY <1>4 DEF RW!WrittenTo
    <2>2. r.w = u /\ r.n = 0 /\ r.written = sofar + n
        BY <2>1
    <2>3. Counted(a, sofar + n)
        BY <1>1, <1>4 DEF Counted
    <2> HIDE DEF r, u
    <2> QED
        BY <1>1, <1>2, <2>2, <2>3
<1>5. CASE RW!bodyAllowed /\ ~(u.contentLength # RW!NoLength /\ sofar + n > u.contentLength)
    <2> DEFINE v == RW!BufferedWrite(u, n)
    <2>1. r = [w |-> v, n |-> n, written |-> sofar + n]
        BY <1>5 DEF RW!WrittenTo
    <2>2. r.w = v /\ r.n = n /\ r.written = sofar + n
        BY <2>1
    <2>3. /\ Framing(v, a + n) /\ v.contentLength = u.contentLength /\ v.done = u.done
        BY <1>1, <1>2, <1>5, BufferedWriteKeeps
    <2>4. Counted(a + n, sofar + n)
        BY <1>1, <1>5 DEF Counted, RW!NoLength
    <2> HIDE DEF r, v, u
    <2> QED
        BY <1>1, <1>2, <2>2, <2>3, <2>4
<1> QED
    BY <1>3, <1>4, <1>5

\* What a client makes of a reply to which the handler wrote a bytes, with the
\* length n, closed or not after it, where sofar bytes were counted.
FramedReply(head, wire, a, n, closes, sofar) ==
    LET t == RW!readTransfer(TRUE, x.status, x.method, x.minor, head)
        b == RW!ReadBody(t, wire)
    IN  /\ ~t.err
        /\ b.ok /\ (n = RW!NoLength \/ a <= n) => b.bytes = IF x.method = "HEAD" THEN 0 ELSE a
        /\ ~closes /\ ~(x.method # "HEAD" /\ n # RW!NoLength /\ RW!bodyAllowed /\ n # sofar) =>
                b.ok /\ ~b.left /\ ~t.close

\* A header that does not announce the end of the connection leaves it open,
\* and then the end of the body is said.
LEMMA HeadIs ==
    ASSUME x \in RW!Exchange, NEW w, HeadSent(w), w.contentLength \in Nat \cup {-1}
    PROVE  /\ w.head.te = IF w.cw.chunking THEN <<"chunked">> ELSE <<>>
           /\ w.head.cl = IF w.contentLength # -1 /\ ~RW!chunked(x.te) /\ RW!bodyAllowed
                          THEN <<w.contentLength>> ELSE <<>>
           /\ w.cw.chunking => /\ ~Bodiless /\ x.minor = 1
                               /\ w.contentLength = -1 \/ RW!chunked(x.te)
           /\ ~w.close => /\ ~RW!shouldClose(x.minor, w.head.conn)
                          /\ ~Bodiless /\ ~w.cw.chunking =>
                                w.contentLength # -1 /\ ~RW!chunked(x.te)
<1> DEFINE n == w.contentLength
           k == RW!Chunking([contentLength |-> n])
           hd == RW!HeadOf([contentLength |-> n], w.close)
<1>1. w.cw.chunking = k /\ w.head = hd
      /\ w.close = RW!CloseAfter([contentLength |-> n, close |-> FALSE])
    BY DEF HeadSent
<1>2. x.minor \in {0, 1} /\ x.conn \in {{}, {"close"}, {"keep-alive"}}
    BY DEF RW!Exchange
<1> HIDE DEF n
<1>3. hd.te = IF k THEN <<"chunked">> ELSE <<>>
    BY DEF RW!HeadOf
<1>4. hd.cl = IF n # -1 /\ ~RW!chunked(x.te) /\ RW!bodyAllowed THEN <<n>> ELSE <<>>
    BY DEF RW!HeadOf, RW!NoLength
<1>5. k => ~Bodiless /\ x.minor = 1 /\ (n = -1 \/ RW!chunked(x.te))
    BY DEF RW!Chunking, Bodiless, RW!NoLength, RW!is11
<1>6. ASSUME ~w.close PROVE ~RW!shouldClose(x.minor, hd.conn)
    <2> DEFINE kept == x.wants10KeepAlive /\ (x.method = "HEAD" \/ n # -1 \/ ~RW!bodyAllowed)
    <2>1. x.conn # {"close"} /\ (kept \/ x.minor = 1)
        BY <1>1, <1>6 DEF RW!CloseAfter, RW!NoLength, RW!is11
    <2>2. hd.conn = IF x.conn = {} /\ kept THEN {"keep-alive"} ELSE x.conn
        BY <1>6 DEF RW!HeadOf, RW!NoLength
    <2> HIDE DEF kept, hd
    <2> QED
        BY <1>2, <2>1, <2>2 DEF RW!shouldClose
<1>7. ASSUME ~w.close, ~Bodiless, ~k PROVE n # -1 /\ ~RW!chunked(x.te)
    BY <1>1, <1>2, <1>7 DEF RW!CloseAfter, RW!Chunking, Bodiless, RW!NoLength, RW!is11
<1> HIDE DEF k, hd
<1> QED
    BY <1>1, <1>3, <1>4, <1>5, <1>6, <1>7 DEF n

LEMMA FinishedFramed ==
    ASSUME x \in RW!Exchange, NEW w, NEW a, Framing(w, a), w.cw.wroteHeader, w.buffered = 0,
           NEW sofar, Counted(a, sofar),
           w.contentLength = x.cl \/ (x.cl = -1 /\ w.contentLength = a),
           NEW wire, wire = IF w.cw.chunking THEN [w.wire EXCEPT !.last = TRUE] ELSE w.wire
    PROVE  FramedReply(w.head, wire, a, w.contentLength, w.close, sofar)
<1> DEFINE f == w.head
           n == w.contentLength
           t == RW!readTransfer(TRUE, x.status, x.method, x.minor, f)
           b == RW!ReadBody(t, wire)
<1>1. /\ w \in Writers /\ a \in Nat /\ HeadSent(w) /\ BodySent(w, a)
      /\ ~RW!bodyAllowed => a = 0
    BY DEF Framing
<1>2. /\ n \in Nat \cup {-1} /\ w.close \in BOOLEAN /\ w.cw.chunking \in BOOLEAN
      /\ w.wire \in Wires /\ w.wire.raw \in Nat /\ w.wire.chunks \in Seq(Nat \ {0})
      /\ w.wire.last = FALSE
    <2>1. /\ n \in Nat \cup {-1} /\ w.close \in BOOLEAN /\ w.cw.chunking \in BOOLEAN
          /\ w.wire \in Wires
        BY <1>1 DEF Writers
    <2> QED
        BY <2>1 DEF Wires
<1>3. x.status \in Nat /\ x.minor \in {0, 1} /\ sofar \in Nat
      /\ (a = sofar \/ (x.cl # -1 /\ sofar > x.cl))
      /\ RW!bodyAllowed = RW!bodyAllowedForStatus(x.status)
    BY DEF RW!Exchange, Counted, RW!NoLength, RW!bodyAllowed
<1>4. /\ f.te = IF w.cw.chunking THEN <<"chunked">> ELSE <<>>
      /\ f.cl = IF n # -1 /\ ~RW!chunked(x.te) /\ RW!bodyAllowed THEN <<n>> ELSE <<>>
      /\ w.cw.chunking => /\ ~Bodiless /\ x.minor = 1 /\ (n = -1 \/ RW!chunked(x.te))
      /\ ~w.close => /\ ~RW!shouldClose(x.minor, f.conn)
                     /\ ~Bodiless /\ ~w.cw.chunking => n # -1 /\ ~RW!chunked(x.te)
    BY <1>1, <1>2, HeadIs
<1> SUFFICES
        /\ ~t.err
        /\ b.ok /\ (n = -1 \/ a <= n) => b.bytes = IF x.method = "HEAD" THEN 0 ELSE a
        /\ ~w.close /\ ~(x.method # "HEAD" /\ n # -1 /\ RW!bodyAllowed /\ n # sofar) =>
                b.ok /\ ~b.left /\ ~t.close
    BY DEF FramedReply, RW!NoLength
<1>5. CASE w.cw.chunking
    <2>1. ChunkedRead(t, f)
        <3>1. f.te = <<"chunked">> /\ f.cl = <<>> /\ x.minor = 1 /\ x.method # "HEAD"
              /\ RW!bodyAllowedForStatus(x.status)
            BY <1>3, <1>4, <1>5 DEF Bodiless
        <3>2. t = RW!readTransfer(TRUE, x.status, x.method, 1, f)
            BY <3>1
        <3> HIDE DEF t, f
        <3> QED
            BY <1>3, <3>1, <3>2, ChunksRead
    <2>2. wire.raw = 0 /\ wire.chunks = w.wire.chunks /\ wire.last = TRUE
          /\ RW!SumOf(w.wire.chunks) + w.buffered = a /\ RW!SumOf(w.wire.chunks) \in Nat
        <3>1. wire.raw = w.wire.raw /\ wire.chunks = w.wire.chunks /\ wire.last = TRUE
            BY <1>2, <1>5 DEF Wires
        <3> QED
            BY <1>1, <1>2, <1>4, <1>5, <3>1, SumOfAppend DEF BodySent
    <2>3. RW!SumOf(wire.chunks) = a
        BY <2>2
    <2>4. {i \in DOMAIN wire.chunks : wire.chunks[i] = 0} = {}
        BY <1>2, <2>2
    <2>5. t.body = "chunked" /\ t.err = FALSE /\ t.close = RW!shouldClose(1, f.conn)
        BY <2>1 DEF ChunkedRead
    <2>6. b.bytes = a /\ b.ok /\ ~b.left
        <3> HIDE DEF t
        <3>1. /\ b.bytes = RW!SumOf(wire.chunks)
              /\ b.ok = (/\ wire.raw = 0 /\ wire.last
                         /\ {i \in DOMAIN wire.chunks : wire.chunks[i] = 0} = {})
              /\ b.left = (wire.raw > 0 \/ {i \in DOMAIN wire.chunks : wire.chunks[i] = 0} # {})
            BY <2>5 DEF RW!ReadBody
        <3> HIDE DEF b
        <3>2. ~(wire.raw > 0)
            BY <2>2
        <3> QED
            BY <2>2, <2>3, <2>4, <3>1, <3>2
    <2> HIDE DEF t, b, n, f
    <2> QED
        BY <1>4, <1>5, <2>5, <2>6 DEF Bodiless
<1>6. CASE ~w.cw.chunking
    <2> DEFINE l == LengthSaid(f, x.method, x.status, -1)
    <2>1. PlainRead(t, f, x.minor, l)
        <3>1. f.te = <<>> /\ (f.cl = <<>> \/ \E k \in Nat : f.cl = <<k>>)
            BY <1>2, <1>4, <1>6
        <3> HIDE DEF t, f
        <3> QED
            BY <1>3, <3>1, ResponseLength DEF t
    <2>2. wire.raw = w.wire.raw /\ wire.chunks = <<>> /\ wire.last = FALSE
          /\ wire.raw = IF Bodiless THEN 0 ELSE a
        <3>1. wire = w.wire
            BY <1>6
        <3> QED
            BY <1>1, <1>2, <1>6, <3>1 DEF BodySent
    <2>3. RawWire(wire, IF Bodiless THEN 0 ELSE a)
        BY <2>2 DEF RawWire
    <2>4. CASE Bodiless
        <3>0. 0 # -1
            OBVIOUS
        <3>1. l = 0
            BY <1>3, <2>4 DEF LengthSaid, Bodiless
        <3>2. t.err = FALSE /\ t.body = "none" /\ (t.close => RW!shouldClose(x.minor, f.conn))
            <4> HIDE DEF t, l
            <4> QED
                BY <2>1, <3>1, <3>0 DEF PlainRead
        <3>3. b.bytes = 0 /\ b.ok /\ ~b.left
            <4> HIDE DEF t
            <4>1. wire.raw = 0 /\ ~(wire.raw > 0)
                BY <2>2, <2>4
            <4>2. b.bytes = 0 /\ b.ok
                BY <3>2 DEF RW!ReadBody
            <4>3. b.left = (wire.raw > 0 \/ wire.chunks # <<>> \/ wire.last)
                BY <3>2 DEF RW!ReadBody
            <4> HIDE DEF b
            <4> QED
                BY <2>2, <4>1, <4>2, <4>3
        <3>4. x.method # "HEAD" => a = 0
            BY <1>1, <2>4 DEF Bodiless
        <3> HIDE DEF t, b, n, f
        <3> QED
            BY <1>4, <3>2, <3>3, <3>4
    <2>5. CASE ~Bodiless /\ n # -1 /\ ~RW!chunked(x.te)
        <3>1. f.cl = <<n>> /\ n \in Nat
            BY <1>2, <1>4, <2>5 DEF Bodiless
        <3>2. l = n
            BY <1>3, <2>5, <3>1 DEF LengthSaid, Bodiless
        <3>3. wire.raw = a
            BY <2>2, <2>5
        <3>4. a = n \/ n # sofar
            BY <1>1, <1>3, <3>1
        <3>5. CASE n = 0
            <4>1. t.err = FALSE /\ t.body = "none" /\ (t.close => RW!shouldClose(x.minor, f.conn))
                <5>1. l = 0 /\ l # -1
                    BY <3>2, <3>5
                <5> HIDE DEF t, l, n
                <5> QED
                    BY <2>1, <5>1 DEF PlainRead
            <4>2. b.bytes = 0 /\ b.ok /\ b.left = (a > 0)
                <5> HIDE DEF t
                <5> QED
                    BY <1>1, <2>2, <3>3, <4>1 DEF RW!ReadBody
            <4>3. a <= n => a = 0
                BY <1>1, <3>5
            <4>4. a = n => ~(a > 0)
                BY <3>5
            <4> HIDE DEF t, b, n, f
            <4> QED
                BY <1>4, <2>5, <3>1, <3>4, <4>1, <4>2, <4>3, <4>4 DEF Bodiless
        <3>6. CASE n # 0
            <4>1. t.err = FALSE /\ t.body = "length" /\ t.length = n
                  /\ (t.close => RW!shouldClose(x.minor, f.conn))
                <5>1. n # 0 /\ n > 0 /\ n # -1
                    BY <3>1, <3>6
                <5> HIDE DEF t, l, n
                <5> QED
                    BY <2>1, <3>2, <5>1 DEF PlainRead
            <4>2. b.bytes = RW!MinOf(n, a) /\ b.ok = (a >= n) /\ b.left = (a > n)
                <5> HIDE DEF t
                <5> QED
                    BY <1>1, <2>2, <3>1, <3>3, <4>1 DEF RW!ReadBody, RW!MinOf
            <4>3. a >= n /\ a <= n => RW!MinOf(n, a) = a
                BY <1>1, <3>1 DEF RW!MinOf
            <4>4. a = n => a >= n /\ ~(a > n)
                BY <3>1
            <4> HIDE DEF t, b, n, f
            <4> QED
                BY <1>4, <2>5, <3>1, <3>4, <4>1, <4>2, <4>3, <4>4 DEF Bodiless
        <3> QED
            BY <3>5, <3>6
    <2>6. CASE ~Bodiless /\ (n = -1 \/ RW!chunked(x.te))
        <3>1. f.cl = <<>>
            BY <1>4, <2>6
        <3>2. l = -1
            BY <1>3, <2>6, <3>1 DEF LengthSaid, Bodiless
        <3>3. w.close
            BY <1>4, <1>6, <2>6
        <3>4. t.err = FALSE /\ t.body = "eof"
            <4>1. -1 # 0 /\ ~(-1 > 0)
                OBVIOUS
            <4> HIDE DEF t, l
            <4> QED
                BY <2>1, <3>2, <4>1 DEF PlainRead
        <3>5. b.bytes = a
            <4> HIDE DEF t
            <4> QED
                BY <2>2, <2>6, <3>4, BodyIs
        <3> HIDE DEF t, b, n, f
        <3> QED
            BY <2>6, <3>3, <3>4, <3>5 DEF Bodiless
    <2> QED
        BY <2>4, <2>5, <2>6
<1> QED
    BY <1>2, <1>5, <1>6

\* Nothing of the reply is lost or made up on its way, and a length that the
\* handler declared is the one that counts from the first call on.
Framable ==
    /\ handlerDone = FALSE
    /\ Framing(RW!Response, accepted) /\ Counted(accepted, written)
    /\ IF begun THEN contentLength = x.cl ELSE ~cw.wroteHeader

FrameInv == which = "reply" =>
    /\ x \in RW!Exchange
    /\ out = [head |-> out.head, continues |-> out.continues, wire |-> out.wire]
    /\ state \in {"handler", "finished"}
    /\ state = "handler" => Framable
    /\ RW!Framed

LEMMA LogicalKeeps ==
    ASSUME x \in RW!Exchange, NEW w, NEW a, Framing(w, a),
           IF begun THEN w.contentLength = x.cl ELSE ~w.cw.wroteHeader
    PROVE  LET v == RW!LogicalHeader(w)
           IN  /\ Framing(v, a) /\ v.contentLength = x.cl /\ v.cw = w.cw /\ v.done = w.done
               /\ v.buffered = w.buffered
<1>1. CASE begun
    BY <1>1 DEF RW!LogicalHeader
<1>2. CASE ~begun
    <2> DEFINE v == RW!LogicalHeader(w)
    <2>1. v = [w EXCEPT !.contentLength = x.cl]
        BY <1>2 DEF RW!LogicalHeader
    <2>2. w \in Writers /\ x.cl \in Nat \cup {-1} /\ ~w.cw.wroteHeader
        BY <1>2 DEF Framing, RW!Exchange, RW!NoLength
    <2>3. v \in Writers /\ v.wire = w.wire /\ v.cw = w.cw /\ v.close = w.close /\ v.head = w.head
          /\ v.contentLength = x.cl /\ v.buffered = w.buffered /\ v.done = w.done
        BY <2>1, <2>2 DEF Writers
    <2> HIDE DEF v
    <2>4. Framing(v, a)
        BY <2>2, <2>3 DEF Framing, BodySent
    <2> QED
        BY <2>3, <2>4 DEF v
<1> QED
    BY <1>1, <1>2

LEMMA LogicalSame ==
    ASSUME NEW w \in Writers, w.contentLength = x.cl
    PROVE  RW!LogicalHeader(w) = w
<1>1. [w EXCEPT !.contentLength = x.cl] = w
    BY DEF Writers
<1> QED
    BY <1>1 DEF RW!LogicalHeader

\* What a step makes of the reply is what the next one finds.
LEMMA BecomesResponse ==
    ASSUME NEW w \in Writers, RW!Becomes(w), handlerDone' = w.done,
           out = [head |-> out.head, continues |-> out.continues, wire |-> out.wire]
    PROVE  /\ RW!Response' = w
           /\ out' = [head |-> out'.head, continues |-> out'.continues, wire |-> out'.wire]
<1>1. out'.wire = w.wire /\ out'.head = w.head
    BY DEF RW!Becomes
<1>2. w = [contentLength |-> w.contentLength, close |-> w.close, buffered |-> w.buffered,
           cw |-> w.cw, done |-> w.done, wire |-> w.wire, head |-> w.head]
    BY DEF Writers
<1>3. RW!Response' = [contentLength |-> w.contentLength, close |-> w.close, buffered |-> w.buffered,
           cw |-> w.cw, done |-> w.done, wire |-> w.wire, head |-> w.head]
    BY <1>1 DEF RW!Becomes, RW!Response
<1> QED
    BY <1>2, <1>3, BecomesKeeps

\* A step of the handler that keeps the reply as it should be.
LEMMA HandlerKeeps ==
    ASSUME FrameInv, which = "reply", state = "handler", state' = state, x' = x,
           handlerDone' = handlerDone, begun', NEW w, RW!Becomes(w), Framing(w, accepted'),
           ~w.done, w.contentLength = x.cl, Counted(accepted', written')
    PROVE  FrameInv'
<1>1. /\ x \in RW!Exchange /\ handlerDone = FALSE
      /\ out = [head |-> out.head, continues |-> out.continues, wire |-> out.wire]
    BY DEF FrameInv, Framable
<1>2. w \in Writers /\ w.done \in BOOLEAN
    BY DEF Framing, Writers
<1>3. handlerDone' = w.done
    BY <1>1, <1>2
<1>4. RW!Response' = w
      /\ out' = [head |-> out'.head, continues |-> out'.continues, wire |-> out'.wire]
    BY <1>1, <1>2, <1>3, BecomesResponse
<1>5. Framing(RW!Response, accepted)' /\ Counted(accepted, written)' /\ contentLength' = x'.cl
    <2>1. Framing(RW!Response, accepted)'
        BY <1>4 DEF Framing, HeadSent, BodySent, Bodiless, Writers, RW!bodyAllowed, RW!CloseAfter,
                    RW!HeadOf, RW!Chunking, RW!is11
    <2>2. Counted(accepted, written)'
        BY DEF Counted
    <2> QED
        BY <2>1, <2>2 DEF RW!Becomes
<1>6. RW!Framed'
    BY DEF RW!Framed
<1> QED
    BY <1>1, <1>4, <1>5, <1>6 DEF FrameInv, Framable

LEMMA FrameInitInv == MCInit => FrameInv
<1> SUFFICES ASSUME RW!Init PROVE FrameInv
    BY DEF MCInit, FrameInv
<1>1. x \in RW!Exchange
    BY BoundsAssumption DEF RW!Init, RW!WriterAssumption
<1>2. RW!NoFields \in Heads /\ RW!NoWire \in Wires /\ RW!NoWire.raw = 0 /\ RW!NoWire.chunks = <<>>
    <2>1. <<>> \in Seq(Nat \ {0})
        OBVIOUS
    <2> QED
        BY <2>1 DEF RW!NoFields, RW!NoWire, Heads, Wires
<1>3. RW!Response = [contentLength |-> -1, close |-> FALSE, buffered |-> 0,
                     cw |-> [wroteHeader |-> FALSE, chunking |-> FALSE], done |-> FALSE,
                     wire |-> RW!NoWire, head |-> RW!NoFields]
    BY DEF RW!Init, RW!Response, RW!NoLength
<1>4. RW!Response \in Writers
    <2>1. 0 \in 0..BufSize /\ -1 \in Nat \cup {-1}
        BY Sizes
    <2> QED
        BY <1>2, <1>3, <2>1 DEF Writers
<1>5. Framing(RW!Response, 0)
    <2> DEFINE w == RW!Response
    <2>1. /\ w.close = FALSE /\ w.cw.chunking = FALSE /\ w.cw.wroteHeader = FALSE /\ w.buffered = 0
          /\ w.wire.raw = 0 /\ w.wire.chunks = <<>>
        BY <1>2, <1>3
    <2> HIDE DEF w
    <2> QED
        BY <1>4, <2>1 DEF Framing, BodySent, w
<1>6. Framable
    BY <1>5 DEF RW!Init, Framable, Counted
<1>7. RW!Framed
    BY DEF RW!Init, RW!Framed
<1> QED
    BY <1>1, <1>6, <1>7 DEF RW!Init, FrameInv

\* Where a handler stands that makes a call.
LEMMA Calling ==
    ASSUME FrameInv, which = "reply", state = "handler"
    PROVE  LET v == RW!LogicalHeader(RW!Response)
           IN  /\ x \in RW!Exchange /\ accepted \in Nat
               /\ out = [head |-> out.head, continues |-> out.continues, wire |-> out.wire]
               /\ Framing(RW!Response, accepted) /\ Counted(accepted, written)
               /\ RW!Response.done = FALSE /\ RW!Response.cw = cw
               /\ IF begun THEN RW!Response.contentLength = x.cl ELSE ~cw.wroteHeader
               /\ Framing(v, accepted) /\ v.contentLength = x.cl /\ ~v.done
               /\ v.cw = cw
<1>1. /\ x \in RW!Exchange /\ Framing(RW!Response, accepted) /\ Counted(accepted, written)
      /\ IF begun THEN contentLength = x.cl ELSE ~cw.wroteHeader
      /\ out = [head |-> out.head, continues |-> out.continues, wire |-> out.wire]
      /\ handlerDone = FALSE
    BY DEF FrameInv, Framable
<1>2. RW!Response.contentLength = contentLength /\ RW!Response.cw = cw /\ RW!Response.done = handlerDone
    BY DEF RW!Response
<1>3. accepted \in Nat
    BY <1>1 DEF Framing
<1>4. LET v == RW!LogicalHeader(RW!Response)
      IN  /\ Framing(v, accepted) /\ v.contentLength = x.cl /\ v.cw = RW!Response.cw
          /\ v.done = RW!Response.done
    BY <1>1, <1>2, LogicalKeeps
<1> QED
    BY <1>1, <1>2, <1>3, <1>4

LEMMA FrameWriteHeader ==
    ASSUME FrameInv, which = "reply", RW!WriteHeader
    PROVE  FrameInv'
<1> DEFINE v == RW!LogicalHeader(RW!Response)
<1>1. /\ state = "handler" /\ state' = state /\ x' = x /\ handlerDone' = handlerDone /\ begun'
      /\ RW!Becomes(v) /\ accepted' = accepted /\ written' = written
    BY DEF RW!WriteHeader
<1>2. Framing(v, accepted) /\ v.contentLength = x.cl /\ ~v.done /\ Counted(accepted, written)
    BY <1>1, Calling
<1> HIDE DEF v
<1> QED
    BY <1>1, <1>2, HandlerKeeps

LEMMA FrameFlush ==
    ASSUME FrameInv, which = "reply", RW!Flush
    PROVE  FrameInv'
<1> DEFINE u == RW!LogicalHeader(RW!Response)
           v == RW!FlushChunks(u)
<1>1. /\ state = "handler" /\ state' = state /\ x' = x /\ handlerDone' = handlerDone /\ begun'
      /\ RW!Becomes(v) /\ accepted' = accepted /\ written' = written
    BY DEF RW!Flush, RW!InHandler
<1>2. /\ Framing(u, accepted) /\ u.contentLength = x.cl /\ ~u.done /\ Counted(accepted, written)
      /\ x \in RW!Exchange
    BY <1>1, Calling
<1> HIDE DEF u
<1>3. ~RW!AutoLength(u, u.buffered)
    BY <1>2 DEF RW!AutoLength
<1>4. Framing(v, accepted) /\ v.contentLength = x.cl /\ ~v.done
    BY <1>2, <1>3, FlushChunksKeeps
<1> HIDE DEF v
<1> QED
    BY <1>1, <1>2, <1>4, HandlerKeeps

LEMMA FrameWrite ==
    ASSUME FrameInv, which = "reply", NEW n \in 1..MaxBody, RW!Write(n)
    PROVE  FrameInv'
<1> DEFINE r == RW!WrittenTo(RW!Response, n, written)
<1>1. /\ state = "handler" /\ state' = state /\ x' = x /\ handlerDone' = handlerDone /\ begun'
      /\ RW!Becomes(r.w) /\ accepted' = accepted + r.n /\ written' = r.written
    BY DEF RW!Write, RW!MaySend, RW!InHandler
<1>2. /\ x \in RW!Exchange /\ RW!Response.done = FALSE
      /\ Framing(RW!LogicalHeader(RW!Response), accepted)
      /\ RW!LogicalHeader(RW!Response).contentLength = x.cl
      /\ ~RW!LogicalHeader(RW!Response).done
      /\ Counted(accepted, written)
    BY <1>1, Calling
<1>3. n \in Nat \ {0}
    BY Sizes
<1>4. Framing(r.w, accepted + r.n) /\ Counted(accepted + r.n, r.written)
      /\ ~r.w.done /\ r.w.contentLength = x.cl
    BY <1>2, <1>3, WrittenToKeeps
<1> HIDE DEF r
<1> QED
    BY <1>1, <1>4, HandlerKeeps

LEMMA FrameReadFrom ==
    ASSUME HeadReadFrom = FALSE, FrameInv, which = "reply", NEW n \in 1..MaxBody, RW!ReadFrom(n)
    PROVE  FrameInv'
<1> DEFINE first == IF cw.wroteHeader THEN 0 ELSE RW!MinOf(n, SniffLen)
           a == IF first = 0 THEN [w |-> RW!Response, n |-> 0, written |-> written]
                ELSE RW!WrittenTo(RW!Response, first, written)
           short == ~cw.wroteHeader /\ (a.n < first \/ first < SniffLen)
           w == RW!FlushChunks(a.w)
           rest == n - first
           b == RW!WrittenTo(w, rest, a.written)
           direct == ~w.cw.chunking /\ RW!bodyAllowed
           sent == [w EXCEPT !.wire.raw = @ + rest]
<1>1. /\ state = "handler" /\ state' = state /\ x' = x /\ handlerDone' = handlerDone /\ begun'
      /\ x.method # "HEAD"
    BY DEF RW!ReadFrom, RW!MaySend, RW!InHandler
<1>2. IF short \/ (rest = 0 /\ ~direct) THEN
            /\ RW!Becomes(IF short THEN a.w ELSE w)
            /\ written' = a.written /\ accepted' = accepted + a.n
      ELSE IF direct THEN
            RW!Becomes(sent) /\ written' = a.written + rest /\ accepted' = accepted + n
      ELSE RW!Becomes(b.w) /\ written' = b.written /\ accepted' = accepted + a.n + b.n
    BY DEF RW!ReadFrom
<1>3. /\ x \in RW!Exchange /\ accepted \in Nat /\ RW!Response.done = FALSE /\ RW!Response.cw = cw
      /\ Framing(RW!Response, accepted)
      /\ Framing(RW!LogicalHeader(RW!Response), accepted)
      /\ RW!LogicalHeader(RW!Response).contentLength = x.cl
      /\ ~RW!LogicalHeader(RW!Response).done
      /\ IF begun THEN RW!Response.contentLength = x.cl ELSE ~cw.wroteHeader
      /\ Counted(accepted, written)
    BY <1>1, Calling
<1>4. n \in Nat \ {0} /\ first \in Nat /\ rest \in Nat /\ n = first + rest
      /\ (first = 0) = (cw.wroteHeader = TRUE)
    BY Sizes DEF RW!MinOf
<1> HIDE DEF first
<1>5. /\ Framing(a.w, accepted + a.n) /\ Counted(accepted + a.n, a.written)
      /\ ~a.w.done /\ a.w.contentLength = x.cl /\ a.n \in {0, first}
    <2>1. CASE first = 0
        <3>1. a.w = RW!Response /\ a.n = 0 /\ a.written = written
            BY <2>1
        <3> HIDE DEF a
        <3> QED
            BY <1>3, <1>4, <2>1, <3>1
    <2>2. CASE first # 0
        <3>1. a = RW!WrittenTo(RW!Response, first, written) /\ first \in Nat \ {0}
            BY <1>4, <2>2
        <3> HIDE DEF a
        <3> QED
            BY <1>3, <3>1, WrittenToKeeps
    <2> QED
        BY <2>1, <2>2
<1> DEFINE c == accepted + a.n
<1>6. c \in Nat /\ a.written \in Nat /\ a.n \in Nat
    BY <1>3, <1>4, <1>5 DEF Counted
<1> HIDE DEF a
<1>7. /\ Framing(w, c) /\ w.buffered = 0 /\ ~w.done /\ w.cw.wroteHeader /\ w.contentLength = x.cl
    <2>1. ~RW!AutoLength(a.w, a.w.buffered)
        BY <1>5 DEF RW!AutoLength
    <2> QED
        BY <1>3, <1>5, <2>1, FlushChunksKeeps
<1> HIDE DEF w, c, rest
<1>8. CASE short
    <2>1. RW!Becomes(a.w) /\ written' = a.written /\ accepted' = accepted + a.n
        BY <1>2, <1>8
    <2> QED
        BY <1>1, <1>5, <2>1, HandlerKeeps
<1>9. CASE ~short /\ rest = 0 /\ ~direct
    <2>1. RW!Becomes(w) /\ written' = a.written /\ accepted' = c
        BY <1>2, <1>9 DEF c
    <2> HIDE DEF short, direct
    <2> QED
        BY <1>1, <1>5, <1>7, <2>1, HandlerKeeps DEF c
<1>10. CASE ~short /\ direct
    <2>1. RW!Becomes(sent) /\ written' = a.written + rest /\ accepted' = accepted + n
        BY <1>2, <1>10
    <2>2. a.n = first
        <3>1. CASE cw.wroteHeader
            BY <1>4, <1>5, <3>1
        <3>2. CASE ~cw.wroteHeader
            <4>1. ~(a.n < first)
                BY <1>10, <3>2
            <4> QED
                BY <1>4, <1>5, <4>1
        <3> QED
            BY <3>1, <3>2
    <2>3. accepted + n = c + rest
        BY <1>3, <1>4, <2>2 DEF c
    <2>4. Counted(c + rest, a.written + rest)
        BY <1>3, <1>4, <1>5, <1>6 DEF Counted, c, RW!Exchange, RW!NoLength
    <2>5. Framing(sent, c + rest) /\ ~sent.done /\ sent.contentLength = x.cl
        <3> DEFINE wire == [w.wire EXCEPT !.raw = @ + rest]
        <3>1. w \in Writers /\ HeadSent(w) /\ ~Bodiless /\ ~w.cw.chunking
              /\ w.wire.chunks = <<>> /\ w.wire.raw + w.buffered = c
            BY <1>1, <1>7, <1>10 DEF Framing, BodySent, Bodiless
        <3>2. w.wire \in Wires /\ w.wire.raw \in Nat
            BY <3>1 DEF Writers, Wires
        <3>3. wire \in Wires /\ wire.raw = w.wire.raw + rest /\ wire.chunks = w.wire.chunks
            <4> DEFINE k == w.wire.raw + rest
            <4>1. k \in Nat
                BY <1>4, <3>2
            <4>2. wire = [w.wire EXCEPT !.raw = k]
                OBVIOUS
            <4> HIDE DEF k, wire
            <4> QED
                BY <3>2, <4>1, <4>2 DEF Wires, k
        <3>4. sent = [w EXCEPT !.wire = wire]
            OBVIOUS
        <3> HIDE DEF wire
        <3>5. /\ sent \in Writers /\ sent.wire = wire /\ sent.cw = w.cw /\ sent.close = w.close
              /\ sent.head = w.head /\ sent.contentLength = w.contentLength
              /\ sent.buffered = w.buffered /\ sent.done = w.done
            BY <3>1, <3>3, <3>4 DEF Writers
        <3> HIDE DEF sent
        <3>6. HeadSent(sent)
            BY <3>1, <3>5 DEF HeadSent
        <3>7. BodySent(sent, c + rest)
            <4>1. sent.wire.chunks = <<>> /\ sent.wire.raw + sent.buffered = c + rest
                BY <1>4, <1>6, <1>7, <3>1, <3>2, <3>3, <3>5
            <4> QED
                BY <3>1, <3>5, <4>1 DEF BodySent
        <3>8. c + rest \in Nat
            BY <1>4, <1>6
        <3> QED
            BY <1>7, <3>1, <3>5, <3>6, <3>7, <3>8 DEF Framing, Bodiless
    <2> HIDE DEF short, direct, sent
    <2> QED
        BY <1>1, <2>1, <2>3, <2>4, <2>5, HandlerKeeps
<1>11. CASE ~short /\ ~direct /\ rest # 0
    <2>1. RW!Becomes(b.w) /\ written' = b.written /\ accepted' = c + b.n
        BY <1>2, <1>11 DEF c
    <2>2. w \in Writers /\ RW!LogicalHeader(w) = w
        BY <1>7, LogicalSame DEF Framing
    <2>3. rest \in Nat \ {0}
        BY <1>4, <1>11
    <2>4. /\ Framing(b.w, c + b.n) /\ Counted(c + b.n, b.written) /\ ~b.w.done
          /\ b.w.contentLength = x.cl
        BY <1>3, <1>5, <1>7, <2>2, <2>3, WrittenToKeeps DEF c
    <2> HIDE DEF short, direct, b
    <2> QED
        BY <1>1, <2>1, <2>4, HandlerKeeps
<1> QED
    BY <1>8, <1>9, <1>10, <1>11

LEMMA FrameFinish ==
    ASSUME FrameInv, which = "reply", RW!finishRequest
    PROVE  FrameInv'
<1> DEFINE R == RW!Response
           ended == [R EXCEPT !.done = TRUE]
           u == RW!LogicalHeader(ended)
           w == RW!FlushChunks(u)
           last == IF w.cw.chunking THEN [w EXCEPT !.wire.last = TRUE] ELSE w
           wire == IF w.cw.chunking THEN [w.wire EXCEPT !.last = TRUE] ELSE w.wire
<1>1. /\ state = "handler" /\ state' = "finished" /\ x' = x
      /\ RW!Becomes(last) /\ accepted' = accepted /\ written' = written
    BY DEF RW!finishRequest, RW!InHandler, RW!FlushChunks
<1>2. /\ x \in RW!Exchange /\ Framing(R, accepted) /\ Counted(accepted, written)
      /\ IF begun THEN R.contentLength = x.cl ELSE ~cw.wroteHeader
      /\ R.cw = cw /\ accepted \in Nat
      /\ out = [head |-> out.head, continues |-> out.continues, wire |-> out.wire]
    BY <1>1, Calling
<1> HIDE DEF R
<1>3. Framing(ended, accepted) /\ ended.contentLength = R.contentLength /\ ended.cw = R.cw
    <2>1. R \in Writers
        BY <1>2 DEF Framing
    <2>2. /\ ended \in Writers /\ ended.contentLength = R.contentLength /\ ended.cw = R.cw
          /\ ended.close = R.close /\ ended.buffered = R.buffered /\ ended.wire = R.wire
          /\ ended.head = R.head
        BY <2>1 DEF Writers
    <2> HIDE DEF ended
    <2>3. HeadSent(R) => HeadSent(ended)
        BY <2>2 DEF HeadSent
    <2>4. BodySent(R, accepted) => BodySent(ended, accepted)
        BY <2>2 DEF BodySent
    <2> QED
        BY <1>2, <2>2, <2>3, <2>4 DEF Framing
<1> HIDE DEF ended
<1>4. /\ Framing(u, accepted) /\ u.contentLength = x.cl
    BY <1>2, <1>3, LogicalKeeps
<1> HIDE DEF u
<1>5. /\ Framing(w, accepted) /\ w.buffered = 0 /\ w.cw.wroteHeader
      /\ w.contentLength = IF ~u.cw.wroteHeader /\ RW!AutoLength(u, u.buffered)
                           THEN u.buffered ELSE u.contentLength
    BY <1>2, <1>4, FlushChunksKeeps
<1> HIDE DEF w
<1>6. w.contentLength = x.cl \/ (x.cl = -1 /\ w.contentLength = accepted)
    <2>1. ~u.cw.wroteHeader => u.buffered = accepted
        BY <1>4 DEF Framing
    <2>2. RW!AutoLength(u, u.buffered) => x.cl = -1
        BY DEF RW!AutoLength, RW!NoLength
    <2> QED
        BY <1>4, <1>5, <2>1, <2>2
<1>7. FramedReply(w.head, wire, accepted, w.contentLength, w.close, written)
    BY <1>2, <1>5, <1>6, FinishedFramed
<1>8. last.wire = wire /\ last.head = w.head /\ last.contentLength = w.contentLength
      /\ last.close = w.close
    <2>1. w \in Writers
        BY <1>5 DEF Framing
    <2>2. CASE w.cw.chunking
        <3> DEFINE v == [w EXCEPT !.wire.last = TRUE]
        <3>1. last = v
            BY <2>2
        <3>2. v.wire = [w.wire EXCEPT !.last = TRUE] /\ v.head = w.head
              /\ v.contentLength = w.contentLength /\ v.close = w.close
            BY <2>1 DEF Writers
        <3> HIDE DEF v, last
        <3> QED
            BY <2>2, <3>1, <3>2
    <2>3. CASE ~w.cw.chunking
        BY <2>3
    <2> QED
        BY <2>2, <2>3
<1> HIDE DEF last, wire
<1>9. /\ out'.wire = wire /\ out'.head = w.head /\ contentLength' = w.contentLength
      /\ closeAfterReply' = w.close
      /\ out' = [head |-> out'.head, continues |-> out'.continues, wire |-> out'.wire]
    <2>1. out' = [out EXCEPT !.wire = last.wire, !.head = last.head]
          /\ contentLength' = last.contentLength /\ closeAfterReply' = last.close
        BY <1>1 DEF RW!Becomes
    <2>2. out'.wire = last.wire /\ out'.head = last.head
        BY <1>2, <2>1
    <2> QED
        BY <1>1, <1>2, <1>8, <2>1, <2>2, BecomesKeeps
<1>10. RW!Framed'
    <2>1. RW!Reply' = RW!readTransfer(TRUE, x.status, x.method, x.minor, w.head)
        BY <1>1, <1>9 DEF RW!Reply
    <2>2. RW!Body' = RW!ReadBody(RW!Reply', wire)
        BY <1>9 DEF RW!Body
    <2>3. RW!shouldReuseConnection' =
            (~w.close /\ ~(x.method # "HEAD" /\ w.contentLength # RW!NoLength /\ RW!bodyAllowed
                           /\ w.contentLength # written))
        BY <1>1, <1>9 DEF RW!shouldReuseConnection, RW!bodyAllowed
    <2> QED
        BY <1>1, <1>7, <1>9, <2>1, <2>2, <2>3 DEF RW!Framed, FramedReply
<1> QED
    BY <1>1, <1>2, <1>9, <1>10 DEF FrameInv

\* The steps that only concern the 100 Continue.
LEMMA FrameContinue ==
    ASSUME FrameInv, which = "reply", RW!StartContinue \/ RW!WriteContinue
    PROVE  FrameInv'
<1>1. /\ UNCHANGED <<x, state, begun, contentLength, closeAfterReply, handlerDone, buffered,
                     written, cw, accepted>>
      /\ out' = out \/ \E s : out' = [out EXCEPT !.continues = s]
    <2>1. CASE RW!StartContinue
        BY <2>1 DEF RW!StartContinue
    <2>2. CASE RW!WriteContinue
        BY <2>2 DEF RW!WriteContinue
    <2> QED
        BY <2>1, <2>2
<1>2. out = [head |-> out.head, continues |-> out.continues, wire |-> out.wire]
    BY DEF FrameInv
<1>3. /\ out'.head = out.head /\ out'.wire = out.wire
      /\ out' = [head |-> out'.head, continues |-> out'.continues, wire |-> out'.wire]
    <2>1. CASE out' = out
        BY <1>2, <2>1
    <2>2. CASE \E s : out' = [out EXCEPT !.continues = s]
        <3>1. PICK s : out' = [out EXCEPT !.continues = s]
            BY <2>2
        <3>2. out' = [head |-> out.head, continues |-> s, wire |-> out.wire]
            BY <1>2, <3>1
        <3> QED
            BY <3>2
    <2> QED
        BY <1>1, <2>1, <2>2
<1>4. RW!Response' = RW!Response
    BY <1>1, <1>3 DEF RW!Response
<1>5. RW!Framed <=> RW!Framed'
    BY <1>1, <1>3 DEF RW!Framed, RW!Reply, RW!Body, RW!shouldReuseConnection, RW!bodyAllowed
<1>6. Framable => Framable'
    BY <1>1, <1>4 DEF Framable, Framing, HeadSent, BodySent, Bodiless, Counted, RW!bodyAllowed,
                      RW!CloseAfter, RW!HeadOf, RW!Chunking, RW!is11
<1> QED
    BY <1>1, <1>3, <1>5, <1>6 DEF FrameInv

LEMMA FrameStepInv ==
    HeadReadFrom = FALSE /\ FrameInv /\ [MCNext]_mcVars => FrameInv'
<1> SUFFICES ASSUME HeadReadFrom = FALSE, FrameInv, [MCNext]_mcVars, which' = "reply"
             PROVE  FrameInv'
    BY DEF FrameInv
<1>1. CASE ReplyStep
    <2>1. which = "reply" /\ RW!Next
        BY <1>1 DEF ReplyStep
    <2> QED
        BY <2>1, FrameWriteHeader, FrameFlush, FrameContinue, FrameFinish, FrameWrite, FrameReadFrom
           DEF RW!Next
<1>2. CASE TimeoutStep \/ MuxStep \/ LogStep
    BY <1>2 DEF TimeoutStep, Timeout, MuxStep, LogStep
<1>3. CASE UNCHANGED mcVars
    <2>1. UNCHANGED <<which, replyVars, out>>
        BY <1>3 DEF mcVars
    <2>2. UNCHANGED <<which, x, state, begun, contentLength, closeAfterReply, handlerDone, buffered,
                      written, cw, accepted, out>>
        BY <2>1 DEF replyVars
    <2>3. RW!Response' = RW!Response
        BY <2>2 DEF RW!Response
    <2>4. RW!Framed <=> RW!Framed'
        BY <2>2 DEF RW!Framed, RW!Reply, RW!Body, RW!shouldReuseConnection, RW!bodyAllowed
    <2>5. Framable => Framable'
        BY <2>2, <2>3 DEF Framable, Framing, HeadSent, BodySent, Bodiless, Counted, RW!bodyAllowed,
                          RW!CloseAfter, RW!HeadOf, RW!Chunking, RW!is11
    <2> QED
        BY <2>2, <2>4, <2>5 DEF FrameInv
<1> QED
    BY <1>1, <1>2, <1>3 DEF MCNext

\* A client that reads a reply by its header gets the bytes the handler wrote,
\* whatever header it set and in whatever pieces it wrote and flushed them, and
\* what the server keeps open the client finds clean; unless a file is copied in
\* answer to HEAD, which the code does not prevent (server.go chunkWriter,
\* response.write, ReadFrom, finishRequest, shouldReuseConnection).
THEOREM RepliesAreFramed == HeadReadFrom = FALSE => (MCSpec => []Framed)
<1>1. FrameInv => Framed
    BY DEF FrameInv, Framed
<1>2. (HeadReadFrom = FALSE) => (HeadReadFrom = FALSE)'
    OBVIOUS
<1> QED
    BY <1>1, <1>2, FrameInitInv, FrameStepInv, PTL DEF MCSpec

-----------------------------------------------------------------------------
(* ServeMux: what path.Clean makes of a path.                              *)

\* The provers do not know that a literal is a STRING.
Elems == STRING \cup {"/", "host:port"}
Special == {"/", ".", ".."}
Words == Elems \ Special
EnteredBy(p, f) ==
    /\ f \in [0..Len(p) -> Seq(Words)]
    /\ f[0] = <<>>
    /\ \A i \in 1..Len(p) : f[i] = Mux!Enter(f[i - 1], p[i])

LEMMA EnterType ==
    ASSUME NEW dir \in Seq(Words), NEW name \in Elems
    PROVE  Mux!Enter(dir, name) \in Seq(Words)
<1>1. CASE name \in {"/", "."}
    BY <1>1 DEF Mux!Enter
<1>2. CASE name = ".."
    <2>1. dir # <<>> => Mux!Front(dir) \in Seq(Words)
        <3>1. SUFFICES ASSUME dir # <<>> PROVE SubSeq(dir, 1, Len(dir) - 1) \in Seq(Words)
            BY DEF Mux!Front
        <3> QED
            BY <3>1, SubSeqProperties
    <2> QED
        BY <1>2, <2>1 DEF Mux!Enter
<1>3. CASE name \notin Special
    <2>1. Mux!Enter(dir, name) = Append(dir, name)
        BY <1>3 DEF Mux!Enter, Special
    <2>2. name \in Words
        BY <1>3 DEF Words
    <2>3. Append(dir, name) \in Seq(Words)
        BY <2>2, AppendProperties
    <2> QED
        BY <2>1, <2>3
<1> QED
    BY <1>1, <1>2, <1>3 DEF Special

LEMMA EnteredIs ==
    ASSUME NEW p \in Seq(Elems)
    PROVE  EnteredBy(p, Mux!Entered(p))
<1> DEFINE n == Len(p)
           F == CHOOSE f : f = [i \in 0..n |-> IF i = 0 THEN <<>> ELSE Mux!Enter(f[i - 1], p[i])]
           base == <<>>
           V == Seq(Words)
           step == [d \in (1..n) \X V |-> Mux!Enter(d[2], p[d[1]])]
<1>1. n \in Nat /\ \A i \in 1..n : p[i] \in Elems
    OBVIOUS
<1>2. base \in V
    OBVIOUS
<1>3. step \in [(1..n) \X V -> V]
    <2>1. ASSUME NEW d \in (1..n) \X V PROVE Mux!Enter(d[2], p[d[1]]) \in V
        <3>1. d[1] \in 1..n /\ d[2] \in Seq(Words)
            OBVIOUS
        <3>2. p[d[1]] \in Elems
            BY <1>1, <3>1
        <3> QED
            BY <3>1, <3>2, EnterType
    <2> QED
        BY <2>1
<1>4. PICK f \in [0..n -> V] : f[0] = <<>> /\ \A i \in 1..n : f[i] = step[<<i, f[i - 1]>>]
    <2>1. \E f : Recursive(n, V, base, step, f)
        <3> HIDE DEF step, n, base, V
        <3> QED
            BY <1>1, <1>2, <1>3, Recursion
    <2> QED
        BY <2>1 DEF Recursive
<1>5. ASSUME NEW i \in 1..n PROVE f[i] = Mux!Enter(f[i - 1], p[i])
    <2>1. i - 1 \in 0..n /\ f[i - 1] \in V
        <3>1. i - 1 \in 0..n
            BY <1>1
        <3> HIDE DEF V, n
        <3> QED
            BY <3>1
    <2>2. step[<<i, f[i - 1]>>] = Mux!Enter(f[i - 1], p[i])
        BY <2>1
    <2> HIDE DEF step
    <2> QED
        BY <1>4, <2>2
<1>6. f = [i \in 0..n |-> IF i = 0 THEN <<>> ELSE Mux!Enter(f[i - 1], p[i])]
    <2> HIDE DEF step, V
    <2> QED
        BY <1>1, <1>4, <1>5
<1>7. F = [i \in 0..n |-> IF i = 0 THEN <<>> ELSE Mux!Enter(F[i - 1], p[i])]
    BY <1>6
<1>8. Mux!Entered(p) = F
    BY DEF Mux!Entered
<1>9. F[0] = <<>> /\ \A i \in 1..n : F[i] = Mux!Enter(F[i - 1], p[i])
    <2> HIDE DEF F
    <2> QED
        BY <1>1, <1>7
<1>10. Nat \subseteq {i \in Nat : i <= n => F[i] \in Seq(Words)}
    <2> DEFINE S == {i \in Nat : i <= n => F[i] \in Seq(Words)}
    <2> HIDE DEF F
    <2>1. 0 \in S
        BY <1>2, <1>9
    <2>2. ASSUME NEW k \in Nat, k \in S PROVE k + 1 \in S
        <3>1. SUFFICES ASSUME k + 1 <= n PROVE F[k + 1] \in Seq(Words)
            OBVIOUS
        <3>2. k <= n /\ k + 1 \in 1..n /\ k + 1 - 1 = k
            BY <1>1, <3>1
        <3>3. F[k + 1] = Mux!Enter(F[k], p[k + 1]) /\ F[k] \in Seq(Words) /\ p[k + 1] \in Elems
            BY <1>1, <1>9, <2>2, <3>2
        <3> QED
            BY <3>3, EnterType
    <2> HIDE DEF S
    <2>3. Nat \subseteq S
        BY <2>1, <2>2, SetInduction
    <2> QED
        BY <2>3 DEF S
<1>11. F \in [0..n -> Seq(Words)]
    <2>1. \A i \in 0..n : F[i] \in Seq(Words)
        <3> HIDE DEF F
        <3> QED
            BY <1>1, <1>10
    <2> HIDE DEF F
    <2>2. DOMAIN F = 0..n /\ F = [i \in 0..n |-> F[i]]
        BY <1>7
    <2> QED
        BY <2>1, <2>2
<1> HIDE DEF F
<1> QED
    BY <1>8, <1>9, <1>11 DEF EnteredBy

LEMMA EnteredAlike ==
    ASSUME NEW p \in Seq(Elems), NEW q \in Seq(Elems), NEW n \in Nat,
           n <= Len(p), n <= Len(q), \A i \in 1..n : p[i] = q[i]
    PROVE  Mux!Entered(p)[n] = Mux!Entered(q)[n]
<1> DEFINE f == Mux!Entered(p)
           g == Mux!Entered(q)
           S == {i \in Nat : i <= n => f[i] = g[i]}
<1>1. EnteredBy(p, f) /\ EnteredBy(q, g)
    BY EnteredIs
<1>2. Len(p) \in Nat /\ Len(q) \in Nat
    OBVIOUS
<1> HIDE DEF f, g
<1>3. 0 \in S
    BY <1>1 DEF EnteredBy
<1>4. ASSUME NEW k \in Nat, k \in S PROVE k + 1 \in S
    <2>1. SUFFICES ASSUME k + 1 <= n PROVE f[k + 1] = g[k + 1]
        OBVIOUS
    <2>2. k <= n /\ k + 1 \in 1..n /\ k + 1 \in 1..Len(p) /\ k + 1 \in 1..Len(q) /\ k + 1 - 1 = k
        BY <1>2, <2>1
    <2>3. f[k] = g[k] /\ p[k + 1] = q[k + 1]
        BY <1>4, <2>2
    <2>4. f[k + 1] = Mux!Enter(f[k + 1 - 1], p[k + 1]) /\ g[k + 1] = Mux!Enter(g[k + 1 - 1], q[k + 1])
        BY <1>1, <2>2 DEF EnteredBy
    <2> QED
        BY <2>2, <2>3, <2>4
<1>5. Nat \subseteq S
    <2> HIDE DEF S
    <2> QED
        BY <1>3, <1>4, SetInduction
<1> QED
    BY <1>5 DEF f, g

LEMMA RootedIs ==
    ASSUME NEW names \in Seq(Words)
    PROVE  /\ Mux!Rooted(names) \in Seq(Elems) /\ Len(Mux!Rooted(names)) = 2 * Len(names)
           /\ \A i \in 1..Len(names) :
                Mux!Rooted(names)[2 * i - 1] = "/" /\ Mux!Rooted(names)[2 * i] = names[i]
<1> DEFINE n == Len(names)
           q == Mux!Rooted(names)
<1>1. n \in Nat /\ 2 * n \in Nat /\ \A i \in 1..n : names[i] \in Elems
    BY DEF Words
<1>2. q = [k \in 1..(2 * n) |-> IF k % 2 = 1 THEN "/" ELSE names[k \div 2]]
    BY DEF Mux!Rooted
<1>3. ASSUME NEW k \in 1..(2 * n), k % 2 # 1 PROVE k \div 2 \in 1..n
    BY <1>1, <1>3
<1>4. ASSUME NEW k \in 1..(2 * n) PROVE q[k] \in Elems
    <2>1. k % 2 = 1 => q[k] = "/"
        BY <1>2
    <2>2. k % 2 # 1 => q[k] = names[k \div 2]
        BY <1>2
    <2>3. k % 2 # 1 => names[k \div 2] \in Elems
        <3> HIDE DEF n, q
        <3> QED
            BY <1>1, <1>3
    <2>4. "/" \in Elems
        BY DEF Elems
    <2> HIDE DEF n, q
    <2> QED
        BY <2>1, <2>2, <2>3, <2>4
<1>5. q \in [1..(2 * n) -> Elems]
    BY <1>2, <1>4
<1>6. q \in Seq(Elems) /\ Len(q) = 2 * n
    <2> HIDE DEF n, q
    <2> QED
        BY <1>1, <1>5
<1>7. ASSUME NEW i \in 1..n PROVE q[2 * i - 1] = "/" /\ q[2 * i] = names[i]
    <2>1. 2 * i - 1 \in 1..(2 * n) /\ 2 * i \in 1..(2 * n) /\ (2 * i - 1) % 2 = 1
          /\ (2 * i) % 2 # 1 /\ (2 * i) \div 2 = i
        BY <1>1
    <2> HIDE DEF n, q
    <2> QED
        BY <1>2, <2>1
<1> QED
    BY <1>6, <1>7

LEMMA RootedEntered ==
    ASSUME NEW names \in Seq(Words)
    PROVE  Mux!Entered(Mux!Rooted(names))[2 * Len(names)] = names
<1> DEFINE n == Len(names)
           q == Mux!Rooted(names)
           f == Mux!Entered(q)
           S == {k \in Nat : k <= n => f[2 * k] = SubSeq(names, 1, k)}
<1>1. /\ q \in Seq(Elems) /\ Len(q) = 2 * n /\ n \in Nat
      /\ \A i \in 1..n : q[2 * i - 1] = "/" /\ q[2 * i] = names[i]
    BY RootedIs
<1> HIDE DEF q
<1>2. EnteredBy(q, f)
    BY <1>1, EnteredIs
<1> HIDE DEF f
<1>3. 0 \in S
    <2>1. f[0] = <<>> /\ SubSeq(names, 1, 0) = <<>> /\ 2 * 0 = 0
        BY <1>2 DEF EnteredBy
    <2> QED
        BY <2>1
<1>4. ASSUME NEW k \in Nat, k \in S PROVE k + 1 \in S
    <2>1. SUFFICES ASSUME k + 1 <= n PROVE f[2 * (k + 1)] = SubSeq(names, 1, k + 1)
        OBVIOUS
    <2>2. /\ k <= n /\ k + 1 \in 1..n /\ 2 * (k + 1) \in 1..Len(q) /\ 2 * (k + 1) - 1 \in 1..Len(q)
          /\ 2 * (k + 1) - 1 - 1 = 2 * k
        BY <1>1, <2>1
    <2>3. f[2 * k] = SubSeq(names, 1, k)
        BY <1>4, <2>2
    <2>4. f[2 * (k + 1) - 1] = Mux!Enter(f[2 * (k + 1) - 1 - 1], "/")
        BY <1>1, <1>2, <2>2 DEF EnteredBy
    <2>5. f[2 * (k + 1) - 1] = f[2 * k]
        BY <2>2, <2>4 DEF Mux!Enter
    <2>6. f[2 * (k + 1)] = Mux!Enter(f[2 * (k + 1) - 1], names[k + 1])
        BY <1>1, <1>2, <2>2 DEF EnteredBy
    <2>7. names[k + 1] \notin {"/", ".", ".."}
        BY <2>2 DEF Words, Special
    <2>8. f[2 * (k + 1)] = Append(SubSeq(names, 1, k), names[k + 1])
        BY <2>3, <2>5, <2>6, <2>7 DEF Mux!Enter
    <2>9. Append(SubSeq(names, 1, k), names[k + 1]) = SubSeq(names, 1, k + 1)
        BY <1>1, <2>2
    <2> QED
        BY <2>8, <2>9
<1>5. Nat \subseteq S
    <2> HIDE DEF S
    <2> QED
        BY <1>3, <1>4, SetInduction
<1>6. f[2 * n] = SubSeq(names, 1, n)
    BY <1>1, <1>5
<1>7. SubSeq(names, 1, n) = names
    OBVIOUS
<1> QED
    BY <1>6, <1>7 DEF f, q

(* A slash at the end enters nothing.                                      *)
LEMMA CleanSlash ==
    ASSUME NEW p \in Seq(Elems)
    PROVE  /\ p \o <<"/">> \in Seq(Elems) /\ Len(p \o <<"/">>) = Len(p) + 1
           /\ (p \o <<"/">>)[Len(p) + 1] = "/" /\ Mux!EndsInSlash(p \o <<"/">>)
           /\ Mux!Clean(p \o <<"/">>) = Mux!Clean(p)
<1> DEFINE q == p \o <<"/">>
           n == Len(p)
<1>1. /\ q \in Seq(Elems) /\ Len(q) = n + 1 /\ n \in Nat /\ q[n + 1] = "/"
      /\ \A i \in 1..n : q[i] = p[i]
    <2>1. <<"/">> \in Seq(Elems) /\ Len(<<"/">>) = 1 /\ <<"/">>[1] = "/" /\ n \in Nat
        BY DEF Elems
    <2>2. n + 1 \in 1..(n + 1) /\ n + 1 - n = 1 /\ \A i \in 1..n : i \in 1..(n + 1) /\ i <= n
        BY <2>1
    <2> HIDE DEF n
    <2>3. /\ p \o <<"/">> \in Seq(Elems) /\ Len(p \o <<"/">>) = n + 1
          /\ \A i \in 1..(n + 1) : (p \o <<"/">>)[i] = IF i <= n THEN p[i] ELSE <<"/">>[i - n]
        BY <2>1, ConcatProperties DEF n
    <2> QED
        BY <2>1, <2>2, <2>3
<1> HIDE DEF q
<1>2. q # <<>> /\ Mux!EndsInSlash(q)
    BY <1>1 DEF Mux!EndsInSlash
<1>3. Mux!Entered(q)[n] = Mux!Entered(p)[n]
    BY <1>1, EnteredAlike
<1>4. Mux!Entered(q)[n + 1] = Mux!Entered(q)[n]
    <2>1. EnteredBy(q, Mux!Entered(q)) /\ n + 1 \in 1..Len(q) /\ n + 1 - 1 = n
        BY <1>1, EnteredIs
    <2>2. Mux!Entered(q)[n + 1] = Mux!Enter(Mux!Entered(q)[n], "/")
        BY <1>1, <2>1 DEF EnteredBy
    <2> QED
        BY <2>2 DEF Mux!Enter
<1>5. Mux!Clean(q) = Mux!Clean(p)
    BY <1>1, <1>3, <1>4 DEF Mux!Clean
<1> QED
    BY <1>1, <1>2, <1>5 DEF q

Named == Seq(Words) \ {<<>>}

LEMMA RootedClean ==
    ASSUME NEW names \in Named
    PROVE  /\ Mux!Rooted(names) \in Seq(Elems) \ {<<>>}
           /\ ~Mux!EndsInSlash(Mux!Rooted(names))
           /\ Mux!Rooted(names) # <<"/">>
           /\ Mux!Clean(Mux!Rooted(names)) = Mux!Rooted(names)
<1> DEFINE n == Len(names)
           q == Mux!Rooted(names)
<1>1. names \in Seq(Words) /\ n \in Nat \ {0} /\ names[n] \in Words /\ n \in 1..n
    BY DEF Named
<1>2. /\ q \in Seq(Elems) /\ Len(q) = 2 * n
      /\ \A i \in 1..n : q[2 * i - 1] = "/" /\ q[2 * i] = names[i]
    BY <1>1, RootedIs
<1>3. Mux!Entered(q)[2 * n] = names
    BY <1>1, RootedEntered
<1>4. names # <<>>
    BY DEF Named
<1> HIDE DEF q, n
<1>5. q[Len(q)] = names[n] /\ names[n] # "/" /\ Len(q) # 0 /\ Len(q) # 1
    BY <1>1, <1>2 DEF Words, Special
<1>6. q # <<>> /\ q # <<"/">>
    BY <1>5
<1>7. Mux!Clean(q) = q
    BY <1>2, <1>3, <1>4 DEF Mux!Clean, q
<1> QED
    BY <1>2, <1>5, <1>6, <1>7 DEF Mux!EndsInSlash, q

(* What cleanPath makes of a path: the root, or a path without empty or    *)
(* dotted elements, with a slash at its end only if there was one.         *)
CleanDir(q) == q = <<"/">> \/ \E names \in Named : q = Mux!Rooted(names) \o <<"/">>
CleanFile(q) == \E names \in Named : q = Mux!Rooted(names)

LEMMA CleanIs ==
    ASSUME NEW p \in Seq(Elems)
    PROVE  Mux!Clean(p) = <<"/">> \/ CleanFile(Mux!Clean(p))
<1>1. Mux!Entered(p)[Len(p)] \in Seq(Words)
    BY EnteredIs DEF EnteredBy
<1> QED
    BY <1>1 DEF Mux!Clean, CleanFile, Named, Mux!Slash

LEMMA CleanPathIs ==
    ASSUME NEW p \in Seq(Elems)
    PROVE  /\ CleanDir(Mux!cleanPath(p)) \/ CleanFile(Mux!cleanPath(p))
           /\ Mux!EndsInSlash(p) => CleanDir(Mux!cleanPath(p))
<1>1. CASE Mux!Clean(p) = <<"/">>
    BY <1>1 DEF Mux!cleanPath, CleanDir, Mux!Slash
<1>2. CASE CleanFile(Mux!Clean(p))
    <2>1. PICK names \in Named : Mux!Clean(p) = Mux!Rooted(names)
        BY <1>2 DEF CleanFile
    <2>2. Mux!Clean(p) # <<"/">>
        BY <2>1, RootedClean
    <2>3. Mux!EndsInSlash(p) => p # <<>>
        BY DEF Mux!EndsInSlash
    <2>4. Mux!EndsInSlash(p) => Mux!cleanPath(p) = Mux!Rooted(names) \o <<"/">>
        BY <2>1, <2>2, <2>3 DEF Mux!cleanPath, Mux!Slash
    <2>5. ~Mux!EndsInSlash(p) => Mux!cleanPath(p) = Mux!Rooted(names)
        BY <2>1 DEF Mux!cleanPath
    <2> QED
        BY <2>4, <2>5 DEF CleanDir, CleanFile
<1> QED
    BY <1>1, <1>2, CleanIs

LEMMA CleanDirStays ==
    ASSUME NEW q, CleanDir(q)
    PROVE  q \in Seq(Elems) \ {<<>>} /\ Mux!EndsInSlash(q) /\ Mux!cleanPath(q) = q
<1>1. CASE q = <<"/">>
    <2>1. <<>> \in Seq(Elems) /\ <<>> \o <<"/">> = <<"/">> /\ Len(<<>>) = 0
        OBVIOUS
    <2>2. q \in Seq(Elems) \ {<<>>} /\ Mux!EndsInSlash(q) /\ Mux!Clean(q) = Mux!Clean(<<>>)
        BY <1>1, <2>1, CleanSlash
    <2>3. Mux!Clean(<<>>) = <<"/">>
        <3>1. Mux!Entered(<<>>)[0] = <<>>
            BY <2>1, EnteredIs DEF EnteredBy
        <3> QED
            BY <2>1, <3>1 DEF Mux!Clean, Mux!Slash
    <2> QED
        BY <1>1, <2>2, <2>3 DEF Mux!cleanPath, Mux!Slash
<1>2. ASSUME NEW names \in Named, q = Mux!Rooted(names) \o <<"/">>
      PROVE  q \in Seq(Elems) \ {<<>>} /\ Mux!EndsInSlash(q) /\ Mux!cleanPath(q) = q
    <2> DEFINE d == Mux!Rooted(names)
    <2>1. d \in Seq(Elems) /\ d # <<"/">> /\ Mux!Clean(d) = d
        BY RootedClean
    <2> HIDE DEF d
    <2>2. q = d \o <<"/">>
        BY <1>2 DEF d
    <2>3. q \in Seq(Elems) /\ Mux!EndsInSlash(q) /\ Mux!Clean(q) = d
        BY <2>1, <2>2, CleanSlash
    <2>4. q # <<>>
        BY <2>3 DEF Mux!EndsInSlash
    <2> QED
        BY <2>1, <2>2, <2>3, <2>4 DEF Mux!cleanPath, Mux!Slash
<1> QED
    BY <1>1, <1>2 DEF CleanDir

LEMMA CleanFileStays ==
    ASSUME NEW q, CleanFile(q)
    PROVE  /\ q \in Seq(Elems) \ {<<>>} /\ ~Mux!EndsInSlash(q) /\ Mux!cleanPath(q) = q
           /\ CleanDir(q \o <<"/">>)
<1>1. PICK names \in Named : q = Mux!Rooted(names)
    BY DEF CleanFile
<1>2. q \in Seq(Elems) \ {<<>>} /\ ~Mux!EndsInSlash(q) /\ Mux!Clean(q) = q
    BY <1>1, RootedClean
<1>3. Mux!cleanPath(q) = q
    BY <1>2 DEF Mux!cleanPath
<1> QED
    BY <1>1, <1>2, <1>3 DEF CleanDir

(* ServeMux: the longest pattern.                                          *)

\* One sequence begins with the other.
LEMMA PrefixIs ==
    ASSUME NEW s \in Seq(Elems), NEW t \in Seq(Elems)
    PROVE  Mux!IsPrefix(s, t) <=> Len(s) <= Len(t) /\ \A i \in 1..Len(s) : s[i] = t[i]
<1>1. CASE Len(s) <= Len(t)
    <2> DEFINE a == SubSeq(s, 1, Len(s))
               b == SubSeq(t, 1, Len(s))
    <2>1. a = [i \in 1..Len(s) |-> s[i]] /\ b = [i \in 1..Len(s) |-> t[i]]
        BY <1>1
    <2>2. a = b <=> \A i \in 1..Len(s) : s[i] = t[i]
        BY <2>1
    <2> QED
        BY <1>1, <2>2 DEF Mux!IsPrefix
<1>2. CASE ~(Len(s) <= Len(t))
    BY <1>2 DEF Mux!IsPrefix
<1> QED
    BY <1>1, <1>2

LEMMA PrefixSame ==
    ASSUME NEW s \in Seq(Elems), NEW t \in Seq(Elems), NEW p \in Seq(Elems),
           Mux!IsPrefix(s, p), Mux!IsPrefix(t, p), Len(s) = Len(t)
    PROVE  s = t
<1>1. \A i \in 1..Len(s) : s[i] = t[i]
    BY PrefixIs
<1> QED
    BY <1>1

\* The pattern match finds, where es is sorted from the longest on.
Patterned(S) == S \subseteq Seq(Elems) \ {<<>>}
Sorted(S, s) ==
    /\ s \in Seq(Seq(Elems))
    /\ \A i \in 1..Len(s) : s[i] \in S /\ Mux!EndsInSlash(s[i])
    /\ \A q \in S : Mux!EndsInSlash(q) => \E i \in 1..Len(s) : s[i] = q
    /\ \A i, j \in 1..Len(s) : i <= j => Len(s[j]) <= Len(s[i])

LEMMA SelectFirst ==
    ASSUME NEW I, NEW n \in Nat, I \subseteq 1..n, I # {}
    PROVE  Mux!Min(I) \in I /\ \A i \in I : Mux!Min(I) <= i
<1>1. \E i \in I : \A j \in I : i <= j
    <2>1. I \subseteq Nat
        OBVIOUS
    <2> QED
        BY <2>1, LeastNumber
<1>2. Mux!Min(I) = CHOOSE i \in I : \A j \in I : i <= j
    BY DEF Mux!Min
<1> QED
    BY <1>1, <1>2

LEMMA InsertedSorted ==
    ASSUME NEW S, Patterned(S), NEW s, Sorted(S, s), NEW p \in Seq(Elems) \ {<<>>}, Mux!EndsInSlash(p)
    PROVE  Sorted(S \cup {p}, Mux!appendSorted(s, p))
<1> DEFINE n == Len(s)
           I == {i \in 1..n : Len(s[i]) < Len(p)}
           t == Mux!appendSorted(s, p)
<1>1. s \in Seq(Seq(Elems)) /\ n \in Nat /\ Len(p) \in Nat /\ \A i \in 1..n : s[i] \in Seq(Elems) /\ Len(s[i]) \in Nat
    BY DEF Sorted
<1>2. PICK k \in 1..(n + 1) :
        /\ \A i \in 1..(k - 1) : Len(p) <= Len(s[i])
        /\ \A i \in k..n : Len(s[i]) <= Len(p)
        /\ t \in Seq(Seq(Elems)) /\ Len(t) = n + 1
        /\ \A i \in 1..(n + 1) : t[i] = IF i < k THEN s[i] ELSE IF i = k THEN p ELSE s[i - 1]
    <2>1. CASE I = {}
        <3>1. t = Append(s, p)
            BY <2>1 DEF Mux!appendSorted, Mux!SelectInSeq
        <3>2. t \in Seq(Seq(Elems)) /\ Len(t) = n + 1 /\ \A i \in 1..(n + 1) : t[i] = IF i < n + 1 THEN s[i] ELSE p
            BY <1>1, <3>1, AppendProperties
        <3>3. \A i \in 1..n : Len(p) <= Len(s[i])
            BY <1>1, <2>1
        <3>4. n + 1 \in 1..(n + 1) /\ (n + 1)..n = {} /\ n + 1 - 1 = n
            BY <1>1
        <3> HIDE DEF n, I, t
        <3>5. PICK k \in 1..(n + 1) : k = n + 1 /\ k - 1 = n
            <4> DEFINE k == n + 1
            <4>1. k \in 1..(n + 1) /\ k - 1 = n
                BY <1>1
            <4> QED
                BY ONLY <4>1
        <3>6. ASSUME NEW i \in 1..(n + 1)
              PROVE  t[i] = IF i < k THEN s[i] ELSE IF i = k THEN p ELSE s[i - 1]
            <4>1. i < n + 1 \/ i = n + 1
                BY <1>1
            <4> QED
                BY <3>2, <3>5, <4>1
        <3>7. \A i \in k..n : Len(s[i]) <= Len(p)
            BY <3>4, <3>5
        <3>8. \A i \in 1..(k - 1) : Len(p) <= Len(s[i])
            BY ONLY <3>3, <3>5
        <3> QED
            BY <3>2, <3>6, <3>7, <3>8
    <2>2. CASE I # {}
        <3> DEFINE k == Mux!Min(I)
        <3>1. k \in I /\ \A i \in I : k <= i
            BY <1>1, <2>2, SelectFirst
        <3>2. t = Mux!InsertAt(s, k, p)
            <4>1. k # 0
                BY <3>1
            <4> QED
                BY <2>2, <4>1 DEF Mux!appendSorted, Mux!SelectInSeq
        <3>3. k \in 1..n /\ Len(s[k]) < Len(p)
            BY <3>1
        <3>4. \A i \in 1..(k - 1) : Len(p) <= Len(s[i])
            <4>1. ASSUME NEW i \in 1..(k - 1) PROVE Len(p) <= Len(s[i])
                <5>1. i \in 1..n /\ ~(k <= i)
                    BY <1>1, <3>3
                <5>2. i \notin I
                    BY <3>1, <5>1
                <5> QED
                    BY <1>1, <5>1, <5>2
            <4> QED
                BY <4>1
        <3>5. \A i \in k..n : Len(s[i]) <= Len(p)
            <4>1. ASSUME NEW i \in k..n PROVE Len(s[i]) <= Len(p)
                <5>1. i \in 1..n /\ k <= i
                    BY <1>1, <3>3
                <5>2. Len(s[i]) <= Len(s[k])
                    BY <3>3, <5>1 DEF Sorted
                <5> QED
                    BY <1>1, <3>3, <5>1, <5>2
            <4> QED
                BY <4>1
        <3> HIDE DEF k, I
        <3>6. /\ t \in Seq(Seq(Elems)) /\ Len(t) = n + 1
              /\ \A i \in 1..(n + 1) : t[i] = IF i < k THEN s[i] ELSE IF i = k THEN p ELSE s[i - 1]
            <4> DEFINE a == SubSeq(s, 1, k - 1)
                       b == <<p>>
                       c == SubSeq(s, k, n)
            <4>1. t = (a \o b) \o c
                BY <3>2 DEF Mux!InsertAt
            <4>2. a \in Seq(Seq(Elems)) /\ Len(a) = k - 1 /\ \A i \in 1..(k - 1) : a[i] = s[i]
                BY <1>1, <3>3
            <4>3. c \in Seq(Seq(Elems)) /\ Len(c) = n - k + 1 /\ \A i \in 1..(n - k + 1) : c[i] = s[k + i - 1]
                BY <1>1, <3>3
            <4>4. b \in Seq(Seq(Elems)) /\ Len(b) = 1 /\ b[1] = p
                OBVIOUS
            <4> HIDE DEF a, b, c
            <4>5. /\ a \o b \in Seq(Seq(Elems)) /\ Len(a \o b) = k
                  /\ \A i \in 1..k : (a \o b)[i] = IF i < k THEN s[i] ELSE p
                <5>1. /\ a \o b \in Seq(Seq(Elems)) /\ Len(a \o b) = Len(a) + Len(b)
                      /\ \A i \in 1..(Len(a) + Len(b)) :
                            (a \o b)[i] = IF i <= Len(a) THEN a[i] ELSE b[i - Len(a)]
                    BY <4>2, <4>4, ConcatProperties
                <5>2. k \in Nat \ {0} /\ Len(a) + Len(b) = k
                    BY <1>1, <3>3, <4>2, <4>4
                <5>3. ASSUME NEW i \in 1..k PROVE (a \o b)[i] = IF i < k THEN s[i] ELSE p
                    <6>1. CASE i < k
                        <7>1. i \in 1..(k - 1) /\ i <= Len(a) /\ i \in 1..(Len(a) + Len(b))
                            BY <4>2, <5>2, <6>1
                        <7> QED
                            BY <4>2, <5>1, <6>1, <7>1
                    <6>2. CASE i = k
                        <7>1. ~(i <= Len(a)) /\ i - Len(a) = 1 /\ i \in 1..(Len(a) + Len(b)) /\ ~(i < k)
                            BY <4>2, <5>2, <6>2
                        <7> QED
                            BY <4>4, <5>1, <7>1
                    <6> QED
                        BY <5>2, <6>1, <6>2
                <5> QED
                    BY <5>1, <5>2, <5>3
            <4>6. /\ t \in Seq(Seq(Elems)) /\ Len(t) = k + (n - k + 1)
                  /\ \A i \in 1..(k + (n - k + 1)) : t[i] = IF i <= k THEN (a \o b)[i] ELSE c[i - k]
                BY <4>1, <4>3, <4>5, ConcatProperties
            <4>7. k + (n - k + 1) = n + 1
                BY <1>1, <3>3
            <4>8. ASSUME NEW i \in 1..(n + 1)
                  PROVE  t[i] = IF i < k THEN s[i] ELSE IF i = k THEN p ELSE s[i - 1]
                <5>1. CASE i <= k
                    <6>1. i \in 1..k /\ (i < k \/ (i = k /\ ~(i < k)))
                        BY <1>1, <3>3, <5>1
                    <6>2. t[i] = (a \o b)[i]
                        BY <4>6, <4>7, <5>1
                    <6> QED
                        BY <4>5, <6>1, <6>2
                <5>2. CASE k < i
                    <6>1. i - k \in 1..(n - k + 1) /\ k + (i - k) - 1 = i - 1 /\ ~(i <= k) /\ ~(i < k) /\ i # k
                        BY <1>1, <3>3, <5>2
                    <6>2. t[i] = c[i - k] /\ c[i - k] = s[k + (i - k) - 1]
                        BY <4>3, <4>6, <4>7, <6>1
                    <6> QED
                        BY <6>1, <6>2
                <5> QED
                    BY <1>1, <3>3, <5>1, <5>2
            <4> QED
                BY <4>6, <4>7, <4>8
        <3>7. k \in 1..(n + 1)
            BY <1>1, <3>3
        <3> HIDE DEF n, t
        <3> QED
            BY <3>4, <3>5, <3>6, <3>7
    <2> QED
        BY <2>1, <2>2
<1> HIDE DEF t, I
<1>3. \A i \in 1..(n + 1) : t[i] \in S \cup {p} /\ Mux!EndsInSlash(t[i])
    <2>1. ASSUME NEW i \in 1..(n + 1) PROVE t[i] = p \/ \E j \in 1..n : t[i] = s[j]
        <3>1. CASE i < k
            <4>1. i \in 1..n /\ t[i] = s[i]
                BY <1>1, <1>2, <3>1
            <4> QED
                BY <4>1
        <3>2. CASE k < i
            <4>1. i - 1 \in 1..n /\ t[i] = s[i - 1]
                BY <1>1, <1>2, <3>2
            <4> QED
                BY <4>1
        <3>3. CASE i = k
            BY <1>2, <3>3
        <3> QED
            BY <1>1, <3>1, <3>2, <3>3
    <2>2. \A j \in 1..n : s[j] \in S /\ Mux!EndsInSlash(s[j])
        BY DEF Sorted
    <2> HIDE DEF n
    <2> QED
        BY <2>1, <2>2
<1>4. ASSUME NEW q \in S \cup {p}, Mux!EndsInSlash(q) PROVE \E i \in 1..(n + 1) : t[i] = q
    <2>1. CASE q = p
        <3>1. t[k] = p
            BY <1>1, <1>2
        <3> QED
            BY <2>1, <3>1
    <2>2. CASE q \in S
        <3>1. PICK j \in 1..n : s[j] = q
            BY <1>4, <2>2 DEF Sorted
        <3>2. CASE j < k
            <4>1. j \in 1..(n + 1) /\ t[j] = s[j]
                BY <1>1, <1>2, <3>2
            <4> QED
                BY <3>1, <4>1
        <3>3. CASE k <= j
            <4>1. j + 1 \in 1..(n + 1) /\ ~(j + 1 < k) /\ j + 1 # k /\ j + 1 - 1 = j
                BY <1>1, <1>2, <3>3
            <4>2. t[j + 1] = s[j]
                BY <1>2, <4>1
            <4> QED
                BY <3>1, <4>1, <4>2
        <3> QED
            BY <1>1, <1>2, <3>2, <3>3
    <2> QED
        BY <2>1, <2>2
<1>5. ASSUME NEW i \in 1..(n + 1), NEW j \in 1..(n + 1), i <= j PROVE Len(t[j]) <= Len(t[i])
    <2>0. \A a, b \in 1..n : a <= b => Len(s[b]) <= Len(s[a])
        BY DEF Sorted
    <2> HIDE DEF n
    <2>1. CASE j < k
        <3>1. i \in 1..n /\ j \in 1..n /\ t[i] = s[i] /\ t[j] = s[j]
            BY <1>1, <1>2, <1>5, <2>1
        <3> QED
            BY <1>5, <2>0, <3>1
    <2>2. CASE j = k
        <3>1. CASE i < k
            <4>1. i \in 1..(k - 1) /\ t[i] = s[i] /\ t[j] = p
                BY <1>1, <1>2, <2>2, <3>1
            <4> QED
                BY <1>2, <4>1
        <3>2. CASE i = k
            BY <1>1, <1>2, <2>2, <3>2
        <3> QED
            BY <1>1, <1>2, <1>5, <2>2, <3>1, <3>2
    <2>3. CASE k < j
        <3>1. j - 1 \in k..n /\ j - 1 \in 1..n /\ t[j] = s[j - 1]
            BY <1>1, <1>2, <2>3
        <3>2. Len(s[j - 1]) <= Len(p)
            BY <1>2, <3>1
        <3>3. CASE i < k
            <4>1. i \in 1..n /\ i <= j - 1 /\ t[i] = s[i]
                BY <1>1, <1>2, <2>3, <3>3
            <4> QED
                BY <2>0, <3>1, <4>1
        <3>4. CASE i = k
            BY <1>2, <3>1, <3>2, <3>4
        <3>5. CASE k < i
            <4>1. i - 1 \in 1..n /\ i - 1 <= j - 1 /\ t[i] = s[i - 1]
                BY <1>1, <1>2, <1>5, <3>5
            <4> QED
                BY <2>0, <3>1, <4>1
        <3> QED
            BY <1>1, <1>2, <3>3, <3>4, <3>5
    <2> QED
        BY <1>1, <1>2, <2>1, <2>2, <2>3
<1>6. t \in Seq(Seq(Elems)) /\ Len(t) = n + 1
    BY <1>2
<1> HIDE DEF n
<1>7. Sorted(S \cup {p}, t)
    BY <1>3, <1>4, <1>5, <1>6 DEF Sorted
<1> QED
    BY <1>7 DEF t

LEMMA LongestIs ==
    ASSUME NEW p \in Seq(Elems), NEW S, S \subseteq Seq(Elems), \A q \in S : Mux!IsPrefix(q, p),
           NEW l \in S, \A o \in S : Len(o) <= Len(l)
    PROVE  Mux!Longest(S) = l
<1> DEFINE c == CHOOSE q \in S : \A o \in S : Len(o) <= Len(q)
<1>1. c \in S /\ \A o \in S : Len(o) <= Len(c)
    OBVIOUS
<1>2. c = Mux!Longest(S)
    BY DEF Mux!Longest
<1> HIDE DEF c
<1>3. Len(c) \in Nat /\ Len(l) \in Nat /\ Len(c) <= Len(l) /\ Len(l) <= Len(c)
    BY <1>1
<1>4. Len(c) = Len(l)
    BY <1>3
<1>5. c = l
    BY <1>1, <1>4, PrefixSame
<1> QED
    BY <1>2, <1>5

LEMMA MatchingIs ==
    ASSUME Patterned(m), NEW p \in Seq(Elems)
    PROVE  /\ Mux!Matching(p) \subseteq Seq(Elems) \ {<<>>}
           /\ \A q \in Mux!Matching(p) : q \in m /\ Mux!IsPrefix(q, p)
<1>1. Mux!IsPrefix(p, p)
    BY PrefixIs
<1> QED
    BY <1>1 DEF Patterned, Mux!Matching

LEMMA MatchIs ==
    ASSUME Patterned(m), Sorted(m, es), NEW p \in Seq(Elems)
    PROVE  /\ Mux!Matching(p) = {} => Mux!match(p) = <<>>
           /\ Mux!Matching(p) # {} =>
                Mux!match(p) = Mux!Longest(Mux!Matching(p)) /\ Mux!match(p) # <<>>
<1> DEFINE S == Mux!Matching(p)
           I == {i \in 1..Len(es) : Mux!IsPrefix(es[i], p)}
<1>1. S \subseteq Seq(Elems) \ {<<>>} /\ \A q \in S : q \in m /\ Mux!IsPrefix(q, p)
    BY MatchingIs
<1>2. ASSUME p \in m PROVE p \in S /\ Mux!match(p) = p /\ Mux!Longest(S) = p
    <2>1. p \in S /\ Mux!match(p) = p
        BY <1>2 DEF Mux!Matching, Mux!match
    <2>2. \A o \in S : Len(o) <= Len(p)
        BY <1>1, PrefixIs
    <2> HIDE DEF S
    <2> QED
        BY <1>1, <2>1, <2>2, LongestIs
<1>3. ASSUME p \notin m, I = {} PROVE S = {} /\ Mux!match(p) = <<>>
    <2>1. Mux!match(p) = <<>>
        BY <1>3 DEF Mux!match, Mux!SelectInSeq, Mux!NotFound
    <2>2. ASSUME NEW q \in S PROVE FALSE
        <3>1. q \in m /\ Mux!EndsInSlash(q) /\ Mux!IsPrefix(q, p)
            BY <1>3, <2>2 DEF Mux!Matching
        <3>2. PICK i \in 1..Len(es) : es[i] = q
            BY <3>1 DEF Sorted
        <3> QED
            BY <1>3, <3>1, <3>2
    <2> QED
        BY <2>1, <2>2
<1>4. ASSUME p \notin m, I # {}
      PROVE  Mux!match(p) \in S /\ Mux!Longest(S) = Mux!match(p)
    <2> DEFINE k == Mux!Min(I)
    <2>1. k \in I /\ \A i \in I : k <= i
        <3>1. Len(es) \in Nat
            BY DEF Sorted
        <3> QED
            BY <1>4, <3>1, SelectFirst
    <2>2. Mux!match(p) = es[k]
        <3>1. k # 0
            BY <2>1
        <3> QED
            BY <1>4, <3>1 DEF Mux!match, Mux!SelectInSeq
    <2>3. k \in 1..Len(es) /\ Mux!IsPrefix(es[k], p)
        BY <2>1
    <2>4. es[k] \in S
        BY <2>3 DEF Sorted, Mux!Matching
    <2>5. ASSUME NEW o \in S PROVE Len(o) <= Len(es[k])
        <3>1. o \in m /\ Mux!EndsInSlash(o) /\ Mux!IsPrefix(o, p)
            BY <1>4, <2>5 DEF Mux!Matching
        <3>2. PICK j \in 1..Len(es) : es[j] = o
            BY <3>1 DEF Sorted
        <3>3. k <= j
            BY <2>1, <3>1, <3>2
        <3> QED
            BY <2>3, <3>2, <3>3 DEF Sorted
    <2> HIDE DEF k, I, S
    <2>6. Mux!Longest(S) = es[k]
        BY <1>1, <2>4, <2>5, LongestIs
    <2> QED
        BY <2>2, <2>4, <2>6
<1> HIDE DEF S, I
<1> QED
    BY <1>1, <1>2, <1>3, <1>4 DEF S

-----------------------------------------------------------------------------
(* ServeMux: the patterns are sorted, and any host is known.               *)

MuxOK ==
    /\ Patterned(m) /\ Sorted(m, es)
    /\ hosts = \E q \in m : q[1] # "/"
    /\ req \in [method : STRING, host : Elems \ {"/"}, port : BOOLEAN, path : Seq(Elems)]
    /\ at = "moved" => answer \in Seq(Elems)
MuxInv == which = "mux" => MuxOK

LEMMA CleanPathType ==
    ASSUME NEW p \in Seq(Elems)
    PROVE  /\ Mux!cleanPath(p) \in Seq(Elems) \ {<<>>}
           /\ Mux!cleanPath(Mux!cleanPath(p)) = Mux!cleanPath(p)
BY CleanPathIs, CleanDirStays, CleanFileStays

LEMMA PathType ==
    ASSUME MuxOK
    PROVE  /\ Mux!path \in Seq(Elems) /\ Mux!host \in Elems /\ Mux!host # "/"
           /\ <<Mux!host>> \o Mux!path \in Seq(Elems) /\ (<<Mux!host>> \o Mux!path)[1] = Mux!host
           /\ Len(<<Mux!host>> \o Mux!path) >= 1
<1>1. req.path \in Seq(Elems) /\ req.host \in Elems \ {"/"}
    BY DEF MuxOK
<1>2. Mux!path \in Seq(Elems)
    BY <1>1, CleanPathType DEF Mux!path
<1>3. Mux!host \in Elems /\ Mux!host # "/"
    BY <1>1 DEF Mux!host, Elems
<1>4. ASSUME NEW e \in Elems, NEW p \in Seq(Elems)
      PROVE  <<e>> \o p \in Seq(Elems) /\ (<<e>> \o p)[1] = e /\ Len(<<e>> \o p) >= 1
    <2>1. <<e>> \in Seq(Elems) /\ Len(<<e>>) = 1 /\ <<e>>[1] = e /\ Len(p) \in Nat
        OBVIOUS
    <2>2. 1 \in 1..(1 + Len(p)) /\ 1 <= 1 /\ 1 + Len(p) >= 1
        BY <2>1
    <2> QED
        BY <2>1, <2>2, ConcatProperties
<1> QED
    BY <1>2, <1>3, <1>4

\* A pattern of the host is looked for only if there is one of any host.
LEMMA HandlerIs ==
    ASSUME MuxOK
    PROVE  /\ Mux!handler(Mux!path) = Mux!Best
           /\ Mux!Best = <<>> <=>
                Mux!Matching(<<Mux!host>> \o Mux!path) = {} /\ Mux!Matching(Mux!path) = {}
<1> DEFINE p == Mux!path
           o == <<Mux!host>> \o Mux!path
           S == Mux!Matching(o)
           T == Mux!Matching(p)
<1>1. Patterned(m) /\ Sorted(m, es) /\ p \in Seq(Elems) /\ o \in Seq(Elems)
      /\ o[1] # "/" /\ Len(o) >= 1
    BY PathType DEF MuxOK
<1> HIDE DEF p, o
<1>2. /\ S = {} => Mux!match(o) = <<>>
      /\ S # {} => Mux!match(o) = Mux!Longest(S) /\ Mux!match(o) # <<>>
    BY <1>1, MatchIs
<1>3. /\ T = {} => Mux!match(p) = <<>>
      /\ T # {} => Mux!match(p) = Mux!Longest(T) /\ Mux!match(p) # <<>>
    BY <1>1, MatchIs
<1>4. S # {} => hosts = TRUE
    <2>1. SUFFICES ASSUME NEW q \in S PROVE hosts = TRUE
        OBVIOUS
    <2>2. q \in m /\ Mux!IsPrefix(q, o) /\ q \in Seq(Elems) \ {<<>>}
        BY <1>1, <2>1, MatchingIs
    <2>3. 1 \in 1..Len(q) /\ q \in Seq(Elems)
        BY <2>2
    <2>4. q[1] = o[1]
        BY <1>1, <2>2, <2>3, PrefixIs
    <2> QED
        BY <1>1, <2>2, <2>4 DEF MuxOK
<1>5. Mux!handler(p) = LET g == IF hosts THEN Mux!match(o) ELSE <<>>
                       IN  IF g # <<>> THEN g ELSE Mux!match(p)
    BY DEF Mux!handler, Mux!NotFound, o, p
<1>6. Mux!Best = IF S # {} THEN Mux!Longest(S) ELSE IF T # {} THEN Mux!Longest(T) ELSE <<>>
    BY DEF Mux!Best, Mux!NotFound, o, p
<1> HIDE DEF S, T
<1>7. Mux!handler(p) = Mux!Best
    BY <1>2, <1>3, <1>4, <1>5, <1>6
<1>8. Mux!Best = <<>> <=> S = {} /\ T = {}
    BY <1>2, <1>3, <1>6
<1> QED
    BY <1>7, <1>8 DEF p, o, S, T

LEMMA MuxInitInv == MCInit => MuxInv
<1> SUFFICES ASSUME Mux!Init PROVE MuxOK
    BY DEF MCInit, MuxInv
<1>1. m = {} /\ es = <<>> /\ hosts = FALSE /\ req \in Requests /\ at = "redirectToPathSlash"
    BY DEF Mux!Init
<1>2. /\ req \in [method : STRING, host : STRING, port : BOOLEAN, path : Seq(STRING)]
      /\ req.host # "/"
    BY <1>1, BoundsAssumption DEF Mux!MuxAssumption
<1>3. req \in [method : STRING, host : Elems \ {"/"}, port : BOOLEAN, path : Seq(Elems)]
    <2>1. Seq(STRING) \subseteq Seq(Elems) /\ STRING \subseteq Elems
        BY DEF Elems
    <2> QED
        BY <1>2, <2>1
<1>4. Patterned(m) /\ Sorted(m, es)
    BY <1>1 DEF Patterned, Sorted
<1> QED
    BY <1>1, <1>3, <1>4 DEF MuxOK

LEMMA MuxHandle ==
    ASSUME MuxOK, NEW p \in Patterns, Mux!Handle(p)
    PROVE  MuxOK'
<1>1. p \in Seq(Elems) \ {<<>>}
    <2>1. p \in Seq(STRING) \ {<<>>}
        BY BoundsAssumption DEF Mux!MuxAssumption
    <2>2. Seq(STRING) \subseteq Seq(Elems)
        BY DEF Elems
    <2> QED
        BY <2>1, <2>2
<1>2. /\ m' = m \cup {p}
      /\ es' = IF Mux!EndsInSlash(p) THEN Mux!appendSorted(es, p) ELSE es
      /\ hosts' = (hosts \/ p[1] # "/")
      /\ UNCHANGED <<req, at, answer>>
    BY DEF Mux!Handle, Mux!requestVars
<1>3. Patterned(m') 
    BY <1>1, <1>2 DEF MuxOK, Patterned
<1>4. Sorted(m', es')
    <2>1. CASE Mux!EndsInSlash(p)
        BY <1>1, <1>2, <2>1, InsertedSorted DEF MuxOK
    <2>2. CASE ~Mux!EndsInSlash(p)
        BY <1>2, <2>2 DEF MuxOK, Sorted
    <2> QED
        BY <2>1, <2>2
<1>5. hosts' = \E q \in m' : q[1] # "/"
    BY <1>2 DEF MuxOK
<1>6. /\ req' \in [method : STRING, host : Elems \ {"/"}, port : BOOLEAN, path : Seq(Elems)]
      /\ at' = "moved" => answer' \in Seq(Elems)
    BY <1>2 DEF MuxOK
<1> QED
    BY <1>3, <1>4, <1>5, <1>6 DEF MuxOK

LEMMA MuxStepInv == MuxInv /\ [MCNext]_mcVars => MuxInv'
<1> SUFFICES ASSUME MuxInv, [MCNext]_mcVars, which' = "mux" PROVE MuxOK'
    BY DEF MuxInv
<1>1. ASSUME MuxOK, UNCHANGED <<m, es, hosts, req, at, answer>> PROVE MuxOK'
    BY <1>1 DEF MuxOK, Patterned, Sorted
<1>2. ASSUME MuxOK, Mux!Next PROVE MuxOK'
    <2>1. ASSUME NEW p \in Patterns, Mux!Handle(p) PROVE MuxOK'
        BY <1>2, <2>1, MuxHandle
    <2>2. ASSUME UNCHANGED <<m, es, hosts, req>>, at' = "moved" => answer' \in Seq(Elems) PROVE MuxOK'
        BY <1>2, <2>2 DEF MuxOK, Patterned, Sorted
    <2>3. CASE Mux!Asterisk
        BY <2>2, <2>3 DEF Mux!Asterisk
    <2>4. CASE Mux!redirectToPathSlash
        <3>1. Mux!Location(Mux!path \o Mux!Slash) \in Seq(Elems)
            BY <1>2, PathType, CleanSlash, CleanPathType DEF Mux!Location, Mux!Slash
        <3> QED
            BY <2>2, <2>4, <3>1 DEF Mux!redirectToPathSlash
    <2>5. CASE Mux!Find
        <3>1. Mux!Location(Mux!path) \in Seq(Elems)
            BY <1>2, PathType, CleanPathType DEF Mux!Location
        <3> QED
            BY <2>2, <2>5, <3>1 DEF Mux!Find
    <2>6. CASE Mux!Follow
        <3>1. /\ req' = [req EXCEPT !.path = answer] /\ at' = "redirectToPathSlash"
              /\ answer \in Seq(Elems) /\ UNCHANGED <<m, es, hosts>>
            BY <1>2, <2>6 DEF Mux!Follow, MuxOK
        <3>2. req' \in [method : STRING, host : Elems \ {"/"}, port : BOOLEAN, path : Seq(Elems)]
            BY <1>2, <3>1 DEF MuxOK
        <3> QED
            BY <1>2, <3>1, <3>2 DEF MuxOK, Patterned, Sorted
    <2> QED
        BY <1>2, <2>1, <2>3, <2>4, <2>5, <2>6 DEF Mux!Next
<1>3. CASE MuxStep
    BY <1>2, <1>3 DEF MuxStep, MuxInv
<1>4. CASE UNCHANGED mcVars
    BY <1>1, <1>4 DEF mcVars, muxVars, MuxInv
<1> QED
    BY <1>3, <1>4 DEF MCNext, TimeoutStep, Timeout, ReplyStep, LogStep

\* In whatever order patterns have been registered, before a request or between
\* its two lookups, it goes to the handler of the longest pattern, the host's own
\* patterns first: for any patterns and requests.
THEOREM LongestPatternChosen == MCSpec => MuxChoice
<1>1. MuxInv /\ [MCNext]_mcVars => [which = "mux" => Mux!Choice]_mcVars
    <2>1. SUFFICES ASSUME MuxInv, MCNext, which = "mux", at = "handler", at' = "answered"
          PROVE  answer' = Mux!Best
        BY DEF Mux!Choice
    <2>2. Mux!Next
        BY <2>1 DEF MCNext, TimeoutStep, Timeout, MuxStep, ReplyStep, LogStep
    <2>3. Mux!Find
        BY <2>1, <2>2 DEF Mux!Next, Mux!Handle, Mux!requestVars, Mux!Asterisk, Mux!redirectToPathSlash, Mux!Follow
    <2>4. answer' = Mux!handler(Mux!path)
        BY <2>1, <2>3 DEF Mux!Find
    <2> QED
        BY <2>1, <2>4, HandlerIs DEF MuxInv
<1> QED
    BY <1>1, MuxInitInv, MuxStepInv, PTL DEF MCSpec, MuxChoice

-----------------------------------------------------------------------------
(* ServeMux: redirects, of CONNECT requests with a clean path or none.     *)

ConnectsClean == \A q \in Requests : q.method = "CONNECT" => q.path \in {<<>>, Mux!cleanPath(q.path)}

\* A path that ends in a slash and that a pattern is waiting for.
Reaches(p) ==
    /\ p \in Seq(Elems) /\ Mux!EndsInSlash(p) /\ Mux!cleanPath(p) = p
    /\ p \in m \/ Mux!urlHost \o p \in m

RedirectOK ==
    /\ at \in {"redirectToPathSlash", "handler", "moved", "answered"}
    /\ hops \in Nat /\ slashed \in Nat
    /\ Mux!isConnect => req.path \in {<<>>, Mux!cleanPath(req.path)}
    /\ hops # 0 => Mux!cleanPath(req.path) = req.path
    /\ at = "moved" => Mux!cleanPath(answer) = answer /\ answer # req.path
    /\ slashed = 0 => hops \in {0, 1} /\ (at = "moved" => hops = 0)
    /\ slashed # 0 =>
        /\ slashed \in {1, 2}
        /\ at = "moved" => slashed = hops + 1 /\ Reaches(answer)
        /\ at # "moved" => slashed = hops /\ Reaches(req.path)
        /\ at = "answered" => answer # <<>>
RedirectInv == which = "mux" => MuxOK /\ RedirectOK

LEMMA RedirectInitInv == ConnectsClean /\ MCInit => RedirectInv
<1> SUFFICES ASSUME ConnectsClean, MCInit, which = "mux" PROVE MuxOK /\ RedirectOK
    BY DEF RedirectInv
<1>1. MuxOK
    BY MuxInitInv DEF MuxInv
<1>2. /\ req \in Requests /\ at = "redirectToPathSlash" /\ hops = 0 /\ slashed = 0
    BY DEF MCInit, Mux!Init
<1>3. Mux!isConnect => req.path \in {<<>>, Mux!cleanPath(req.path)}
    BY <1>2 DEF ConnectsClean, Mux!isConnect
<1> QED
    BY <1>1, <1>2, <1>3 DEF RedirectOK

LEMMA ReachesStays ==
    ASSUME NEW p, Reaches(p), m \subseteq m', Mux!urlHost' = Mux!urlHost
    PROVE  Reaches(p)'
BY DEF Reaches

LEMMA UrlHostStays ==
    ASSUME req'.method = req.method, req'.host = req.host, req'.port = req.port
    PROVE  Mux!urlHost' = Mux!urlHost /\ (Mux!isConnect' <=> Mux!isConnect)
BY DEF Mux!urlHost, Mux!isConnect, Mux!host

\* Where a slash is added the client is sent where it has not been, to a
\* pattern that is there.
LEMMA SlashAdded ==
    ASSUME MuxOK, RedirectOK, at = "redirectToPathSlash", Mux!shouldRedirect
    PROVE  LET to == Mux!Location(Mux!path \o Mux!Slash)
           IN  Reaches(to) /\ to # req.path /\ slashed = 0
<1> DEFINE p == Mux!path
           to == Mux!Location(p \o Mux!Slash)
<1>1. req.path \in Seq(Elems) /\ p \in Seq(Elems) /\ Mux!host \in Elems
    BY PathType DEF MuxOK
<1>2. p # <<>> /\ ~Mux!EndsInSlash(p) /\ \E q \in {p, Mux!urlHost \o p} : q \o Mux!Slash \in m
    BY DEF Mux!shouldRedirect
<1>3. p = Mux!cleanPath(req.path)
    BY <1>2 DEF RedirectOK, Mux!path
<1> HIDE DEF p
<1>4. CleanFile(p)
    BY <1>1, <1>2, <1>3, CleanPathIs, CleanDirStays
<1>5. /\ to = p \o <<"/">> /\ to \in Seq(Elems) /\ Mux!EndsInSlash(to) /\ Mux!cleanPath(to) = to
    BY <1>4, CleanFileStays, CleanDirStays DEF Mux!Location, Mux!Slash
<1> HIDE DEF to
<1>6. to \in m \/ Mux!urlHost \o to \in m
    <2>1. (Mux!urlHost \o p) \o <<"/">> = Mux!urlHost \o (p \o <<"/">>)
        <3>1. "/" \in Elems
            BY DEF Elems
        <3>2. Mux!urlHost \in {<<>>, <<Mux!host>>}
            BY DEF Mux!urlHost
        <3>3. \A e \in Elems : <<e>> \in Seq(Elems)
            OBVIOUS
        <3>4. <<>> \in Seq(Elems) /\ <<Mux!host>> \in Seq(Elems) /\ <<"/">> \in Seq(Elems)
            BY <1>1, <3>1, <3>3
        <3>5. Mux!urlHost \in Seq(Elems)
            BY ONLY <3>2, <3>4
        <3> QED
            BY <1>1, <3>4, <3>5, ConcatAssociative
    <2> QED
        BY <1>2, <1>5, <2>1 DEF Mux!Slash
<1>7. to # req.path
    <2>1. ASSUME to = req.path PROVE FALSE
        <3>1. p = to
            BY <1>3, <1>5, <2>1
        <3> QED
            BY <1>2, <1>5, <3>1
    <2> QED
        BY <2>1
<1>8. slashed = 0
    <2>1. ASSUME slashed # 0 PROVE FALSE
        <3>1. Reaches(req.path)
            BY <2>1 DEF RedirectOK
        <3>2. p = req.path
            BY <1>3, <3>1 DEF Reaches
        <3> QED
            BY <1>2, <3>1, <3>2 DEF Reaches
    <2> QED
        BY <2>1
<1> QED
    BY <1>5, <1>6, <1>7, <1>8 DEF Reaches, to, p

LEMMA SlashStep ==
    ASSUME MuxOK, RedirectOK, Mux!redirectToPathSlash
    PROVE  RedirectOK'
<1> DEFINE to == Mux!Location(Mux!path \o Mux!Slash)
<1>1. /\ at = "redirectToPathSlash" /\ UNCHANGED <<m, req, hops>>
      /\ Mux!shouldRedirect => slashed' = hops + 1 /\ at' = "moved" /\ answer' = to
      /\ ~Mux!shouldRedirect => slashed' = slashed /\ at' = "handler" /\ answer' = answer
    BY DEF Mux!redirectToPathSlash
<1>2. Mux!urlHost' = Mux!urlHost /\ (Mux!isConnect' <=> Mux!isConnect)
    BY <1>1, UrlHostStays
<1>3. CASE Mux!shouldRedirect
    <2>1. Reaches(to) /\ to # req.path /\ slashed = 0
        BY <1>1, <1>3, SlashAdded
    <2> HIDE DEF to
    <2>2. Reaches(answer)'
        BY <1>1, <1>2, <1>3, <2>1 DEF Reaches
    <2>3. hops = 0 \/ hops = 1
        BY <2>1 DEF RedirectOK
    <2>4. slashed' \in {1, 2} /\ slashed' = hops' + 1 /\ slashed' # 0 /\ slashed' \in Nat /\ hops' \in Nat
        BY <1>1, <1>3, <2>3
    <2>5. Mux!cleanPath(answer') = answer' /\ answer' # req'.path
        BY <1>1, <1>3, <2>1 DEF Reaches
    <2> QED
        BY <1>1, <1>2, <1>3, <2>2, <2>4, <2>5 DEF RedirectOK
<1>4. CASE ~Mux!shouldRedirect
    <2>1. slashed # 0 => Reaches(req.path)'
        BY <1>1, <1>2 DEF RedirectOK, Reaches
    <2> QED
        BY <1>1, <1>2, <1>4, <2>1 DEF RedirectOK
<1> QED
    BY <1>3, <1>4

LEMMA FindStep ==
    ASSUME MuxOK, RedirectOK, Mux!Find
    PROVE  RedirectOK'
<1>1. /\ at = "handler" /\ UNCHANGED <<m, req, hops, slashed>>
      /\ Mux!path = req.path => at' = "answered" /\ answer' = Mux!handler(Mux!path)
      /\ Mux!path # req.path => at' = "moved" /\ answer' = Mux!Location(Mux!path)
    BY DEF Mux!Find
<1>2. Mux!urlHost' = Mux!urlHost /\ (Mux!isConnect' <=> Mux!isConnect)
    BY <1>1, UrlHostStays
<1>3. slashed # 0 => Reaches(req.path) /\ Reaches(req.path)'
    BY <1>1, <1>2 DEF RedirectOK, Reaches
<1>4. CASE Mux!path = req.path
    <2>1. ASSUME slashed # 0 PROVE answer' # <<>>
        <3> DEFINE p == req.path
        <3>1. p \in Seq(Elems) /\ (p \in m \/ Mux!urlHost \o p \in m)
            BY <1>3, <2>1 DEF Reaches
        <3>2. <<Mux!host>> \o p \in Seq(Elems)
            BY <1>4, PathType
        <3>3. ASSUME NEW q \in m PROVE q \in Mux!Matching(q)
            BY <3>3 DEF Mux!Matching
        <3>4. Mux!urlHost \o p = p \/ Mux!urlHost \o p = <<Mux!host>> \o p
            <4>1. <<>> \o p = p
                BY <3>1
            <4> QED
                BY <4>1 DEF Mux!urlHost
        <3> HIDE DEF p
        <3>5. Mux!Matching(<<Mux!host>> \o p) # {} \/ Mux!Matching(p) # {}
            BY <3>1, <3>3, <3>4
        <3>6. Mux!handler(Mux!path) # <<>>
            BY <1>4, <3>5, HandlerIs DEF p
        <3> QED
            BY <1>1, <1>4, <3>6
    <2> QED
        BY <1>1, <1>2, <1>3, <1>4, <2>1 DEF RedirectOK
<1>5. CASE Mux!path # req.path
    <2>1. ~Mux!isConnect /\ Mux!path = Mux!cleanPath(req.path)
        BY <1>5 DEF Mux!path
    <2>2. hops = 0
        BY <1>5, <2>1 DEF RedirectOK
    <2>3. slashed = 0
        <3>1. slashed # 0 => Mux!cleanPath(req.path) = req.path
            BY <1>3 DEF Reaches
        <3> QED
            BY <1>5, <2>1, <3>1
    <2>4. answer' = Mux!path /\ Mux!cleanPath(answer') = answer'
        <3>1. req.path \in Seq(Elems)
            BY DEF MuxOK
        <3> QED
            BY <1>1, <1>5, <2>1, <3>1, CleanPathType DEF Mux!Location
    <2> QED
        BY <1>1, <1>2, <1>5, <2>2, <2>3, <2>4 DEF RedirectOK
<1> QED
    BY <1>4, <1>5

LEMMA FollowStep ==
    ASSUME MuxOK, RedirectOK, Mux!Follow
    PROVE  RedirectOK'
<1>1. /\ at = "moved" /\ at' = "redirectToPathSlash" /\ req' = [req EXCEPT !.path = answer]
      /\ hops' = hops + 1 /\ UNCHANGED <<m, slashed>>
    BY DEF Mux!Follow
<1>2. /\ req'.path = answer /\ req'.method = req.method /\ req'.host = req.host /\ req'.port = req.port
    BY <1>1 DEF MuxOK
<1>3. Mux!urlHost' = Mux!urlHost /\ (Mux!isConnect' <=> Mux!isConnect)
    BY <1>2, UrlHostStays
<1>4. Mux!cleanPath(req'.path) = req'.path
    BY <1>1, <1>2 DEF RedirectOK
<1>5. hops \in Nat /\ (slashed = 0 => hops = 0)
    BY <1>1 DEF RedirectOK
<1>6. hops' \in Nat /\ hops' # 0 /\ (slashed' = 0 => hops' = 1)
    BY <1>1, <1>5
<1>7. slashed # 0 => slashed \in {1, 2} /\ slashed' = hops' /\ Reaches(req.path)'
    <2>1. slashed # 0 => slashed \in {1, 2} /\ slashed = hops + 1 /\ Reaches(answer)
        BY <1>1 DEF RedirectOK
    <2> QED
        BY <1>1, <1>2, <1>3, <2>1 DEF Reaches
<1>8. slashed' \in Nat /\ slashed' = slashed
    BY <1>1 DEF RedirectOK
<1> QED
    BY <1>1, <1>3, <1>4, <1>6, <1>7, <1>8 DEF RedirectOK

LEMMA RedirectStays ==
    ASSUME RedirectOK, m \subseteq m', UNCHANGED <<req, hops, slashed, answer>>,
           at' = at
    PROVE  RedirectOK'
<1>1. Mux!urlHost' = Mux!urlHost /\ (Mux!isConnect' <=> Mux!isConnect)
    BY UrlHostStays
<1>2. /\ Reaches(answer) => Reaches(answer)'
      /\ Reaches(req.path) => Reaches(req.path)'
    BY <1>1 DEF Reaches
<1> QED
    BY <1>1, <1>2 DEF RedirectOK

LEMMA RedirectStepInv == RedirectInv /\ [MCNext]_mcVars => RedirectInv'
<1> SUFFICES ASSUME RedirectInv, [MCNext]_mcVars, which' = "mux" PROVE MuxOK' /\ RedirectOK'
    BY DEF RedirectInv
<1>1. which = "mux"
    BY DEF MCNext, TimeoutStep, Timeout, MuxStep, ReplyStep, LogStep, mcVars
<1>2. MuxOK /\ RedirectOK
    BY <1>1 DEF RedirectInv
<1>3. MuxOK'
    BY <1>2, MuxStepInv DEF MuxInv
<1>4. CASE UNCHANGED mcVars
    <2>1. UNCHANGED <<m, req, hops, slashed, answer, at>>
        BY <1>4 DEF mcVars, muxVars
    <2> QED
        BY <1>2, <1>3, <2>1, RedirectStays
<1>5. CASE Mux!Next
    <2>1. ASSUME NEW p \in Patterns, Mux!Handle(p) PROVE RedirectOK'
        <3>1. m \subseteq m' /\ UNCHANGED <<req, hops, slashed, answer, at>>
            BY <2>1 DEF Mux!Handle, Mux!requestVars
        <3> QED
            BY <1>2, <3>1, RedirectStays
    <2>2. CASE Mux!Asterisk
        <3>1. /\ at = "redirectToPathSlash" /\ at' = "answered" /\ answer' # <<>>
              /\ UNCHANGED <<m, req, hops, slashed>>
            BY <2>2 DEF Mux!Asterisk, Mux!BadRequest
        <3>2. Mux!urlHost' = Mux!urlHost /\ (Mux!isConnect' <=> Mux!isConnect)
            BY <3>1, UrlHostStays
        <3>3. Reaches(req.path) => Reaches(req.path)'
            BY <3>1, <3>2 DEF Reaches
        <3>4. slashed # 0 => slashed \in {1, 2} /\ slashed = hops /\ Reaches(req.path)'
            BY <1>2, <3>1, <3>3 DEF RedirectOK
        <3>5. /\ slashed \in Nat /\ hops \in Nat /\ (slashed = 0 => hops \in {0, 1})
              /\ hops # 0 => Mux!cleanPath(req.path) = req.path
              /\ Mux!isConnect => req.path \in {<<>>, Mux!cleanPath(req.path)}
            BY <1>2 DEF RedirectOK
        <3> QED
            BY <1>3, <3>1, <3>2, <3>4, <3>5 DEF RedirectOK
    <2>3. CASE Mux!redirectToPathSlash
        BY <1>2, <1>3, <2>3, SlashStep
    <2>4. CASE Mux!Find
        BY <1>2, <1>3, <2>4, FindStep
    <2>5. CASE Mux!Follow
        BY <1>2, <1>3, <2>5, FollowStep
    <2> QED
        BY <1>3, <1>5, <2>1, <2>2, <2>3, <2>4, <2>5 DEF Mux!Next
<1> QED
    BY <1>1, <1>3, <1>4, <1>5 DEF MCNext, TimeoutStep, Timeout, MuxStep, ReplyStep, LogStep

\* A client is redirected at most twice, always to a clean path that it has not
\* just asked for, and behind a slash that was added it finds a handler: for any
\* patterns, registered at any moment, and any requests whose path path.Clean
\* would not change where the method is CONNECT.
THEOREM RedirectsAreFew == ConnectsClean => (MCSpec => []RedirectsEnd)
<1>1. RedirectInv => RedirectsEnd
    <2> SUFFICES ASSUME MuxOK, RedirectOK PROVE Mux!RedirectsEnd
        BY DEF RedirectInv, RedirectsEnd
    <2>1. hops <= 2
        <3>1. slashed = 0 \/ slashed = hops \/ slashed = hops + 1
            BY DEF RedirectOK
        <3> QED
            BY <3>1 DEF RedirectOK
    <2>2. slashed # 0 /\ hops = slashed => at # "moved" /\ (at = "answered" => answer # Mux!NotFound)
        BY DEF RedirectOK, Mux!NotFound
    <2>3. at = "moved" => Mux!cleanPath(answer) = answer /\ answer # req.path
        BY DEF RedirectOK
    <2> QED
        BY <2>1, <2>2, <2>3 DEF Mux!RedirectsEnd
<1> QED
    BY <1>1, RedirectInitInv, RedirectStepInv, PTL DEF MCSpec
=============================================================================
