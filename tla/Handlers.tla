------------------------------ MODULE Handlers ------------------------------
(***************************************************************************)
(* What stands between a connection and the work of a handler: the choice  *)
(* of the handler (ServeMux), its time limit (TimeoutHandler), the reply   *)
(* it writes (ResponseWriter), messages on the wire (Transfer) and the log *)
(* (Logger).  They share nothing: a behaviour is a behaviour of one of     *)
(* them, with the variables of the others idle.                            *)
(***************************************************************************)
EXTENDS TimeoutHandler, Integers

CONSTANTS Procs, Priority, MaxCalls, MaxDials, Prefixes, None,
          BufSize, SniffLen, MaxBody, HeadReadFrom, FlushBeforeReading,
          Patterns, Requests,       \* what is registered with a ServeMux and asked of it
          Exchanges,                \* what a reply answers
          Messages,                 \* what is written to the wire
          FlagSets,                 \* the flags of a Logger
          Parts                     \* the components that run

VARIABLES which,
          m, es, hosts, req, at, answer, hops, slashed,                         \* ServeMux
          x, state, begun, contentLength, closeAfterReply, handlerDone,         \* ResponseWriter
          buffered, written, cw, continue, accepted,
          out,                                                 \* of it and of Logger
          conn, open, dials, attempts, returned, flag, prefix,   \* Logger
          buf, logMu, syslogCall, pc, job, calls, stderr, exited,
          msg                                                  \* the message, for Transfer

Mux == INSTANCE ServeMux
RW == INSTANCE ResponseWriter WITH wroteHeader <- begun
Log == INSTANCE Logger WITH mu <- logMu, call <- syslogCall

ASSUME BoundsAssumption == Mux!MuxAssumption /\ RW!WriterAssumption /\ Log!LoggerAssumption
ASSUME MessagesAssumption == Messages \subseteq RW!RequestMessage \cup RW!ResponseMessage

muxVars == <<m, es, hosts, req, at, answer, hops, slashed>>
replyVars == <<x, state, begun, contentLength, closeAfterReply, handlerDone, buffered, written,
               cw, continue, accepted>>
logVars == <<conn, open, dials, attempts, returned, flag, prefix, buf, logMu, syslogCall, pc, job,
             calls, stderr, exited>>
mcVars == <<which, vars, muxVars, replyVars, out, logVars, msg>>

Idle == <<>>
NoMux ==
    /\ m = Idle /\ es = Idle /\ hosts = Idle /\ req = Idle /\ at = Idle
    /\ answer = Idle /\ hops = Idle /\ slashed = Idle
NoReplies ==
    /\ x = Idle /\ state = Idle /\ begun = Idle /\ contentLength = Idle /\ closeAfterReply = Idle
    /\ handlerDone = Idle /\ buffered = Idle /\ written = Idle /\ cw = Idle /\ continue = Idle
    /\ accepted = Idle
NoLog ==
    /\ conn = Idle /\ open = Idle /\ dials = Idle /\ attempts = Idle /\ returned = Idle
    /\ flag = Idle /\ prefix = Idle /\ buf = Idle /\ logMu = Idle /\ syslogCall = Idle
    /\ pc = Idle /\ job = Idle /\ calls = Idle /\ stderr = Idle /\ exited = Idle

MCInit ==
    /\ Init /\ which \in Parts
    /\ IF which = "mux" THEN Mux!Init ELSE NoMux
    /\ IF which = "reply" THEN RW!Init ELSE NoReplies
    /\ IF which = "log" THEN Log!Init ELSE NoLog
    /\ IF which = "message" THEN msg \in Messages ELSE msg = Idle
    /\ IF which \in {"reply", "log"} THEN TRUE ELSE out = Idle

Timeout(A) == which = "timeout" /\ A /\ UNCHANGED <<which, muxVars, replyVars, out, logVars, msg>>
TimeoutStep == Timeout(Next)
MuxStep == which = "mux" /\ Mux!Next /\ UNCHANGED <<which, vars, replyVars, out, logVars, msg>>
ReplyStep == which = "reply" /\ RW!Next /\ UNCHANGED <<which, vars, muxVars, logVars, msg>>
LogStep == which = "log" /\ Log!Next /\ UNCHANGED <<which, vars, muxVars, replyVars, msg>>

MCNext == TimeoutStep \/ MuxStep \/ ReplyStep \/ LogStep
MCFairness ==
    /\ WF_mcVars(Timeout(HandlerRuns)) /\ WF_mcVars(Timeout(Serve)) /\ WF_mcVars(Timeout(ContextEnds))
    /\ SF_mcVars(Timeout(LockDone)) /\ SF_mcVars(Timeout(LockTimeout))
MCSpec == MCInit /\ [][MCNext]_mcVars /\ MCFairness
-----------------------------------------------------------------------------
\* ServeHTTP of TimeoutHandler returns even if the handler never does, and a
\* handler that panics too late does not leave its goroutine behind.
GoroutinesEnd == which = "timeout" => Returns /\ PanicEndsGoroutine

\* Registration in any order, and while a request is served: the longest
\* pattern of the host, or else of all, gets the request.
MuxChoice == [][which = "mux" => Mux!Choice]_mcVars

\* A client is redirected at most twice, and finds a handler behind a slash.
RedirectsEnd == which = "mux" => Mux!RedirectsEnd

\* The client reads the reply the handler wrote, and the connection is clean.
Framed == which = "reply" => RW!Framed

\* A 100 Continue is never sent behind the header of the reply.
ContinueFirst == which = "reply" => RW!ContinueFirst

\* Log lines are whole, of one call and by the settings of one moment.
WholeLines == which = "log" => Log!WholeLines

\* A syslog.Writer returns nil for what it wrote, writes it once, and leaves no
\* connection behind.
SyslogKeeps == which = "log" => Log!SyslogKeeps

\* What Request.Write and Response.Write put on the wire is read back as it
\* was meant, with nothing left over.
MessagesArrive ==
    which = "message" => IF msg.kind = "request" THEN RW!RequestArrives(msg) ELSE RW!ResponseArrives(msg)
=============================================================================
