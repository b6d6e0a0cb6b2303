----------------------------- MODULE HTTPServer -----------------------------
(***************************************************************************)
(* The life cycle of net/http's Server: the Serve loops that accept        *)
(* connections, the goroutine that serves each connection, and the calls   *)
(* that wind the server down (Shutdown, Close, SetKeepAlivesEnabled).      *)
(*                                                                         *)
(* The three kinds of process share                                        *)
(*   - srv.mu, which guards the maps of listeners and connections and the  *)
(*     channel doneChan, and is held across a whole sweep of activeConn;   *)
(*   - the atomics inShutdown and disableKeepAlives, stored and loaded     *)
(*     without srv.mu;                                                     *)
(*   - one atomic ConnState per connection, stored by the connection's own *)
(*     goroutine without srv.mu and loaded by the sweep;                   *)
(*   - the socket of each connection, which the sweep may close while its  *)
(*     goroutine is using it.                                              *)
(*                                                                         *)
(* A step of a process is what it does between two points at which another *)
(* process could observe it.  What a client sends, whether a handler       *)
(* panics or hijacks, and which replies keep the connection are            *)
(* nondeterministic.  Each listener is given to one call of Serve.         *)
(***************************************************************************)
EXTENDS Naturals, FiniteSets

CONSTANTS
    Listeners,       \* the listeners, each passed to one call of Serve
    Conns,           \* the connections that clients may open
    Shutdowns,       \* the calls of Shutdown
    Closers,         \* the calls of Close
    Setters,         \* the calls of SetKeepAlivesEnabled
    IdleTimeout,     \* whether idleTimeout() is nonzero
    Free,            \* srv.mu is not held
    NoConn           \* no connection

Sweepers == Shutdowns \union Setters            \* they call closeIdleConns
Callers  == Sweepers \union Closers

ASSUME CallersAssumption ==
    /\ Shutdowns \intersect Setters = {}
    /\ Sweepers \intersect Closers = {}
    /\ Free \notin Callers
    /\ NoConn \notin Conns

ASSUME IdleTimeoutAssumption == IdleTimeout \in BOOLEAN

VARIABLES
    inShutdown,          \* srv.inShutdown
    disableKeepAlives,   \* srv.disableKeepAlives # 0
    doneClosed,          \* srv.doneChan is closed
    mu,                  \* who holds srv.mu across steps, or Free
    listeners,           \* srv.listeners
    activeConn,          \* srv.activeConn
    lnOpen,              \* [Listeners -> BOOLEAN]: the listener's socket is open
    sp,                  \* where each Serve call is
    accepted,            \* the connection Serve got from Accept
    acceptErr,           \* the error Serve got from Accept
    serveErr,            \* what Serve returned
    cp,                  \* where each conn.serve goroutine is
    curState,            \* c.curState: "unset" while it still is zero, "old"
                         \* for StateNew stored more than five seconds ago
    rwcOpen,             \* the connection's socket is open
    got,                 \* request bytes at hand: none, in bufr, or off the wire
    reply,               \* what the reply's header told the client, once written
    late,                \* requests that reached a handler after inShutdown was
                         \* set (a history variable)
    xp,                  \* where each caller is
    ret,                 \* what a caller returned
    todo,                \* connections the loop over activeConn has yet to visit
    victim,              \* the idle connection the loop is about to close
    quiescent            \* closeIdleConns' local of that name

flagVars  == <<inShutdown, disableKeepAlives>>
lockVars  == <<mu, doneClosed, listeners, activeConn>>
serveVars == <<sp, accepted, acceptErr, serveErr>>
connVars  == <<cp, curState, got, reply, late>>
callVars  == <<xp, ret, todo, victim, quiescent>>
vars == <<flagVars, lockVars, lnOpen, serveVars, connVars, rwcOpen, callVars>>

ServePc == {"start", "accept", "check", "track", "store", "go",
            "untrack", "close", "returned"}
ConnPc  == {"none", "accepted", "read", "active", "readFailed", "handler",
            "finish", "idle", "keepalive", "peek", "hijack", "hijackStore",
            "hijacked", "close", "untrack", "closed", "done"}
CallPc  == {"start", "lock", "listeners", "poll", "sweep", "swept", "count",
            "wait", "conns", "returned"}
States  == {"unset", "new", "old", "active", "idle", "hijacked", "closed"}

TypeOK ==
    /\ inShutdown \in BOOLEAN /\ disableKeepAlives \in BOOLEAN
    /\ doneClosed \in BOOLEAN
    /\ mu \in Callers \union {Free}
    /\ listeners \in SUBSET Listeners
    /\ activeConn \in SUBSET Conns
    /\ lnOpen \in [Listeners -> BOOLEAN]
    /\ sp \in [Listeners -> ServePc]
    /\ accepted \in [Listeners -> Conns \union {NoConn}]
    /\ acceptErr \in [Listeners -> {"none", "temporary", "other", "closed"}]
    /\ serveErr \in [Listeners -> {"none", "ErrServerClosed", "other"}]
    /\ cp \in [Conns -> ConnPc]
    /\ curState \in [Conns -> States]
    /\ rwcOpen \in [Conns -> BOOLEAN]
    /\ got \in [Conns -> {"none", "buffer", "wire"}]
    /\ reply \in [Conns -> {"none", "keep", "close"}]
    /\ late \in [Conns -> Nat]
    /\ xp \in [Callers -> CallPc]
    /\ ret \in [Callers -> {"none", "nil", "ctxErr"}]
    /\ todo \in SUBSET Conns
    /\ victim \in Conns \union {NoConn}
    /\ quiescent \in BOOLEAN

Init ==
    /\ inShutdown = FALSE /\ disableKeepAlives = FALSE /\ doneClosed = FALSE
    /\ mu = Free /\ listeners = {} /\ activeConn = {}
    /\ lnOpen = [l \in Listeners |-> TRUE]
    /\ sp = [l \in Listeners |-> "start"]
    /\ accepted = [l \in Listeners |-> NoConn]
    /\ acceptErr = [l \in Listeners |-> "none"]
    /\ serveErr = [l \in Listeners |-> "none"]
    /\ cp = [c \in Conns |-> "none"]
    /\ curState = [c \in Conns |-> "unset"]
    /\ rwcOpen = [c \in Conns |-> FALSE]
    /\ got = [c \in Conns |-> "none"]
    /\ reply = [c \in Conns |-> "none"]
    /\ late = [c \in Conns |-> 0]
    /\ xp = [p \in Callers |-> "start"]
    /\ ret = [p \in Callers |-> "none"]
    /\ todo = {} /\ victim = NoConn /\ quiescent = FALSE

-----------------------------------------------------------------------------
(* Serve.  A critical section that only touches what srv.mu guards is one  *)
(* step, enabled while nobody holds srv.mu.                                *)

\* Mutant of doKeepAlives: shutting down is forgotten.
doKeepAlivesFlagOnly == ~disableKeepAlives

doKeepAlives == ~disableKeepAlives /\ ~inShutdown

\* Mutant of TrackListener: no test of shuttingDown.
TrackListenerUnchecked(l) ==
    /\ sp[l] = "start" /\ mu = Free
    /\ sp' = [sp EXCEPT ![l] = "accept"]
    /\ listeners' = listeners \union {l}
    /\ UNCHANGED <<flagVars, mu, doneClosed, activeConn, lnOpen, accepted,
                   acceptErr, serveErr, connVars, rwcOpen, callVars>>

\* trackListener(&l, true): refused once the server is shutting down; the
\* deferred l.Close() then still runs.
TrackListener(l) ==
    /\ sp[l] = "start"
    /\ mu = Free
    /\ IF inShutdown
       THEN /\ sp' = [sp EXCEPT ![l] = "close"]
            /\ serveErr' = [serveErr EXCEPT ![l] = "ErrServerClosed"]
            /\ UNCHANGED listeners
       ELSE /\ sp' = [sp EXCEPT ![l] = "accept"]
            /\ listeners' = listeners \union {l}
            /\ UNCHANGED serveErr
    /\ UNCHANGED <<flagVars, mu, doneClosed, activeConn, lnOpen, accepted,
                   acceptErr, connVars, rwcOpen, callVars>>

\* Mutant of Accept: go c.serve before setState(StateNew).
AcceptAndGo(l, c) ==
    /\ sp[l] = "accept" /\ lnOpen[l]
    /\ cp[c] = "none"
    /\ sp' = [sp EXCEPT ![l] = "track"]
    /\ accepted' = [accepted EXCEPT ![l] = c]
    /\ cp' = [cp EXCEPT ![c] = "read"]
    /\ rwcOpen' = [rwcOpen EXCEPT ![c] = TRUE]
    /\ UNCHANGED <<flagVars, lockVars, lnOpen, acceptErr, serveErr, curState,
                   got, reply, late, callVars>>

\* l.Accept() returns a connection a client opened.
Accept(l, c) ==
    /\ sp[l] = "accept" /\ lnOpen[l]
    /\ cp[c] = "none"
    /\ sp' = [sp EXCEPT ![l] = "track"]
    /\ accepted' = [accepted EXCEPT ![l] = c]
    /\ cp' = [cp EXCEPT ![c] = "accepted"]
    /\ rwcOpen' = [rwcOpen EXCEPT ![c] = TRUE]
    /\ UNCHANGED <<flagVars, lockVars, lnOpen, acceptErr, serveErr, curState,
                   got, reply, late, callVars>>

\* l.Accept() fails, on an open listener for a reason of the system's.
AcceptError(l) ==
    /\ sp[l] = "accept"
    /\ sp' = [sp EXCEPT ![l] = "check"]
    /\ \E e \in IF lnOpen[l] THEN {"temporary", "other"} ELSE {"closed"} :
           acceptErr' = [acceptErr EXCEPT ![l] = e]
    /\ UNCHANGED <<flagVars, lockVars, lnOpen, accepted, serveErr, connVars,
                   rwcOpen, callVars>>

\* Mutant of CheckDone: doneChan is read without srv.mu.
CheckDoneUnlocked(l) ==
    /\ sp[l] = "check"
    /\ IF ~doneClosed /\ acceptErr[l] = "temporary"
       THEN sp' = [sp EXCEPT ![l] = "accept"] /\ UNCHANGED serveErr
       ELSE /\ sp' = [sp EXCEPT ![l] = "untrack"]
            /\ serveErr' = [serveErr EXCEPT
                   ![l] = IF doneClosed THEN "ErrServerClosed" ELSE "other"]
    /\ UNCHANGED <<flagVars, lockVars, lnOpen, accepted, acceptErr, connVars,
                   rwcOpen, callVars>>

\* The select on getDoneChan(), which takes srv.mu, and what follows it.
CheckDone(l) ==
    /\ sp[l] = "check"
    /\ mu = Free
    /\ IF ~doneClosed /\ acceptErr[l] = "temporary"
       THEN sp' = [sp EXCEPT ![l] = "accept"] /\ UNCHANGED serveErr
       ELSE /\ sp' = [sp EXCEPT ![l] = "untrack"]
            /\ serveErr' = [serveErr EXCEPT
                   ![l] = IF doneClosed THEN "ErrServerClosed" ELSE "other"]
    /\ UNCHANGED <<flagVars, lockVars, lnOpen, accepted, acceptErr, connVars,
                   rwcOpen, callVars>>

\* c.setState(c.rwc, StateNew, runHooks), first half: trackConn(c, true).
TrackConn(l) ==
    /\ sp[l] = "track"
    /\ mu = Free
    /\ activeConn' = activeConn \union {accepted[l]}
    /\ sp' = [sp EXCEPT ![l] = "store"]
    /\ UNCHANGED <<flagVars, mu, doneClosed, listeners, lnOpen, accepted,
                   acceptErr, serveErr, connVars, rwcOpen, callVars>>

\* Its second half: the store to c.curState, with the time.
StoreNew(l) ==
    /\ sp[l] = "store"
    /\ curState' = [curState EXCEPT ![accepted[l]] = "new"]
    /\ sp' = [sp EXCEPT ![l] = "go"]
    /\ UNCHANGED <<flagVars, lockVars, lnOpen, accepted, acceptErr, serveErr,
                   cp, got, reply, late, rwcOpen, callVars>>

\* go c.serve(connCtx).
GoServe(l) ==
    /\ sp[l] = "go"
    /\ cp' = [cp EXCEPT ![accepted[l]] = "read"]
    /\ sp' = [sp EXCEPT ![l] = "accept"]
    /\ accepted' = [accepted EXCEPT ![l] = NoConn]
    /\ UNCHANGED <<flagVars, lockVars, lnOpen, acceptErr, serveErr, curState,
                   got, reply, late, rwcOpen, callVars>>

\* The deferred trackListener(&l, false).
UntrackListener(l) ==
    /\ sp[l] = "untrack"
    /\ mu = Free
    /\ listeners' = listeners \ {l}
    /\ sp' = [sp EXCEPT ![l] = "close"]
    /\ UNCHANGED <<flagVars, mu, doneClosed, activeConn, lnOpen, accepted,
                   acceptErr, serveErr, connVars, rwcOpen, callVars>>

\* The deferred l.Close(), run last.
CloseListener(l) ==
    /\ sp[l] = "close"
    /\ lnOpen' = [lnOpen EXCEPT ![l] = FALSE]
    /\ sp' = [sp EXCEPT ![l] = "returned"]
    /\ UNCHANGED <<flagVars, lockVars, accepted, acceptErr, serveErr, connVars,
                   rwcOpen, callVars>>

-----------------------------------------------------------------------------
(* conn.serve: the goroutine of one connection.                            *)

\* readRequest takes bytes off the wire.  Nothing else is stored yet, so the
\* connection still is StateNew or StateIdle for everybody else.
ReadBytes(c) ==
    /\ cp[c] = "read" /\ rwcOpen[c] /\ got[c] # "wire"
    /\ got' = [got EXCEPT ![c] = "wire"]
    /\ UNCHANGED <<flagVars, lockVars, lnOpen, serveVars, cp, curState, reply,
                   late, rwcOpen, callVars>>

\* readRequest has a whole header, read now or buffered by an earlier read,
\* and removes the read limit: c.r.remain differs from the initial limit.
ReadRequest(c) ==
    /\ cp[c] = "read" /\ got[c] # "none"
    /\ cp' = [cp EXCEPT ![c] = "active"]
    /\ UNCHANGED <<flagVars, lockVars, lnOpen, serveVars, curState, got,
                   reply, late, rwcOpen, callVars>>

\* readRequest fails: end of file, a deadline, a closed socket, a bad
\* request.  The state becomes active first if it took bytes off the wire or
\* had already removed the read limit.
ReadFail(c) ==
    /\ cp[c] = "read"
    /\ \E pc \in CASE got[c] = "none"   -> {"close"}
                   [] got[c] = "buffer" -> {"close", "readFailed"}
                   [] got[c] = "wire"   -> {"readFailed"} :
           cp' = [cp EXCEPT ![c] = pc]
    /\ UNCHANGED <<flagVars, lockVars, lnOpen, serveVars, curState, got,
                   reply, late, rwcOpen, callVars>>

\* setState(StateActive); then nothing more, or an error reply, which the
\* client has to take.
StoreActiveFailed(c) ==
    /\ cp[c] = "readFailed"
    /\ curState' = [curState EXCEPT ![c] = "active"]
    /\ \/ cp' = [cp EXCEPT ![c] = "close"]  /\ UNCHANGED reply
       \/ cp' = [cp EXCEPT ![c] = "finish"] /\ reply' = [reply EXCEPT ![c] = "close"]
    /\ UNCHANGED <<flagVars, lockVars, lnOpen, serveVars, got, late, rwcOpen,
                   callVars>>

\* setState(StateActive); then the handler runs, or sendExpectationFailed
\* replies 417 with "Connection: close" and calls finishRequest.
StoreActive(c) ==
    /\ cp[c] = "active"
    /\ curState' = [curState EXCEPT ![c] = "active"]
    /\ got' = [got EXCEPT ![c] = "none"]
    /\ \/ /\ cp' = [cp EXCEPT ![c] = "handler"]
          /\ late' = [late EXCEPT ![c] = IF inShutdown THEN @ + 1 ELSE @]
          /\ UNCHANGED reply
       \/ /\ cp' = [cp EXCEPT ![c] = "finish"]
          /\ reply' = [reply EXCEPT ![c] = "close"]
          /\ UNCHANGED late
    /\ UNCHANGED <<flagVars, lockVars, lnOpen, serveVars, rwcOpen, callVars>>

\* chunkWriter.writeHeader, run by the handler's writes or by finishRequest:
\* closeAfterReply is set if keep-alives are off when the header is written;
\* the request and the handler's headers may ask for it too.
WriteHeader(c) ==
    /\ cp[c] \in {"handler", "finish"} /\ reply[c] = "none"
    /\ \E r \in IF doKeepAlives THEN {"keep", "close"} ELSE {"close"} :
           reply' = [reply EXCEPT ![c] = r]
    /\ UNCHANGED <<flagVars, lockVars, lnOpen, serveVars, cp, curState, got,
                   late, rwcOpen, callVars>>

HandlerReturn(c) ==
    /\ cp[c] = "handler"
    /\ cp' = [cp EXCEPT ![c] = "finish"]
    /\ UNCHANGED <<flagVars, lockVars, lnOpen, serveVars, curState, got,
                   reply, late, rwcOpen, callVars>>

\* A panic of the handler is recovered by serve's deferred function.
HandlerPanic(c) ==
    /\ cp[c] = "handler"
    /\ cp' = [cp EXCEPT ![c] = "close"]
    /\ UNCHANGED <<flagVars, lockVars, lnOpen, serveVars, curState, got,
                   reply, late, rwcOpen, callVars>>

\* hijackLocked marks the connection hijacked, then setState(StateHijacked)
\* untracks it and stores the state; then the handler owns the socket and
\* the goroutine never touches it again.
Hijack(c) ==
    /\ cp[c] = "handler"
    /\ cp' = [cp EXCEPT ![c] = "hijack"]
    /\ UNCHANGED <<flagVars, lockVars, lnOpen, serveVars, curState, got,
                   reply, late, rwcOpen, callVars>>

\* Mutant of HijackUntrack: setState untracks closed connections only.
HijackTracked(c) ==
    /\ cp[c] = "hijack"
    /\ cp' = [cp EXCEPT ![c] = "hijackStore"]
    /\ UNCHANGED <<flagVars, lockVars, lnOpen, serveVars, curState, got, reply,
                   late, rwcOpen, callVars>>

HijackUntrack(c) ==
    /\ cp[c] = "hijack"
    /\ mu = Free
    /\ activeConn' = activeConn \ {c}
    /\ cp' = [cp EXCEPT ![c] = "hijackStore"]
    /\ UNCHANGED <<flagVars, mu, doneClosed, listeners, lnOpen, serveVars,
                   curState, got, reply, late, rwcOpen, callVars>>

StoreHijacked(c) ==
    /\ cp[c] = "hijackStore"
    /\ curState' = [curState EXCEPT ![c] = "hijacked"]
    /\ cp' = [cp EXCEPT ![c] = "hijacked"]
    /\ UNCHANGED <<flagVars, lockVars, lnOpen, serveVars, got, reply,
                   late, rwcOpen, callVars>>

\* finishRequest and shouldReuseConnection: a reply without "Connection:
\* close" may still end the connection (write errors, a body left unread,
\* too few bytes written).  Bytes of the next request may be buffered.  The
\* step is the return of the function: the flush waits for the client to take
\* the reply, the drain and reqBody.Close for it to send what is left of the
\* body, so nothing but the client or a closed socket makes it happen.
FinishRequest(c) ==
    /\ cp[c] = "finish" /\ reply[c] # "none"
    /\ reply' = [reply EXCEPT ![c] = "none"]
    /\ \/ /\ reply[c] = "keep"
          /\ cp' = [cp EXCEPT ![c] = "idle"]
          /\ \E g \in {"none", "buffer"} : got' = [got EXCEPT ![c] = g]
       \/ /\ cp' = [cp EXCEPT ![c] = "close"]
          /\ UNCHANGED got
    /\ UNCHANGED <<flagVars, lockVars, lnOpen, serveVars, curState, late,
                   rwcOpen, callVars>>

\* Mutant of StoreIdle: keep-alives are not checked after the store.
StoreIdleUnchecked(c) ==
    /\ cp[c] = "idle"
    /\ curState' = [curState EXCEPT ![c] = "idle"]
    /\ cp' = [cp EXCEPT ![c] = "read"]
    /\ UNCHANGED <<flagVars, lockVars, lnOpen, serveVars, got, reply, late,
                   rwcOpen, callVars>>

\* setState(StateIdle).
StoreIdle(c) ==
    /\ cp[c] = "idle"
    /\ curState' = [curState EXCEPT ![c] = "idle"]
    /\ cp' = [cp EXCEPT ![c] = "keepalive"]
    /\ UNCHANGED <<flagVars, lockVars, lnOpen, serveVars, got, reply,
                   late, rwcOpen, callVars>>

\* if !doKeepAlives() { return }, after the store of StateIdle.
CheckKeepAlives(c) ==
    /\ cp[c] = "keepalive"
    /\ cp' = [cp EXCEPT ![c] = CASE ~doKeepAlives -> "close"
                                 [] doKeepAlives /\ IdleTimeout -> "peek"
                                 [] OTHER -> "read"]
    /\ UNCHANGED <<flagVars, lockVars, lnOpen, serveVars, curState, got,
                   reply, late, rwcOpen, callVars>>

\* c.bufr.Peek(4), under the idle deadline.
Peek(c) ==
    /\ cp[c] = "peek" /\ (got[c] = "buffer" \/ rwcOpen[c])
    /\ got' = [got EXCEPT ![c] = "buffer"]
    /\ cp' = [cp EXCEPT ![c] = "read"]
    /\ UNCHANGED <<flagVars, lockVars, lnOpen, serveVars, curState, reply,
                   late, rwcOpen, callVars>>

PeekFail(c) ==
    /\ cp[c] = "peek"
    /\ cp' = [cp EXCEPT ![c] = "close"]
    /\ UNCHANGED <<flagVars, lockVars, lnOpen, serveVars, curState, got,
                   reply, late, rwcOpen, callVars>>

\* The deferred c.close(), which gives the buffers back, and
\* c.setState(c.rwc, StateClosed).
CloseConn(c) ==
    /\ cp[c] = "close"
    /\ rwcOpen' = [rwcOpen EXCEPT ![c] = FALSE]
    /\ got' = [got EXCEPT ![c] = "none"]
    /\ reply' = [reply EXCEPT ![c] = "none"]
    /\ cp' = [cp EXCEPT ![c] = "untrack"]
    /\ UNCHANGED <<flagVars, lockVars, lnOpen, serveVars, curState, late,
                   callVars>>

\* Mutant of UntrackConn: setState(StateClosed) does not untrack.
UntrackConnForgotten(c) ==
    /\ cp[c] = "untrack"
    /\ cp' = [cp EXCEPT ![c] = "closed"]
    /\ UNCHANGED <<flagVars, lockVars, lnOpen, serveVars, curState, got, reply,
                   late, rwcOpen, callVars>>

UntrackConn(c) ==
    /\ cp[c] = "untrack"
    /\ mu = Free
    /\ activeConn' = activeConn \ {c}
    /\ cp' = [cp EXCEPT ![c] = "closed"]
    /\ UNCHANGED <<flagVars, mu, doneClosed, listeners, lnOpen, serveVars,
                   curState, got, reply, late, rwcOpen, callVars>>

StoreClosed(c) ==
    /\ cp[c] = "closed"
    /\ curState' = [curState EXCEPT ![c] = "closed"]
    /\ cp' = [cp EXCEPT ![c] = "done"]
    /\ UNCHANGED <<flagVars, lockVars, lnOpen, serveVars, got, reply,
                   late, rwcOpen, callVars>>

\* Five seconds pass while the connection still is StateNew.
Age(c) ==
    /\ curState[c] = "new"
    /\ curState' = [curState EXCEPT ![c] = "old"]
    /\ UNCHANGED <<flagVars, lockVars, lnOpen, serveVars, cp, got, reply, late,
                   rwcOpen, callVars>>

-----------------------------------------------------------------------------
(* Shutdown, Close, SetKeepAlivesEnabled.                                  *)

\* srv.inShutdown.setTrue(), the first statement of Shutdown and of Close.
SetInShutdown(p) ==
    /\ p \in Shutdowns \union Closers /\ xp[p] = "start"
    /\ inShutdown' = TRUE
    /\ xp' = [xp EXCEPT ![p] = "lock"]
    /\ UNCHANGED <<disableKeepAlives, lockVars, lnOpen, serveVars, connVars,
                   rwcOpen, ret, todo, victim, quiescent>>

\* Mutant of closeListenersLocked: the loop is lost.
closeNoListeners == UNCHANGED lnOpen

closeListenersLocked == lnOpen' = [l \in Listeners |-> lnOpen[l] /\ l \notin listeners]

\* Shutdown locks srv.mu and closes the listeners; Accept may fail at once.
ShutdownListeners(s) ==
    /\ s \in Shutdowns /\ xp[s] = "lock"
    /\ mu = Free /\ mu' = s
    /\ closeListenersLocked
    /\ xp' = [xp EXCEPT ![s] = "listeners"]
    /\ UNCHANGED <<flagVars, doneClosed, listeners, activeConn, serveVars,
                   connVars, rwcOpen, ret, todo, victim, quiescent>>

\* Then it closes doneChan and unlocks.
ShutdownDone(s) ==
    /\ s \in Shutdowns /\ xp[s] = "listeners"
    /\ doneClosed' = TRUE
    /\ mu' = Free
    /\ xp' = [xp EXCEPT ![s] = "poll"]
    /\ UNCHANGED <<flagVars, listeners, activeConn, lnOpen, serveVars,
                   connVars,
                   rwcOpen, ret, todo, victim, quiescent>>

\* Close locks srv.mu and closes doneChan first ...
CloseDone(k) ==
    /\ k \in Closers /\ xp[k] = "lock"
    /\ mu = Free /\ mu' = k
    /\ doneClosed' = TRUE
    /\ xp' = [xp EXCEPT ![k] = "listeners"]
    /\ UNCHANGED <<flagVars, listeners, activeConn, lnOpen, serveVars,
                   connVars,
                   rwcOpen, ret, todo, victim, quiescent>>

\* ... then the listeners ...
CloseListeners(k) ==
    /\ k \in Closers /\ xp[k] = "listeners"
    /\ closeListenersLocked
    /\ todo' = activeConn
    /\ xp' = [xp EXCEPT ![k] = "conns"]
    /\ UNCHANGED <<flagVars, lockVars, serveVars, connVars, rwcOpen, ret,
                   victim, quiescent>>

\* ... then every tracked connection, whatever its state.
CloseTracked(k, c) ==
    /\ k \in Closers /\ xp[k] = "conns" /\ c \in todo
    /\ rwcOpen' = [rwcOpen EXCEPT ![c] = FALSE]
    /\ activeConn' = activeConn \ {c}
    /\ todo' = todo \ {c}
    /\ UNCHANGED <<flagVars, mu, doneClosed, listeners, lnOpen, serveVars,
                   connVars, xp, ret, victim, quiescent>>

CloseReturn(k) ==
    /\ k \in Closers /\ xp[k] = "conns" /\ todo = {}
    /\ mu' = Free
    /\ xp' = [xp EXCEPT ![k] = "returned"]
    /\ ret' = [ret EXCEPT ![k] = "nil"]
    /\ UNCHANGED <<flagVars, doneClosed, listeners, activeConn, lnOpen,
                   serveVars, connVars, rwcOpen, todo, victim, quiescent>>

\* SetKeepAlivesEnabled(false) stores the flag, then sweeps;
\* SetKeepAlivesEnabled(true) only stores it.
SetKeepAlivesEnabled(p) ==
    /\ p \in Setters /\ xp[p] = "start"
    /\ \/ disableKeepAlives' = TRUE  /\ xp' = [xp EXCEPT ![p] = "poll"]
       \/ disableKeepAlives' = FALSE /\ xp' = [xp EXCEPT ![p] = "returned"]
    /\ UNCHANGED <<inShutdown, lockVars, lnOpen, serveVars, connVars, rwcOpen,
                   ret, todo, victim, quiescent>>

-----------------------------------------------------------------------------
(* closeIdleConns, under srv.mu from its first step to its last.           *)

SweepBegin(p) ==
    /\ p \in Sweepers /\ xp[p] = "poll"
    /\ mu = Free /\ mu' = p
    /\ todo' = activeConn
    /\ quiescent' = TRUE
    /\ xp' = [xp EXCEPT ![p] = "sweep"]
    /\ UNCHANGED <<flagVars, doneClosed, listeners, activeConn, lnOpen,
                   serveVars, connVars, rwcOpen, ret, victim>>

\* Mutant of Sweepable: the zero state counts as an old StateNew.
SweepableUnset(c) == curState[c] \in {"idle", "old", "unset"}

\* Idle, or new for over five seconds; never while no state is stored.
Sweepable(c) == curState[c] \in {"idle", "old"}

\* c.getState(): what it returns is used in a later step.
SweepVisit(p, c) ==
    /\ p \in Sweepers /\ xp[p] = "sweep" /\ victim = NoConn /\ c \in todo
    /\ todo' = todo \ {c}
    /\ IF Sweepable(c)
       THEN victim' = c /\ UNCHANGED quiescent
       ELSE quiescent' = FALSE /\ UNCHANGED victim
    /\ UNCHANGED <<flagVars, lockVars, lnOpen, serveVars, connVars, rwcOpen,
                   xp,
                   ret>>

\* c.rwc.Close() and the delete, whatever the connection's goroutine did
\* since its state was loaded.
SweepClose(p) ==
    /\ p \in Sweepers /\ xp[p] = "sweep" /\ victim # NoConn
    /\ rwcOpen' = [rwcOpen EXCEPT ![victim] = FALSE]
    /\ activeConn' = activeConn \ {victim}
    /\ victim' = NoConn
    /\ UNCHANGED <<flagVars, mu, doneClosed, listeners, lnOpen, serveVars,
                   connVars, xp, ret, todo, quiescent>>

\* Unlock.  SetKeepAlivesEnabled returns; Shutdown looks at the result.
SweepEnd(p) ==
    /\ p \in Sweepers /\ xp[p] = "sweep" /\ victim = NoConn /\ todo = {}
    /\ mu' = Free
    /\ xp' = [xp EXCEPT ![p] = CASE p \in Setters -> "returned"
                                 [] p \in Shutdowns /\ quiescent -> "count"
                                 [] OTHER -> "wait"]
    /\ ret' = [ret EXCEPT ![p] = IF p \in Setters THEN "nil" ELSE @]
    /\ UNCHANGED <<flagVars, doneClosed, listeners, activeConn, lnOpen,
                   serveVars, connVars, rwcOpen, todo, victim, quiescent>>

\* srv.numListeners() == 0, under srv.mu taken a second time.
CountListeners(s) ==
    /\ s \in Shutdowns /\ xp[s] = "count"
    /\ mu = Free
    /\ IF listeners = {}
       THEN /\ xp' = [xp EXCEPT ![s] = "returned"]
            /\ ret' = [ret EXCEPT ![s] = "nil"]
       ELSE xp' = [xp EXCEPT ![s] = "wait"] /\ UNCHANGED ret
    /\ UNCHANGED <<flagVars, lockVars, lnOpen, serveVars, connVars, rwcOpen,
                   todo, victim, quiescent>>

\* The select of Shutdown: the poll timer, or the caller's context.
PollTimer(s) ==
    /\ s \in Shutdowns /\ xp[s] = "wait"
    /\ xp' = [xp EXCEPT ![s] = "poll"]
    /\ UNCHANGED <<flagVars, lockVars, lnOpen, serveVars, connVars, rwcOpen,
                   ret, todo, victim, quiescent>>

ContextExpires(s) ==
    /\ s \in Shutdowns /\ xp[s] = "wait"
    /\ xp' = [xp EXCEPT ![s] = "returned"]
    /\ ret' = [ret EXCEPT ![s] = "ctxErr"]
    /\ UNCHANGED <<flagVars, lockVars, lnOpen, serveVars, connVars, rwcOpen,
                   todo, victim, quiescent>>

-----------------------------------------------------------------------------
\* What a Serve call does of its own accord.
ServeStep(l) ==
    \/ TrackListener(l) \/ CheckDone(l) \/ TrackConn(l) \/ StoreNew(l)
    \/ GoServe(l) \/ UntrackListener(l) \/ CloseListener(l)

\* What a connection's goroutine does of its own accord.
ConnStep(c) ==
    \/ StoreActiveFailed(c) \/ StoreActive(c) \/ StoreIdle(c)
    \/ CheckKeepAlives(c) \/ HijackUntrack(c) \/ StoreHijacked(c)
    \/ CloseConn(c) \/ UntrackConn(c) \/ StoreClosed(c)

\* What its client and its handler decide.
ClientStep(c) ==
    \/ ReadBytes(c) \/ ReadRequest(c) \/ ReadFail(c) \/ Peek(c) \/ PeekFail(c)
    \/ WriteHeader(c) \/ HandlerReturn(c) \/ HandlerPanic(c) \/ Hijack(c)
    \/ FinishRequest(c) \/ Age(c)

CallStep(p) ==
    \/ SetInShutdown(p) \/ ShutdownListeners(p) \/ ShutdownDone(p)
    \/ CloseDone(p) \/ CloseListeners(p) \/ CloseReturn(p)
    \/ SetKeepAlivesEnabled(p)
    \/ SweepBegin(p) \/ SweepClose(p) \/ SweepEnd(p)
    \/ CountListeners(p) \/ PollTimer(p)
    \/ \E c \in Conns : CloseTracked(p, c) \/ SweepVisit(p, c)

\* Everybody has returned.
AllDone ==
    /\ \A l \in Listeners : sp[l] = "returned"
    /\ \A c \in Conns : cp[c] \in {"none", "hijacked", "done"}
    /\ \A p \in Callers : xp[p] = "returned"
    /\ UNCHANGED vars

Next ==
    \/ \E l \in Listeners : ServeStep(l) \/ AcceptError(l)
    \/ \E l \in Listeners, c \in Conns : Accept(l, c)
    \/ \E c \in Conns : ConnStep(c) \/ ClientStep(c)
    \/ \E p \in Callers : CallStep(p)
    \/ \E s \in Shutdowns : ContextExpires(s)
    \/ AllDone

\* Goroutines run, sync.Mutex does not starve a waiter, time passes, and reads
\* and writes of a closed socket fail.  Nothing makes a client send a request
\* or the rest of a body or take a reply, a handler return, a listener accept
\* or a context expire, and nobody has to call Shutdown.
Fairness ==
    /\ \A l \in Listeners :
           /\ SF_vars(ServeStep(l))
           /\ WF_vars(AcceptError(l) /\ ~lnOpen[l])
    /\ \A c \in Conns :
           /\ SF_vars(ConnStep(c))
           /\ WF_vars((ReadFail(c) \/ PeekFail(c)) /\ ~rwcOpen[c])
           /\ WF_vars((WriteHeader(c) \/ FinishRequest(c))
                         /\ cp[c] = "finish" /\ ~rwcOpen[c])
           /\ WF_vars(Age(c))
    /\ \A p \in Callers : SF_vars(CallStep(p) /\ xp[p] # "start")

Spec == Init /\ [][Next]_vars
FairSpec == Spec /\ Fairness

-----------------------------------------------------------------------------
(* Safety.                                                                 *)

\* Shutdown or Close has closed every listener it found.
ListenersVisited(p) ==
    \/ p \in Shutdowns /\ xp[p] \notin {"start", "lock"}
    \/ p \in Closers /\ xp[p] \in {"conns", "returned"}

\* Once a call of Shutdown or Close is past the loop over srv.listeners, every
\* registered listener is closed: a Serve that started late was refused by
\* trackListener, so it cannot go on accepting behind Shutdown's back.
ListenersClosed ==
    \A p \in Callers : ListenersVisited(p) => \A l \in listeners : ~lnOpen[l]

\* A Serve whose listener was closed under it by Shutdown or Close returns
\* ErrServerClosed, never the listener's error, although Shutdown closes the
\* listeners before it closes doneChan (Serve's select waits for srv.mu).
ServeReportsShutdown ==
    \A l \in Listeners :
        acceptErr[l] = "closed" /\ sp[l] \in {"untrack", "close", "returned"}
            => serveErr[l] = "ErrServerClosed"

\* When Shutdown has returned nil no Serve loop is left that could accept or
\* register another connection, because each leaves srv.listeners only after
\* its loop ended, and none can be added any more.
NoServeLoopAfterShutdown ==
    \A s \in Shutdowns : ret[s] = "nil" =>
        \A l \in Listeners : sp[l] \in {"start", "close", "returned"}

\* srv.activeConn never holds a connection whose goroutine is past its
\* untracking or does not exist: Serve registers the connection before it
\* starts the goroutine that removes it.
NoLeakedConn ==
    \A c \in activeConn :
        cp[c] \notin {"none", "closed", "done", "hijackStore", "hijacked"}

\* A connection starts at most one request after the server began to shut
\* down: the reply to it says "Connection: close", because writeHeader asks
\* doKeepAlives again.
AtMostOneLateRequest == \A c \in Conns : late[c] <= 1

\* Keep-alives are off and the sweep that follows is over.
Swept ==
    \/ \E s \in Shutdowns : xp[s] \in {"count", "wait", "returned"}
    \/ disableKeepAlives /\ \A p \in Setters : xp[p] \in {"start", "returned"}

\* After the sweep of Shutdown or of SetKeepAlivesEnabled(false) no idle
\* connection is left that passed the keep-alive check and still has its
\* socket: serve stores StateIdle before it loads the flag, the caller stores
\* the flag before it loads the state, so one of the two sees the other.
NoIdleSurvivor ==
    Swept => \A c \in Conns :
        curState[c] = "idle" /\ cp[c] \in {"peek", "read", "active"}
            => ~rwcOpen[c]

(* Action properties.                                                      *)

\* Once Hijack has returned, the server never closes the socket: a sweep or a
\* Close that is under way when the handler hijacks holds srv.mu, for which
\* the untracking in setState(StateHijacked) waits.
HijackedLeftAlone ==
    [][\A c \in Conns : cp[c] = "hijacked" => rwcOpen'[c] = rwcOpen[c]]_vars

\* A connection that Serve has registered but whose state it has not stored
\* yet is closed by nobody but Close (issue 22682 and the unixSec == 0 test).
UnsetNotSwept ==
    [][\A c \in Conns :
           curState[c] = "unset" /\ rwcOpen[c] /\ ~rwcOpen'[c] => mu \in Closers]_vars

(* Liveness.                                                               *)

\* No request is served for ever: its handler returns, and its client takes
\* the reply and sends or gives up what is left of the body, for which the
\* header's drain, the flush and reqBody.Close wait.
RequestsEnd == \A c \in Conns : []<>(cp[c] \notin {"handler", "finish"})

\* Shutdown returns by itself, without its context expiring, if no request is
\* served for ever; clients that are idle, that send nothing at all or part of
\* a header, and those that send one request after the other do not hold it up.
ShutdownReturns ==
    RequestsEnd => \A s \in Shutdowns : xp[s] = "lock" ~> xp[s] = "returned"

\* Every Serve call returns after Shutdown or Close.
ServeReturns == inShutdown ~> \A l \in Listeners : sp[l] = "returned"

-----------------------------------------------------------------------------
(* The inductive invariant behind the safety properties.                   *)

\* srv.mu is held across steps exactly by a caller at one of these places.
LockedPc == {"listeners", "sweep", "conns"}

MutexInv ==
    /\ \A p \in Callers : mu = p <=> xp[p] \in LockedPc
    /\ \A p \in Callers : xp[p] = "sweep" => p \in Sweepers
    /\ \A p \in Callers : xp[p] = "conns" => p \in Closers
    /\ \A p \in Callers : xp[p] \in {"count", "wait"} => p \in Shutdowns

FlagInv ==
    \A p \in Shutdowns \union Closers : xp[p] # "start" => inShutdown

\* Serve has a connection in its hands.
HandPc == {"track", "store", "go"}

ServeInv ==
    /\ \A l \in Listeners :
           /\ l \in listeners <=> sp[l] \in {"accept", "check", "untrack"} \union HandPc
           /\ sp[l] = "start" => lnOpen[l]
           /\ sp[l] = "check" /\ acceptErr[l] = "closed" => ~lnOpen[l]
           /\ ~lnOpen[l] /\ l \in listeners =>
                  doneClosed \/ \E s \in Shutdowns : xp[s] = "listeners"
    /\ ServeReportsShutdown
    /\ \A k \in Closers : xp[k] \notin {"start", "lock"} => doneClosed
    /\ \A s \in Shutdowns : ret[s] = "nil" => xp[s] = "returned" /\ listeners = {}

\* A connection in the hands of Serve has no goroutine yet and is in the
\* hands of one Serve only; its goroutine starts when its state is stored.
HandInv ==
    /\ \A l \in Listeners : sp[l] \in HandPc =>
           accepted[l] \in Conns /\ cp[accepted[l]] = "accepted"
    /\ \A l, m \in Listeners :
           sp[l] \in HandPc /\ sp[m] \in HandPc /\ accepted[l] = accepted[m] => l = m
    /\ \A c \in Conns : cp[c] = "none" => ~rwcOpen[c]
    /\ \A l \in Listeners : sp[l] = "go" => curState[accepted[l]] # "unset"
    /\ \A c \in Conns :
           IF cp[c] \in {"none", "accepted"} THEN curState[c] # "idle"
                                            ELSE curState[c] # "unset"

\* The loop over activeConn works on tracked connections, and every served
\* connection whose socket is open is tracked.
ServedPc == {"read", "active", "readFailed", "handler", "finish", "idle",
             "keepalive", "peek", "hijack", "close"}

TrackInv ==
    /\ NoLeakedConn
    /\ victim # NoConn =>
           /\ mu \in Sweepers /\ xp[mu] = "sweep"
           /\ victim \in activeConn \ todo
           /\ curState[victim] # "unset"
    /\ \A p \in Callers : xp[p] \in {"sweep", "conns"} => todo \subseteq activeConn
    /\ \A c \in Conns : cp[c] \in ServedPc /\ rwcOpen[c] => c \in activeConn
    /\ \A l \in Listeners :
           sp[l] \in {"store", "go"} /\ rwcOpen[accepted[l]] => accepted[l] \in activeConn

\* The reply to a late request closes the connection.
LateInv ==
    \A c \in Conns :
        /\ late[c] \in {0, 1}
        /\ cp[c] \in {"none", "accepted", "read", "readFailed", "active", "idle",
                      "keepalive", "peek"} => reply[c] = "none" /\ late[c] = 0
        /\ late[c] = 1 => inShutdown
        /\ late[c] = 1 /\ cp[c] \in {"handler", "finish"} => reply[c] # "keep"

\* An idle connection that passed the keep-alive check and has its socket.
Survivor(c) ==
    curState[c] = "idle" /\ cp[c] \in {"peek", "read", "active"} /\ rwcOpen[c]

IdleInv ==
    /\ \A s \in Shutdowns : \A c \in Conns :
           /\ xp[s] \in {"count", "wait", "returned"} => ~Survivor(c)
           /\ xp[s] = "sweep" /\ Survivor(c) => c \in todo \/ c = victim
    /\ disableKeepAlives =>
           \/ \A c \in Conns : ~Survivor(c)
           \/ \E p \in Setters :
                  \/ xp[p] = "poll"
                  \/ xp[p] = "sweep" /\ \A c \in Conns :
                         Survivor(c) => c \in todo \/ c = victim

IInv ==
    /\ TypeOK /\ MutexInv /\ FlagInv /\ ServeInv /\ ListenersClosed
    /\ HandInv /\ TrackInv /\ LateInv /\ IdleInv

-----------------------------------------------------------------------------
(* What the documentation promises of a graceful shutdown.                 *)

\* "waiting indefinitely for connections to return to idle and then shut
\* down": no connection is left when Shutdown returns nil.
NoConnAfterShutdown == \A s \in Shutdowns : ret[s] = "nil" => activeConn = {}

\* "Shutdown gracefully shuts down the server without interrupting any active
\* connections": a sweep does not close the socket under a running handler.
ActiveNotInterrupted ==
    [][\A c \in Conns :
           cp[c] = "handler" /\ rwcOpen[c] /\ ~rwcOpen'[c] => mu \in Closers]_vars

=============================================================================
