-------------------------------- MODULE Dial --------------------------------
(***************************************************************************)
(* Dialer.DialContext: a call that races two lists of addresses against    *)
(* each other (dialParallel), each tried one address after the other       *)
(* (dialSerial), each address with a socket of its own whose connect may   *)
(* be interrupted by its context (netFD.connect).                          *)
(*                                                                         *)
(* The goroutines are the caller, a racer for each list, an interrupter    *)
(* for each connect in progress and the one that watches Dialer.Cancel.    *)
(* They meet in the unbuffered channel results, the channel returned, the  *)
(* fallback timer, the contexts, and the write deadline of a socket, which *)
(* the interrupter moves into the past to wake up the connect.             *)
(*                                                                         *)
(* A context is done for everything derived from it at once: a racer that  *)
(* looks at it a moment too early is one that looked before.  The name     *)
(* resolver and the kernel are the environment.                            *)
(***************************************************************************)
EXTENDS Naturals

CONSTANTS
    MaxAddrs,       \* how many addresses each of the lists has at most
    MaxRetries,     \* how often doDialTCP tries an address again: 2
    None

Racers == {"primary", "fallback"}

ASSUME LimitsAssumption == 
    /\ MaxAddrs \in [Racers -> Nat] /\ MaxAddrs["primary"] > 0
    /\ MaxRetries \in Nat

Addrs == 1..(MaxAddrs["primary"] + MaxAddrs["fallback"])
Sockets == [racer : Racers, addr : Addrs, try : 0..MaxRetries]

\* An error, of an address: of the network, of the context, or a deadline
\* that has passed.
Errors == [of : Racers, at : Addrs, why : {"net", "ctx", "timeout"}]

ASSUME NoneAssumption == None \notin Sockets \union Errors

VARIABLES
    addrs,      \* how many addresses each list has; never changes
    kind,       \* ctx is the background, may be cancelled, or has a deadline
    derived,    \* DialContext derived ctx itself and cancels it on return
    pc,         \* where the caller is
    timer,      \* fallbackTimer: off, running, fired (its value in C), stopped
    results,    \* the errors received from the racers
    ret,        \* what the call returns: a socket, an error, or None, which
                \* also stands for an error of the resolver
    returned,   \* the channel of that name is closed
    rp,         \* where each racer is
    addr, try,  \* the address it is at, and how often it tried again
    firstErr,   \* dialSerial's variable of that name
    out,        \* the result of a racer or, inside connect, of connect
    ip,         \* where its interrupter is
    ctxDone,    \* ctx is done
    cancelled,  \* the racers whose context has been cancelled
    late,       \* the deadline has passed, on the clock
    partial,    \* the partial deadline of the address: none, ahead, passed on
                \* the clock, or done: the context made for it has ended
    open,       \* the sockets that are open,
    linked,     \* those that have connected,
    poisoned,   \* those whose write deadline an interrupter moved to the past
    watcher     \* the goroutine that watches Dialer.Cancel

callerVars == <<pc, timer, results, ret, returned>>
serialVars == <<addr, try, firstErr>>
ctxVars    == <<ctxDone, cancelled, late, watcher>>
sockVars   == <<open, linked, poisoned>>
inputVars  == <<addrs, kind, derived>>
vars == <<inputVars, callerVars, rp, serialVars, out, ip, ctxVars, partial, sockVars>>

TypeOK ==
    /\ addrs \in [Racers -> Nat]
    /\ kind \in {"background", "cancel", "deadline"} /\ derived \in BOOLEAN
    /\ pc \in {"resolve", "serial", "select", "cancel", "close", "returned"}
    /\ timer \in {"off", "running", "fired", "stopped"}
    /\ results \in [Racers -> Errors \union {None}]
    /\ ret \in Sockets \union Errors \union {None}
    /\ returned \in BOOLEAN
    /\ rp \in [Racers -> {"off", "check", "socket", "connect", "wait", "unwind", "join",
                          "linked", "failed", "result", "end"}]
    /\ addr \in [Racers -> Nat \ {0}] /\ try \in [Racers -> 0..MaxRetries]
    /\ firstErr \in [Racers -> Errors \union {None}]
    /\ out \in [Racers -> Sockets \union Errors \union {None}]
    /\ ip \in [Racers -> {"off", "select", "poisoned", "quit"}]
    /\ ctxDone \in BOOLEAN /\ cancelled \subseteq Racers /\ late \in BOOLEAN
    /\ partial \in [Racers -> {"none", "ahead", "passed", "done"}]
    /\ open \subseteq Sockets /\ linked \subseteq Sockets /\ poisoned \subseteq Sockets
    /\ watcher \in {"off", "wait"}

Init ==
    /\ \E p \in 1..MaxAddrs["primary"], f \in 0..MaxAddrs["fallback"] :
          addrs = [r \in Racers |-> IF r = "primary" THEN p ELSE f]
    /\ kind \in {"background", "cancel", "deadline"}
    /\ derived \in BOOLEAN /\ (derived => kind # "background")
    /\ watcher \in {"off", "wait"} /\ (watcher = "wait" => derived)
    /\ pc = "resolve" /\ timer = "off" /\ ret = None /\ returned = FALSE
    /\ results = [r \in Racers |-> None]
    /\ rp = [r \in Racers |-> "off"]
    /\ addr = [r \in Racers |-> 1] /\ try = [r \in Racers |-> 0]
    /\ firstErr = [r \in Racers |-> None] /\ out = [r \in Racers |-> None]
    /\ ip = [r \in Racers |-> "off"]
    /\ ctxDone = FALSE /\ cancelled = {} /\ late = FALSE
    /\ partial = [r \in Racers |-> "none"]
    /\ open = {} /\ linked = {} /\ poisoned = {}

Parallel    == addrs["fallback"] > 0
RacerDone(r) == ctxDone \/ r \in cancelled      \* the racer's context
DialDone(r)  == RacerDone(r) \/ partial[r] = "done"     \* dialCtx
Socket(r)   == [racer |-> r, addr |-> addr[r], try |-> try[r]]
Failure(r, why) == [of |-> r, at |-> addr[r], why |-> why]
Goto(r, where) == rp' = [rp EXCEPT ![r] = where]

Close(s) ==
    /\ open' = open \ {s} /\ linked' = linked \ {s} /\ poisoned' = poisoned \ {s}

\* The goroutine of a racer ends, or the call of dialSerial returns.
End(r) ==
    /\ Goto(r, "end")
    /\ addr' = [addr EXCEPT ![r] = 1] /\ try' = [try EXCEPT ![r] = 0]
    /\ firstErr' = [firstErr EXCEPT ![r] = None] /\ out' = [out EXCEPT ![r] = None]

-----------------------------------------------------------------------------
(* The environment.                                                        *)

ContextEnds ==
    /\ kind # "background" /\ ~ctxDone
    /\ ctxDone' = TRUE
    /\ UNCHANGED <<inputVars, callerVars, rp, serialVars, out, ip, cancelled, late,
                   watcher, partial, sockVars>>

ClockPasses ==
    /\ kind = "deadline"
    /\ \/ /\ ~late /\ late' = TRUE
          /\ partial' = [r \in Racers |-> IF partial[r] = "ahead" THEN "passed"
                                                                  ELSE partial[r]]
       \/ /\ \E r \in Racers :
                partial[r] = "ahead" /\ partial' = [partial EXCEPT ![r] = "passed"]
          /\ UNCHANGED late
    /\ UNCHANGED <<inputVars, callerVars, rp, serialVars, out, ip, ctxDone, cancelled,
                   watcher, sockVars>>

PartialEnds(r) ==
    /\ partial[r] = "passed" /\ partial' = [partial EXCEPT ![r] = "done"]
    /\ UNCHANGED <<inputVars, callerVars, rp, serialVars, out, ip, ctxVars, sockVars>>

TimerFires ==
    /\ timer = "running" /\ timer' = "fired"
    /\ UNCHANGED <<inputVars, pc, results, ret, returned, rp, serialVars, out, ip,
                   ctxVars, partial, sockVars>>

-----------------------------------------------------------------------------
(* netFD.connect and its interrupter.                                      *)

(* socket, up to connect: it may fail before there is anything to connect. *)
OpenSocket(r) ==
    /\ rp[r] = "socket"
    /\ \/ /\ open' = open \union {Socket(r)}
          /\ Goto(r, "connect") /\ UNCHANGED out
       \/ /\ out' = [out EXCEPT ![r] = Failure(r, "net")]
          /\ Goto(r, "failed") /\ UNCHANGED open
    /\ UNCHANGED <<inputVars, callerVars, serialVars, ip, ctxVars, partial, linked,
                   poisoned>>

(* The system call: it connects at once, fails, or is in progress.  What   *)
(* waits for the context to end starts unless that is the background.      *)
Connect(r) ==
    /\ rp[r] = "connect"
    /\ \/ /\ ~DialDone(r) /\ linked' = linked \union {Socket(r)}
          /\ out' = [out EXCEPT ![r] = Socket(r)]
          /\ Goto(r, "linked") /\ UNCHANGED <<ip, open, poisoned>>
       \/ /\ \E why \in IF DialDone(r) THEN {"net", "ctx"} ELSE {"net"} :
                out' = [out EXCEPT ![r] = Failure(r, why)]
          /\ Close(Socket(r)) /\ Goto(r, "failed") /\ UNCHANGED ip
       \/ /\ Goto(r, "wait")
          /\ ip' = [ip EXCEPT ![r] = IF kind = "background" /\ ~Parallel THEN "off"
                                                                        ELSE "select"]
          /\ UNCHANGED <<out, sockVars>>
    /\ UNCHANGED <<inputVars, callerVars, serialVars, ctxVars, partial>>

\* The write deadline of r's socket has passed.
Expired(r) ==
    \/ Socket(r) \in poisoned
    \/ kind = "deadline" /\ (late \/ partial[r] \in {"passed", "done"})

WaitTimesOut(r) ==
    /\ rp[r] = "wait" /\ Expired(r)
    /\ out' = [out EXCEPT ![r] = Failure(r, IF DialDone(r) THEN "ctx" ELSE "timeout")]
    /\ Goto(r, "unwind")
    /\ UNCHANGED <<inputVars, callerVars, serialVars, ip, ctxVars, partial, sockVars>>

(* WaitWrite returns and SO_ERROR is read.  A wait that has not yet looked *)
(* at the deadline may still find the socket ready.                        *)
WaitReady(r) ==
    /\ rp[r] = "wait"
    /\ \/ /\ linked' = linked \union {Socket(r)}
          /\ out' = [out EXCEPT ![r] = Socket(r)]
       \/ /\ out' = [out EXCEPT ![r] = Failure(r, "net")]
          /\ UNCHANGED linked
    /\ Goto(r, "unwind")
    /\ UNCHANGED <<inputVars, callerVars, serialVars, ip, ctxVars, partial, open,
                   poisoned>>

Interrupt(r) ==
    /\ ip[r] = "select" /\ DialDone(r)
    /\ poisoned' = poisoned \union {Socket(r)}
    /\ ip' = [ip EXCEPT ![r] = "poisoned"]
    /\ UNCHANGED <<inputVars, callerVars, rp, serialVars, out, ctxVars, partial, open,
                   linked>>

InterrupterQuits(r) ==
    /\ ip[r] = "select" /\ rp[r] = "join"
    /\ ip' = [ip EXCEPT ![r] = "quit"]
    /\ UNCHANGED <<inputVars, callerVars, rp, serialVars, out, ctxVars, partial,
                   sockVars>>

\* Mutant of Unwind: connect does not wait for its interrupter.
UnwindAtOnce(r) ==
    /\ rp[r] = "unwind"
    /\ IF out[r] \in Errors THEN Goto(r, "failed") /\ Close(Socket(r))
                            ELSE Goto(r, "linked") /\ UNCHANGED sockVars
    /\ UNCHANGED <<inputVars, callerVars, serialVars, out, ip, ctxVars, partial>>

(* The deferred function closes done.                                      *)
Unwind(r) ==
    /\ rp[r] = "unwind" /\ Goto(r, "join")
    /\ UNCHANGED <<inputVars, callerVars, serialVars, out, ip, ctxVars, partial,
                   sockVars>>

(* It receives from interruptRes: the socket of a connect that succeeded   *)
(* and was interrupted is no good.  Then the deadline is taken back, and   *)
(* socket closes what did not connect.                                     *)
Join(r) ==
    LET spoilt == ip[r] = "poisoned" /\ out[r] \in Sockets
        bad    == spoilt \/ out[r] \in Errors IN
    /\ rp[r] = "join" /\ ip[r] # "select"
    /\ out' = [out EXCEPT ![r] = IF spoilt THEN Failure(r, "ctx") ELSE @]
    /\ IF bad THEN Close(Socket(r))
              ELSE /\ poisoned' = IF kind = "deadline" THEN poisoned \ {Socket(r)}
                                                      ELSE poisoned
                   /\ UNCHANGED <<open, linked>>
    /\ Goto(r, IF bad THEN "failed" ELSE "linked")
    /\ ip' = [ip EXCEPT ![r] = "off"]
    /\ UNCHANGED <<inputVars, callerVars, serialVars, ctxVars, partial>>

-----------------------------------------------------------------------------
(* doDialTCP and dialSerial.                                               *)

(* A socket that connected to itself is closed and tried again.            *)
Linked(r) ==
    /\ rp[r] = "linked"
    /\ \/ /\ try[r] < MaxRetries /\ try' = [try EXCEPT ![r] = @ + 1]
          /\ out' = [out EXCEPT ![r] = None]
          /\ Close(Socket(r))
          /\ Goto(r, "socket") /\ UNCHANGED partial
       \/ /\ partial' = [partial EXCEPT ![r] = "none"]
          /\ Goto(r, "result") /\ UNCHANGED <<try, out, sockVars>>
    /\ UNCHANGED <<inputVars, callerVars, addr, firstErr, ip, ctxVars>>

(* EADDRNOTAVAIL is tried again; another error is the address's.           *)
Failed(r) ==
    /\ rp[r] = "failed"
    /\ \/ /\ out[r].why = "net" /\ try[r] < MaxRetries
          /\ try' = [try EXCEPT ![r] = @ + 1]
          /\ Goto(r, "socket") /\ UNCHANGED <<addr, firstErr, partial>>
       \/ /\ firstErr' = [firstErr EXCEPT ![r] = IF @ = None THEN out[r] ELSE @]
          /\ addr' = [addr EXCEPT ![r] = @ + 1] /\ try' = [try EXCEPT ![r] = 0]
          /\ partial' = [partial EXCEPT ![r] = "none"]
          /\ Goto(r, "check")
    /\ out' = [out EXCEPT ![r] = None]
    /\ UNCHANGED <<inputVars, callerVars, ip, ctxVars, sockVars>>

(* The head of dialSerial's loop, or its end.  The last address gets all   *)
(* the time there is; an earlier one may when there is little.             *)
NextAddr(r) ==
    /\ rp[r] = "check"
    /\ \/ /\ addr[r] > addrs[r]
          /\ out' = [out EXCEPT ![r] = firstErr[r]]
          /\ Goto(r, "result") /\ UNCHANGED <<firstErr, partial>>
       \/ /\ addr[r] <= addrs[r] /\ RacerDone(r)
          /\ out' = [out EXCEPT ![r] = Failure(r, "ctx")]
          /\ Goto(r, "result") /\ UNCHANGED <<firstErr, partial>>
       \/ /\ addr[r] <= addrs[r] /\ ~RacerDone(r) /\ kind = "deadline" /\ late
          /\ firstErr' = [firstErr EXCEPT
                 ![r] = IF @ = None THEN Failure(r, "timeout") ELSE @]
          /\ out' = [out EXCEPT ![r] = firstErr'[r]]
          /\ Goto(r, "result") /\ UNCHANGED partial
       \/ /\ addr[r] <= addrs[r] /\ ~RacerDone(r) /\ ~(kind = "deadline" /\ late)
          /\ \E p \in IF kind = "deadline" /\ addr[r] < addrs[r] THEN {"none", "ahead"}
                                                                  ELSE {"none"} :
                partial' = [partial EXCEPT ![r] = p]
          /\ Goto(r, "socket") /\ UNCHANGED <<firstErr, out>>
    /\ UNCHANGED <<inputVars, callerVars, addr, try, ip, ctxVars, sockVars>>

-----------------------------------------------------------------------------
(* DialContext and dialParallel.                                           *)

Resolve ==
    /\ pc = "resolve"
    /\ \/ pc' = "returned" /\ UNCHANGED <<timer, rp, ret>>
       \/ /\ pc' = IF Parallel THEN "select" ELSE "serial"
          /\ timer' = IF Parallel THEN "running" ELSE "off"
          /\ Goto("primary", "check") /\ UNCHANGED ret
    /\ ctxDone' = (ctxDone \/ (derived /\ pc' = "returned"))
    /\ UNCHANGED <<inputVars, results, returned, serialVars, out, ip, cancelled, late,
                   watcher, partial, sockVars>>

(* Without fallbacks dialSerial runs on the caller's goroutine.            *)
SerialReturns ==
    /\ pc = "serial" /\ rp["primary"] = "result"
    /\ End("primary") /\ ret' = out["primary"] /\ pc' = "returned"
    /\ ctxDone' = (ctxDone \/ derived)
    /\ UNCHANGED <<inputVars, timer, results, returned, ip, cancelled,
                   late, watcher, partial, sockVars>>

StartFallback ==
    /\ pc = "select" /\ timer = "fired"
    /\ timer' = "stopped"
    /\ Goto("fallback", "check")
    /\ UNCHANGED <<inputVars, pc, results, ret, returned, serialVars, out, ip, ctxVars,
                   partial, sockVars>>

\* Mutant of Receive: the timer is stopped and not set again.
ReceiveStops(r) ==
    /\ pc = "select" /\ rp[r] = "result"
    /\ End(r)
    /\ IF out[r] \in Sockets
         THEN ret' = out[r] /\ pc' = "cancel" /\ UNCHANGED <<results, timer>>
         ELSE /\ results' = [results EXCEPT ![r] = out[r]]
              /\ timer' = IF r = "primary" THEN "stopped" ELSE timer
              /\ IF \A q \in Racers : results'[q] # None
                   THEN ret' = results'["primary"] /\ pc' = "cancel"
                   ELSE UNCHANGED <<ret, pc>>
    /\ UNCHANGED <<inputVars, returned, ip, ctxVars, partial, sockVars>>

\* Mutant of Receive: the first error is returned.
ReceiveFirstError(r) ==
    /\ pc = "select" /\ rp[r] = "result"
    /\ End(r) /\ ret' = out[r] /\ pc' = "cancel"
    /\ UNCHANGED <<inputVars, timer, results, returned, ip, ctxVars,
                   partial, sockVars>>

(* The caller receives a result.  When the primary fails and the timer of  *)
(* the fallback can still be stopped, it is set again, to fire at once.    *)
Receive(r) ==
    /\ pc = "select" /\ rp[r] = "result"
    /\ End(r)
    /\ IF out[r] \in Sockets
         THEN ret' = out[r] /\ pc' = "cancel" /\ UNCHANGED <<results, timer>>
         ELSE /\ results' = [results EXCEPT ![r] = out[r]]
              /\ IF \A q \in Racers : results'[q] # None
                   THEN ret' = results'["primary"] /\ pc' = "cancel"
                   ELSE UNCHANGED <<ret, pc>>
              /\ UNCHANGED timer
    /\ UNCHANGED <<inputVars, returned, ip, ctxVars, partial, sockVars>>

\* Mutant of Cancel: fallbackCancel is not deferred.
CancelPrimary ==
    /\ pc = "cancel" /\ pc' = "close"
    /\ cancelled' = {"primary"}
    /\ timer' = "stopped"
    /\ UNCHANGED <<inputVars, results, ret, returned, rp, serialVars, out, ip, ctxDone,
                   late, watcher, partial, sockVars>>

(* The deferred calls: the contexts of both racers are cancelled, and then *)
(* returned is closed.                                                     *)
Cancel ==
    /\ pc = "cancel" /\ pc' = "close"
    /\ cancelled' = {r \in Racers : rp[r] # "off"}
    /\ timer' = "stopped"
    /\ UNCHANGED <<inputVars, results, ret, returned, rp, serialVars, out, ip, ctxDone,
                   late, watcher, partial, sockVars>>

Return ==
    /\ pc = "close" /\ pc' = "returned"
    /\ returned' = TRUE
    /\ ctxDone' = (ctxDone \/ derived)
    /\ UNCHANGED <<inputVars, timer, results, ret, rp, serialVars, out, ip, cancelled,
                   late, watcher, partial, sockVars>>

\* Mutant of Discard: the connection of the loser is not closed.
DiscardOpen(r) ==
    /\ rp[r] = "result" /\ returned
    /\ End(r)
    /\ UNCHANGED <<inputVars, callerVars, ip, ctxVars, partial, sockVars>>

(* A racer that comes too late closes its connection.                      *)
Discard(r) ==
    /\ rp[r] = "result" /\ returned
    /\ End(r) /\ Close(out[r])
    /\ UNCHANGED <<inputVars, callerVars, ip, ctxVars, partial>>

(* The goroutine of DialContext for Dialer.Cancel: the channel is closed,  *)
(* or its context has ended.                                               *)
CancelChannelCloses ==
    /\ watcher = "wait" /\ watcher' = "off" /\ ctxDone' = TRUE
    /\ UNCHANGED <<inputVars, callerVars, rp, serialVars, out, ip, cancelled, late,
                   partial, sockVars>>

WatcherEnds ==
    /\ watcher = "wait" /\ ctxDone /\ watcher' = "off"
    /\ UNCHANGED <<inputVars, callerVars, rp, serialVars, out, ip, ctxDone, cancelled,
                   late, partial, sockVars>>

-----------------------------------------------------------------------------
Caller      == Resolve \/ SerialReturns \/ StartFallback \/ Cancel \/ Return
               \/ \E r \in Racers : Receive(r)
Racer(r)    == \/ NextAddr(r) \/ OpenSocket(r) \/ Connect(r) \/ WaitTimesOut(r)
               \/ Unwind(r) \/ Join(r) \/ Linked(r) \/ Failed(r) \/ Discard(r)
Interrupter(r) == Interrupt(r) \/ InterrupterQuits(r)
Environment == ContextEnds \/ ClockPasses \/ CancelChannelCloses
               \/ \E r \in Racers : WaitReady(r)

Next == \/ Environment \/ TimerFires \/ Caller \/ WatcherEnds
        \/ \E r \in Racers : Racer(r) \/ Interrupter(r) \/ PartialEnds(r)

(* Goroutines that can run do, and a running timer fires.  The peer need   *)
(* not answer a connect and nobody has to cancel one.                      *)
Spec == /\ Init /\ [][Next]_vars
        /\ WF_vars(Caller) /\ WF_vars(TimerFires) /\ WF_vars(WatcherEnds)
        /\ \A r \in Racers : WF_vars(Racer(r)) /\ WF_vars(Interrupter(r))

-----------------------------------------------------------------------------
(* Properties.                                                             *)

RacersOver == \A r \in Racers : rp[r] \in {"off", "end"} /\ ip[r] = "off"

(* When the call has returned and its goroutines are gone, the socket it   *)
(* returned is the only one still open.                                    *)
NoSocketLeaks ==
    pc = "returned" /\ RacersOver => open = {ret} \intersect Sockets

(* DialContext promises that no expiration of the context affects a        *)
(* connection once it has connected: the socket it returns is open and     *)
(* connected, and has no write deadline that an interrupter left behind,   *)
(* although the contexts it was dialled with are cancelled on return.      *)
ReturnedConnUsable ==
    ret \in Sockets => ret \in (open \intersect linked) \ poisoned

(* dialParallel "returns an error from the first primary address" when     *)
(* nobody connects, unless the context ended first, and then only after    *)
(* both racers have given up and closed what they had.                     *)
ErrorIsPrimarys ==
    ret \in Errors =>
        /\ ret.of = "primary" /\ (ret.at = 1 \/ ret.why = "ctx")
        /\ RacersOver /\ open = {}
        /\ \A r \in Racers : addrs[r] > 0 => rp[r] = "end"

(* When the context ends, the call returns, whatever the network does.     *)
CancelEndsDial == ctxDone ~> (pc = "returned")

(* Every goroutine the call started ends once it has returned.             *)
LosersEnd == (pc = "returned") ~> (RacersOver /\ watcher = "off")

-----------------------------------------------------------------------------
(* An inductive invariant for the safety properties above.                 *)

Running(r) == rp[r] \notin {"off", "end"}
Trying(r)  == rp[r] \in {"connect", "wait", "unwind", "join", "linked"}
Good(s)    == s \in open /\ s \in linked /\ s \notin poisoned
ErrorOf(r, e) == e \in Errors /\ e.of = r

\* Behind the first address there is an error, which is the first's.
AddrInv(r) ==
    /\ addrs[r] <= MaxAddrs[r]
    /\ r = "primary" \/ Running(r) => addrs[r] > 0
    /\ addr[r] = 1 \/ firstErr[r] # None
    /\ rp[r] \in {"socket", "failed"} \/ Trying(r) => addr[r] <= addrs[r]
    /\ firstErr[r] # None => ErrorOf(r, firstErr[r]) /\ firstErr[r].at = 1

\* A racer has at most one socket: the one it tries, or its result, or what
\* the call returns.  One that was poisoned is known to its interrupter.
SocketInv(r) ==
    /\ \A s \in open : s.racer = r =>
            \/ Trying(r) /\ s = Socket(r)
            \/ rp[r] = "result" /\ s = out[r]
            \/ rp[r] = "end" /\ s = ret
    /\ Trying(r) => Socket(r) \in open
    /\ rp[r] = "connect" => Socket(r) \notin poisoned
    /\ rp[r] \in {"wait", "unwind", "join"} /\ Socket(r) \in poisoned => ip[r] = "poisoned"
    /\ ip[r] # "off" => rp[r] \in {"wait", "unwind", "join"}

\* What connect, an address and a racer come to.
OutInv(r) ==
    /\ rp[r] = "linked" => out[r] = Socket(r) /\ Good(Socket(r))
    /\ rp[r] \in {"unwind", "join"} =>
            \/ out[r] = Socket(r) /\ Socket(r) \in linked
            \/ ErrorOf(r, out[r]) /\ out[r].at = addr[r]
    /\ rp[r] = "failed" => ErrorOf(r, out[r]) /\ out[r].at = addr[r]
    /\ rp[r] = "result" =>
            \/ out[r] \in Sockets /\ out[r].racer = r /\ Good(out[r])
            \/ ErrorOf(r, out[r]) /\ (out[r].at = 1 \/ out[r].why = "ctx")

\* Where the caller is, and the racers with it.
CallerInv ==
    /\ pc = "resolve" => \A r \in Racers : rp[r] = "off"
    /\ pc = "serial" => rp["fallback"] = "off" /\ ~Parallel /\ Running("primary")
    /\ pc = "select" => /\ Parallel /\ rp["primary"] # "off"
                        /\ \A r \in Racers : rp[r] = "end" => results[r] # None
    /\ timer \in {"running", "fired"} => rp["fallback"] = "off"
    /\ returned => pc = "returned"

\* A result that was received is that of a racer that has ended.
ResultInv ==
    /\ \A r \in Racers : results[r] # None =>
            /\ rp[r] = "end" /\ ErrorOf(r, results[r])
            /\ results[r].at = 1 \/ results[r].why = "ctx"
    /\ pc \in {"resolve", "serial", "select"} => ret = None
    /\ ret \in Sockets => rp[ret.racer] = "end" /\ Good(ret)
    /\ ret \in Errors =>
            /\ ret.of = "primary" /\ (ret.at = 1 \/ ret.why = "ctx")
            /\ \A r \in Racers : ~Running(r) /\ (addrs[r] > 0 => rp[r] = "end")

IInv ==
    /\ TypeOK
    /\ linked \subseteq open /\ poisoned \subseteq open
    /\ \A r \in Racers : AddrInv(r) /\ SocketInv(r) /\ OutInv(r)
    /\ CallerInv /\ ResultInv
=============================================================================
