----------------------------- MODULE Dial_proofs -----------------------------
(***************************************************************************)
(* Proofs about dialing, for any number of addresses and retries: no       *)
(* socket is left open, the one returned is usable, and an error is the    *)
(* first primary's.                                                        *)
(*                                                                         *)
(* The argument: a racer owns at most one socket, and what a step of one   *)
(* racer does is local to it (lemma LocalStep); the caller meets a racer   *)
(* only where that has its result ready.                                   *)
(***************************************************************************)
EXTENDS Dial, TLAPS

USE LimitsAssumption, NoneAssumption

\* No error is a socket, and None is neither.
LEMMA Disjoint == \A x \in Sockets : x \notin Errors /\ x # None
BY DEF Sockets, Errors

\* The socket a racer tries, and the error of its address.
LEMMA SocketType ==
    ASSUME NEW r \in Racers, addr[r] \in Addrs, try[r] \in 0..MaxRetries
    PROVE  Socket(r) \in Sockets /\ Socket(r).racer = r
BY DEF Socket, Sockets

LEMMA FailureType ==
    ASSUME NEW r \in Racers, addr[r] \in Addrs, NEW why \in {"net", "ctx", "timeout"}
    PROVE  /\ Failure(r, why) \in Errors /\ ErrorOf(r, Failure(r, why))
           /\ Failure(r, why).at = addr[r] /\ Failure(r, why).why = why
BY DEF Failure, Errors, ErrorOf

LEMMA SocketSame ==
    ASSUME NEW r \in Racers, addr'[r] = addr[r], try'[r] = try[r]
    PROVE  Socket(r)' = Socket(r)
BY DEF Socket

\* A racer at work is at an address of its list.
LEMMA AtAddress ==
    ASSUME IInv, NEW r \in Racers, rp[r] \in {"socket", "failed"} \/ Trying(r)
    PROVE  addr[r] \in Addrs /\ Socket(r) \in Sockets /\ Socket(r).racer = r
<1>1. addr[r] \in Nat \ {0} /\ addrs[r] \in Nat /\ addr[r] <= addrs[r] /\ addrs[r] <= MaxAddrs[r]
    BY DEF IInv, TypeOK, AddrInv
<1>2. MaxAddrs[r] <= MaxAddrs["primary"] + MaxAddrs["fallback"]
    BY DEF Racers
<1>3. addr[r] \in Addrs
    BY <1>1, <1>2 DEF Addrs, Racers
<1> QED
    BY <1>3, SocketType DEF IInv, TypeOK

-----------------------------------------------------------------------------
(* Types.                                                                  *)

(* Every step keeps the types: an address that is tried is one of a list,  *)
(* and a try is one of those allowed.                                      *)
LEMMA TypeStep == IInv /\ [Next]_vars => TypeOK'
<1> SUFFICES ASSUME IInv, [Next]_vars PROVE TypeOK'
    OBVIOUS
<1> USE DEF inputVars, callerVars, serialVars, ctxVars, sockVars, Goto
<1>0. TypeOK
    BY DEF IInv
<1>1. CASE ContextEnds
    BY <1>0, <1>1 DEF ContextEnds, TypeOK
<1>2. CASE ClockPasses
    <2>1. partial' \in [Racers -> {"none", "ahead", "passed", "done"}]
        BY <1>0, <1>2 DEF ClockPasses, TypeOK
    <2>2. late' \in BOOLEAN
        BY <1>0, <1>2 DEF ClockPasses, TypeOK
    <2>3. UNCHANGED <<inputVars, callerVars, rp, serialVars, out, ip, ctxDone, cancelled,
                      watcher, sockVars>>
        BY <1>2 DEF ClockPasses
    <2> QED
        BY <1>0, <2>1, <2>2, <2>3 DEF TypeOK
<1>3. CASE WatcherEnds
    BY <1>0, <1>3 DEF WatcherEnds, TypeOK
<1>23. CASE CancelChannelCloses
    BY <1>0, <1>23 DEF CancelChannelCloses, TypeOK
<1>4. CASE TimerFires
    BY <1>0, <1>4 DEF TimerFires, TypeOK
<1>5. CASE Resolve
    BY <1>0, <1>5 DEF Resolve, Parallel, Racers, TypeOK
<1>6. CASE SerialReturns
    BY <1>0, <1>6 DEF SerialReturns, End, Racers, TypeOK
<1>7. CASE StartFallback
    BY <1>0, <1>7 DEF StartFallback, Racers, TypeOK
<1>8. CASE Cancel
    BY <1>0, <1>8 DEF Cancel, TypeOK
<1>9. CASE Return
    BY <1>0, <1>9 DEF Return, TypeOK
<1>10. ASSUME NEW r \in Racers, Receive(r) PROVE TypeOK'
    <2>1. out[r] \in Sockets \/ out[r] \in Errors
        BY <1>10 DEF IInv, OutInv, ErrorOf, Receive
    <2>2. results' \in [Racers -> Errors \union {None}]
        BY <1>0, <1>10, <2>1 DEF Receive, TypeOK
    <2>3. ret' \in Sockets \union Errors \union {None}
        BY <1>0, <1>10, <2>2 DEF Receive, TypeOK, Racers
    <2>4. pc' \in {"resolve", "serial", "select", "cancel", "close", "returned"}
        BY <1>0, <1>10 DEF Receive, TypeOK
    <2>5. UNCHANGED <<timer, inputVars, returned, ip, ctxVars, partial, sockVars>>
        BY <1>10 DEF Receive
    <2>6. /\ rp' \in [Racers -> {"off", "check", "socket", "connect", "wait", "unwind", "join",
                                 "linked", "failed", "result", "end"}]
          /\ addr' \in [Racers -> Nat \ {0}] /\ try' \in [Racers -> 0..MaxRetries]
        BY <1>0, <1>10 DEF Receive, End, TypeOK
    <2>7. /\ firstErr' \in [Racers -> Errors \union {None}]
          /\ out' \in [Racers -> Sockets \union Errors \union {None}]
        BY <1>0, <1>10 DEF Receive, End, TypeOK
    <2> QED
        BY <1>0, <2>2, <2>3, <2>4, <2>5, <2>6, <2>7 DEF TypeOK
<1>11. ASSUME NEW r \in Racers, Discard(r) PROVE TypeOK'
    BY <1>0, <1>11 DEF Discard, End, Close, TypeOK
<1>12. ASSUME NEW r \in Racers, NextAddr(r) PROVE TypeOK'
    <2>1. addr[r] <= addrs[r] =>
              \A why \in {"net", "ctx", "timeout"} : Failure(r, why) \in Errors
        <3>1. addrs[r] \in Nat /\ addrs[r] <= MaxAddrs[r] /\ addr[r] \in Nat \ {0}
            BY <1>0 DEF IInv, AddrInv, TypeOK
        <3>2. addr[r] <= addrs[r] => addr[r] \in Addrs
            BY <3>1 DEF Addrs, Racers
        <3> QED
            BY <3>2, FailureType
    <2>2. rp' \in [Racers -> {"off", "check", "socket", "connect", "wait", "unwind", "join",
                              "linked", "failed", "result", "end"}]
        BY <1>0, <1>12 DEF NextAddr, TypeOK
    <2>3. firstErr' \in [Racers -> Errors \union {None}]
        BY <1>0, <1>12, <2>1 DEF NextAddr, TypeOK
    <2>4. out' \in [Racers -> Sockets \union Errors \union {None}]
        BY <1>0, <1>12, <2>1, <2>3 DEF NextAddr, TypeOK
    <2>5. partial' \in [Racers -> {"none", "ahead", "passed", "done"}]
        BY <1>0, <1>12 DEF NextAddr, TypeOK
    <2> QED
        BY <1>0, <1>12, <2>2, <2>3, <2>4, <2>5 DEF NextAddr, TypeOK
<1>13. ASSUME NEW r \in Racers, OpenSocket(r) PROVE TypeOK'
    <2>1. /\ addr[r] \in Addrs /\ Socket(r) \in Sockets
          /\ \A why \in {"net", "ctx", "timeout"} : Failure(r, why) \in Errors
        BY <1>13, AtAddress, FailureType DEF OpenSocket, Trying
    <2>2. rp' \in [Racers -> {"off", "check", "socket", "connect", "wait", "unwind", "join",
                              "linked", "failed", "result", "end"}]
        BY <1>0, <1>13, <2>1 DEF OpenSocket, TypeOK
    <2>3. out' \in [Racers -> Sockets \union Errors \union {None}]
        BY <1>0, <1>13, <2>1 DEF OpenSocket, TypeOK
    <2>4. open' \subseteq Sockets /\ linked' \subseteq Sockets /\ poisoned' \subseteq Sockets
        BY <1>0, <1>13, <2>1 DEF OpenSocket, TypeOK
    <2> QED
        BY <1>0, <1>13, <2>1, <2>2, <2>3, <2>4 DEF OpenSocket, TypeOK
<1>14. ASSUME NEW r \in Racers, Connect(r) PROVE TypeOK'
    <2>1. /\ addr[r] \in Addrs /\ Socket(r) \in Sockets
          /\ \A why \in {"net", "ctx", "timeout"} : Failure(r, why) \in Errors
        BY <1>14, AtAddress, FailureType DEF Connect, Trying
    <2>2. rp' \in [Racers -> {"off", "check", "socket", "connect", "wait", "unwind", "join",
                              "linked", "failed", "result", "end"}]
        BY <1>0, <1>14, <2>1 DEF Connect, TypeOK
    <2>3. out' \in [Racers -> Sockets \union Errors \union {None}]
        BY <1>0, <1>14, <2>1 DEF Connect, TypeOK
    <2>4. ip' \in [Racers -> {"off", "select", "poisoned", "quit"}]
        BY <1>0, <1>14, <2>1 DEF Connect, TypeOK
    <2>5. open' \subseteq Sockets /\ linked' \subseteq Sockets /\ poisoned' \subseteq Sockets
        BY <1>0, <1>14, <2>1 DEF Connect, TypeOK, Close
    <2> QED
        BY <1>0, <1>14, <2>1, <2>2, <2>3, <2>4, <2>5 DEF Connect, TypeOK
<1>15. ASSUME NEW r \in Racers, WaitTimesOut(r) PROVE TypeOK'
    <2>1. /\ addr[r] \in Addrs /\ Socket(r) \in Sockets
          /\ \A why \in {"net", "ctx", "timeout"} : Failure(r, why) \in Errors
        BY <1>15, AtAddress, FailureType DEF WaitTimesOut, Trying
    <2>2. rp' \in [Racers -> {"off", "check", "socket", "connect", "wait", "unwind", "join",
                              "linked", "failed", "result", "end"}]
        BY <1>0, <1>15, <2>1 DEF WaitTimesOut, TypeOK
    <2>3. out' \in [Racers -> Sockets \union Errors \union {None}]
        BY <1>0, <1>15, <2>1 DEF WaitTimesOut, TypeOK
    <2> QED
        BY <1>0, <1>15, <2>1, <2>2, <2>3 DEF WaitTimesOut, TypeOK
<1>16. ASSUME NEW r \in Racers, WaitReady(r) PROVE TypeOK'
    <2>1. /\ addr[r] \in Addrs /\ Socket(r) \in Sockets
          /\ \A why \in {"net", "ctx", "timeout"} : Failure(r, why) \in Errors
        BY <1>16, AtAddress, FailureType DEF WaitReady, Trying
    <2>2. rp' \in [Racers -> {"off", "check", "socket", "connect", "wait", "unwind", "join",
                              "linked", "failed", "result", "end"}]
        BY <1>0, <1>16, <2>1 DEF WaitReady, TypeOK
    <2>3. out' \in [Racers -> Sockets \union Errors \union {None}]
        BY <1>0, <1>16, <2>1 DEF WaitReady, TypeOK
    <2>4. open' \subseteq Sockets /\ linked' \subseteq Sockets /\ poisoned' \subseteq Sockets
        BY <1>0, <1>16, <2>1 DEF WaitReady, TypeOK
    <2> QED
        BY <1>0, <1>16, <2>1, <2>2, <2>3, <2>4 DEF WaitReady, TypeOK
<1>17. ASSUME NEW r \in Racers, Interrupt(r) PROVE TypeOK'
    <2>1. addr[r] \in Addrs /\ Socket(r) \in Sockets
        BY <1>17, AtAddress DEF Interrupt, IInv, SocketInv, Trying
    <2>2. ip' \in [Racers -> {"off", "select", "poisoned", "quit"}]
        BY <1>0, <1>17, <2>1 DEF Interrupt, TypeOK
    <2>3. open' \subseteq Sockets /\ linked' \subseteq Sockets /\ poisoned' \subseteq Sockets
        BY <1>0, <1>17, <2>1 DEF Interrupt, TypeOK
    <2> QED
        BY <1>0, <1>17, <2>1, <2>2, <2>3 DEF Interrupt, TypeOK
<1>18. ASSUME NEW r \in Racers, InterrupterQuits(r) \/ PartialEnds(r) \/ Unwind(r)
      PROVE  TypeOK'
    BY <1>0, <1>18 DEF InterrupterQuits, PartialEnds, Unwind, TypeOK
<1>19. ASSUME NEW r \in Racers, Join(r) PROVE TypeOK'
    <2>1. /\ addr[r] \in Addrs /\ Socket(r) \in Sockets
          /\ \A why \in {"net", "ctx", "timeout"} : Failure(r, why) \in Errors
        BY <1>19, AtAddress, FailureType DEF Join, Trying
    <2>2. rp' \in [Racers -> {"off", "check", "socket", "connect", "wait", "unwind", "join",
                              "linked", "failed", "result", "end"}]
        BY <1>0, <1>19, <2>1 DEF Join, TypeOK
    <2>3. out' \in [Racers -> Sockets \union Errors \union {None}]
        BY <1>0, <1>19, <2>1 DEF Join, TypeOK
    <2>4. ip' \in [Racers -> {"off", "select", "poisoned", "quit"}]
        BY <1>0, <1>19, <2>1 DEF Join, TypeOK
    <2>5. open' \subseteq Sockets /\ linked' \subseteq Sockets /\ poisoned' \subseteq Sockets
        BY <1>0, <1>19, <2>1 DEF Join, TypeOK, Close
    <2> QED
        BY <1>0, <1>19, <2>1, <2>2, <2>3, <2>4, <2>5 DEF Join, TypeOK
<1>20. ASSUME NEW r \in Racers, Linked(r) PROVE TypeOK'
    <2>1. rp' \in [Racers -> {"off", "check", "socket", "connect", "wait", "unwind", "join",
                              "linked", "failed", "result", "end"}]
        BY <1>0, <1>20 DEF Linked, TypeOK
    <2>2. out' \in [Racers -> Sockets \union Errors \union {None}]
        BY <1>0, <1>20 DEF Linked, TypeOK
    <2>3. addr' \in [Racers -> Nat \ {0}] /\ try' \in [Racers -> 0..MaxRetries]
        BY <1>0, <1>20 DEF Linked, TypeOK
    <2>4. partial' \in [Racers -> {"none", "ahead", "passed", "done"}]
        BY <1>0, <1>20 DEF Linked, TypeOK
    <2>5. open' \subseteq Sockets /\ linked' \subseteq Sockets /\ poisoned' \subseteq Sockets
        BY <1>0, <1>20 DEF Linked, TypeOK, Close
    <2> QED
        BY <1>0, <1>20, <2>1, <2>2, <2>3, <2>4, <2>5 DEF Linked, TypeOK
<1>21. ASSUME NEW r \in Racers, Failed(r) PROVE TypeOK'
    <2>1. out[r] \in Errors
        BY <1>21 DEF IInv, OutInv, ErrorOf, Failed
    <2>2. rp' \in [Racers -> {"off", "check", "socket", "connect", "wait", "unwind", "join",
                              "linked", "failed", "result", "end"}]
        BY <1>0, <1>21, <2>1 DEF Failed, TypeOK
    <2>3. out' \in [Racers -> Sockets \union Errors \union {None}]
        BY <1>0, <1>21, <2>1 DEF Failed, TypeOK
    <2>4. firstErr' \in [Racers -> Errors \union {None}]
        BY <1>0, <1>21, <2>1 DEF Failed, TypeOK
    <2>5. addr' \in [Racers -> Nat \ {0}] /\ try' \in [Racers -> 0..MaxRetries]
        BY <1>0, <1>21, <2>1 DEF Failed, TypeOK
    <2>6. partial' \in [Racers -> {"none", "ahead", "passed", "done"}]
        BY <1>0, <1>21, <2>1 DEF Failed, TypeOK
    <2> QED
        BY <1>0, <1>21, <2>1, <2>2, <2>3, <2>4, <2>5, <2>6 DEF Failed, TypeOK
<1>22. CASE UNCHANGED vars
    BY <1>0, <1>22 DEF vars, TypeOK
<1> QED
    BY <1>1, <1>2, <1>3, <1>4, <1>5, <1>6, <1>7, <1>8, <1>9, <1>10, <1>11, <1>12, <1>13,
       <1>14, <1>15, <1>16, <1>17, <1>18, <1>19, <1>20, <1>21, <1>22, <1>23
    DEF Next, Environment, Caller, Racer, Interrupter

-----------------------------------------------------------------------------
(* What is local to a racer.                                               *)

\* The step leaves the other racer and its sockets alone.
Frame(r) ==
    /\ UNCHANGED inputVars
    /\ \A q \in Racers \ {r} :
          /\ rp'[q] = rp[q] /\ ip'[q] = ip[q] /\ out'[q] = out[q]
          /\ addr'[q] = addr[q] /\ try'[q] = try[q] /\ firstErr'[q] = firstErr[q]
    /\ \A s \in Sockets : s.racer # r =>
          /\ s \in open' <=> s \in open
          /\ s \in linked' <=> s \in linked
          /\ s \in poisoned' <=> s \in poisoned

\* A step of r while it is at work.
Local(r) == Frame(r) /\ UNCHANGED callerVars /\ Running(r) /\ Running(r)'

RacerInv(r) == AddrInv(r) /\ SocketInv(r) /\ OutInv(r)

(* The other racer keeps its invariant, also when the caller gets what it  *)
(* returns.                                                                *)
LEMMA OthersKeep ==
    ASSUME IInv, TypeOK', NEW r \in Racers, NEW q \in Racers, q # r, Frame(r),
           ret' = ret \/ ret = None
    PROVE  RacerInv(q)'
<1>1. TypeOK /\ AddrInv(q) /\ SocketInv(q) /\ OutInv(q)
    BY DEF IInv
<1>2. /\ rp'[q] = rp[q] /\ ip'[q] = ip[q] /\ out'[q] = out[q]
      /\ addr'[q] = addr[q] /\ try'[q] = try[q] /\ firstErr'[q] = firstErr[q]
      /\ addrs'[q] = addrs[q]
    BY DEF Frame, inputVars
<1>3. Socket(q)' = Socket(q) /\ Running(q)' = Running(q) /\ Trying(q)' = Trying(q)
    BY <1>2, SocketSame DEF Running, Trying
<1>4. \A s \in Sockets : s.racer = q =>
          /\ s \in open' <=> s \in open
          /\ s \in linked' <=> s \in linked
          /\ s \in poisoned' <=> s \in poisoned
    BY DEF Frame
<1>5. Running(q) /\ (rp[q] \in {"socket", "failed"} \/ Trying(q)) =>
          Socket(q) \in Sockets /\ Socket(q).racer = q
    BY AtAddress
<1>6. AddrInv(q)'
    BY <1>1, <1>2, <1>3 DEF AddrInv, ErrorOf
<1>7. SocketInv(q)'
    <2>1. \A s \in open' : s.racer = q => s \in open /\ s # None
        BY <1>4, Disjoint DEF TypeOK
    <2>2. Trying(q) => Socket(q) \in Sockets /\ Socket(q).racer = q
        BY <1>5 DEF Trying, Running
    <2>3. \A s \in open' : s.racer = q =>
              \/ Trying(q)' /\ s = Socket(q)'
              \/ rp'[q] = "result" /\ s = out'[q]
              \/ rp'[q] = "end" /\ s = ret'
        BY <1>1, <1>2, <1>3, <2>1 DEF SocketInv
    <2>4. /\ Trying(q)' => Socket(q)' \in open'
          /\ rp'[q] = "connect" => Socket(q)' \notin poisoned'
          /\ rp'[q] \in {"wait", "unwind", "join"} /\ Socket(q)' \in poisoned' =>
                ip'[q] = "poisoned"
          /\ ip'[q] # "off" => rp'[q] \in {"wait", "unwind", "join"}
        BY <1>1, <1>2, <1>3, <1>4, <2>2 DEF SocketInv, Trying
    <2> QED
        BY <2>3, <2>4 DEF SocketInv
<1>8. OutInv(q)'
    <2>1. rp[q] \in {"linked", "unwind", "join"} => Socket(q) \in Sockets /\ Socket(q).racer = q
        BY <1>5 DEF Trying, Running
    <2>2. rp'[q] = "linked" => out'[q] = Socket(q)' /\ Good(Socket(q))'
        BY <1>1, <1>2, <1>3, <1>4, <2>1 DEF OutInv, Good
    <2>3. rp'[q] \in {"unwind", "join"} =>
              \/ out'[q] = Socket(q)' /\ Socket(q)' \in linked'
              \/ ErrorOf(q, out'[q]) /\ out'[q].at = addr'[q]
        BY <1>1, <1>2, <1>3, <1>4, <2>1 DEF OutInv
    <2>4. rp'[q] = "failed" => ErrorOf(q, out'[q]) /\ out'[q].at = addr'[q]
        BY <1>1, <1>2 DEF OutInv
    <2>5. rp'[q] = "result" =>
              \/ out'[q] \in Sockets /\ out'[q].racer = q /\ Good(out[q])'
              \/ ErrorOf(q, out'[q]) /\ (out'[q].at = 1 \/ out'[q].why = "ctx")
        BY <1>1, <1>2, <1>4 DEF OutInv, Good
    <2> QED
        BY <2>2, <2>3, <2>4, <2>5 DEF OutInv, ErrorOf
<1> QED
    BY <1>6, <1>7, <1>8 DEF RacerInv

(* What a racer at work does concerns nobody else: no caller's fact is     *)
(* about it.                                                               *)
LEMMA LocalStep ==
    ASSUME IInv, TypeOK', NEW r \in Racers, Local(r), RacerInv(r)',
           linked' \subseteq open', poisoned' \subseteq open'
    PROVE  IInv'
<1>1. \A q \in Racers : RacerInv(q)'
    BY OthersKeep DEF Local, callerVars
<1>2. \A q \in Racers : rp[q] \in {"off", "end"} => q # r /\ rp'[q] = rp[q]
    BY DEF Local, Frame, Running
<1>3. \A q \in Racers : Running(q)' = Running(q)
    BY DEF Local, Frame, Running
<1>4. CallerInv'
    <2>1. CallerInv /\ UNCHANGED <<callerVars, addrs>> /\ rp[r] \notin {"off", "end"}
        BY DEF IInv, Local, Frame, inputVars, Running
    <2>2. Parallel' = Parallel
        BY <2>1 DEF Parallel
    <2>3. "primary" \in Racers /\ "fallback" \in Racers
        BY DEF Racers
    <2>4. \A q \in Racers : rp'[q] \in {"off", "end"} => rp'[q] = rp[q]
        BY DEF Local, Frame, Running
    <2> QED
        BY <1>2, <1>3, <2>1, <2>2, <2>3, <2>4 DEF CallerInv, callerVars
<1>5. ResultInv'
    <2>1. ResultInv /\ UNCHANGED <<callerVars, addrs>>
        BY DEF IInv, Local, Frame, inputVars
    <2>2. ret \in Sockets => ret.racer \in Racers /\ ret.racer # r
        BY <1>2, <2>1 DEF ResultInv, Sockets
    <2>3. ret \in Sockets => rp'[ret.racer] = "end" /\ Good(ret)'
        BY <1>2, <2>1, <2>2 DEF ResultInv, Good, Local, Frame, callerVars
    <2>4. ret \notin Errors
        BY <2>1 DEF ResultInv, Local
    <2>5. \A q \in Racers : results'[q] # None =>
            /\ rp'[q] = "end" /\ ErrorOf(q, results'[q])
            /\ results'[q].at = 1 \/ results'[q].why = "ctx"
        BY <1>2, <2>1 DEF ResultInv, callerVars
    <2> QED
        BY <2>1, <2>3, <2>4, <2>5 DEF ResultInv, callerVars, ErrorOf
<1> QED
    BY <1>1, <1>4, <1>5 DEF IInv, RacerInv

(* Contexts, clocks and the watcher: the invariant is not about them.      *)
LEMMA ContextStep ==
    ASSUME IInv, TypeOK',
           UNCHANGED <<inputVars, callerVars, rp, serialVars, out, ip, sockVars>>
    PROVE  IInv'
<1> USE DEF inputVars, callerVars, serialVars, sockVars
<1>1. \A r \in Racers : RacerInv(r)'
    BY DEF IInv, RacerInv, AddrInv, SocketInv, OutInv, Running, Trying, Good, Socket, ErrorOf
<1>2. CallerInv'
    BY DEF IInv, CallerInv, Parallel, Running
<1>3. ResultInv'
    BY DEF IInv, ResultInv, Good, ErrorOf, Running
<1> QED
    BY <1>1, <1>2, <1>3 DEF IInv, RacerInv

-----------------------------------------------------------------------------
(* The steps of a racer, one by one: each keeps its own invariant.         *)

\* The facts of a racer's state that its steps start from.
LEMMA RacerFacts ==
    ASSUME IInv, NEW r \in Racers
    PROVE  TypeOK /\ AddrInv(r) /\ SocketInv(r) /\ OutInv(r) /\ linked \subseteq open
           /\ poisoned \subseteq open
BY DEF IInv

(* At the head of the loop there is no socket: all errors but the first    *)
(* are forgotten.                                                          *)
LEMMA NextAddrKeeps ==
    ASSUME IInv, TypeOK', NEW r \in Racers, NextAddr(r) PROVE IInv'
<1> USE DEF NextAddr, Goto, serialVars, sockVars
<1>1. TypeOK /\ AddrInv(r) /\ SocketInv(r) /\ OutInv(r) /\ linked \subseteq open
      /\ poisoned \subseteq open
    BY RacerFacts
<1>2. Local(r)
    BY <1>1 DEF Local, Frame, Running, TypeOK
<1>3. UNCHANGED <<addrs, addr, try, ip, open, linked, poisoned>> /\ rp[r] = "check"
      /\ rp'[r] \in {"socket", "result"}
    BY <1>1 DEF TypeOK, inputVars
<1>4. addr[r] <= addrs[r] =>
          \A why \in {"net", "ctx", "timeout"} :
              ErrorOf(r, Failure(r, why)) /\ Failure(r, why).at = addr[r]
              /\ Failure(r, why).why = why
    <2>1. addr[r] <= addrs[r] => addr[r] \in Addrs
        BY <1>1 DEF TypeOK, AddrInv, Addrs, Racers
    <2> QED
        BY <2>1, FailureType
<1>5. firstErr'[r] # None => ErrorOf(r, firstErr'[r]) /\ firstErr'[r].at = 1
    BY <1>1, <1>3, <1>4 DEF AddrInv, Running, TypeOK, ErrorOf
<1>6. firstErr[r] # None => firstErr'[r] # None
    BY <1>1 DEF TypeOK
<1>7. rp'[r] = "socket" => addr[r] <= addrs[r]
    BY <1>1 DEF TypeOK
<1>8. rp'[r] = "result" =>
          ErrorOf(r, out'[r]) /\ (out'[r].at = 1 \/ out'[r].why = "ctx")
    <2>1. CASE addr[r] > addrs[r]
        <3>1. addr[r] # 1 /\ out'[r] = firstErr[r]
            BY <1>1, <1>3, <2>1 DEF AddrInv, Running, TypeOK
        <3> QED
            BY <1>1, <1>3, <3>1 DEF AddrInv, Running
    <2>2. CASE addr[r] <= addrs[r] /\ RacerDone(r)
        BY <1>1, <1>4, <2>2 DEF TypeOK
    <2>3. CASE addr[r] <= addrs[r] /\ ~RacerDone(r)
        <3>1. rp'[r] = "result" => firstErr'[r] # None /\ out'[r] = firstErr'[r]
            BY <1>1, <1>4, <2>3, NoneAssumption DEF TypeOK, ErrorOf
        <3> QED
            BY <1>5, <3>1
    <2> QED
        BY <1>1, <2>1, <2>2, <2>3 DEF TypeOK
<1>9. AddrInv(r)'
    BY <1>1, <1>3, <1>5, <1>6, <1>7 DEF AddrInv, Running, Trying, ErrorOf
<1>10. SocketInv(r)'
    <2>1. \A s \in open : s.racer # r
        BY <1>1, <1>3 DEF SocketInv, Trying
    <2> QED
        BY <1>1, <1>3, <2>1 DEF SocketInv, Trying
<1>11. OutInv(r)'
    BY <1>3, <1>8 DEF OutInv, ErrorOf
<1> QED
    BY <1>1, <1>2, <1>3, <1>9, <1>10, <1>11, LocalStep DEF RacerInv

LEMMA OpenSocketKeeps ==
    ASSUME IInv, TypeOK', NEW r \in Racers, OpenSocket(r) PROVE IInv'
<1> USE DEF OpenSocket, Goto, serialVars
<1>1. TypeOK /\ AddrInv(r) /\ SocketInv(r) /\ OutInv(r) /\ linked \subseteq open
      /\ poisoned \subseteq open
    BY RacerFacts
<1>2. addr[r] \in Addrs /\ Socket(r) \in Sockets /\ Socket(r).racer = r
    BY AtAddress
<1>3. Local(r)
    BY <1>1, <1>2 DEF Local, Frame, Running, TypeOK
<1>4. UNCHANGED <<addrs, addr, try, firstErr, ip, linked, poisoned>> /\ rp[r] = "socket"
      /\ rp'[r] \in {"connect", "failed"} /\ Socket(r)' = Socket(r)
    BY <1>1, SocketSame DEF TypeOK, inputVars
<1>5. AddrInv(r)'
    BY <1>1, <1>4 DEF AddrInv, Running, Trying, ErrorOf
<1>6. \A s \in open : s.racer # r
    BY <1>1, <1>4 DEF SocketInv, Trying
<1>7. Socket(r) \notin poisoned
    BY <1>1, <1>2, <1>6
<1>8. SocketInv(r)'
    <2>1. CASE rp'[r] = "connect"
        <3>1. open' = open \union {Socket(r)}
            BY <1>1, <2>1 DEF TypeOK
        <3> QED
            BY <1>1, <1>4, <1>6, <1>7, <2>1, <3>1 DEF SocketInv, Trying
    <2>2. CASE rp'[r] = "failed"
        <3>1. open' = open
            BY <1>1, <2>2 DEF TypeOK
        <3> QED
            BY <1>1, <1>4, <1>6, <2>2, <3>1 DEF SocketInv, Trying
    <2> QED
        BY <1>4, <2>1, <2>2
<1>9. OutInv(r)'
    <2>1. rp'[r] = "failed" => ErrorOf(r, out'[r]) /\ out'[r].at = addr'[r]
        BY <1>1, <1>2, <1>4, FailureType DEF TypeOK
    <2> QED
        BY <1>4, <2>1 DEF OutInv, ErrorOf
<1>10. open \subseteq open'
    BY <1>1
<1> QED
    BY <1>1, <1>3, <1>4, <1>5, <1>8, <1>9, <1>10, LocalStep DEF RacerInv

(* A connect that fails closes the socket, and one that is over at once    *)
(* has no interrupter.                                                     *)
LEMMA ConnectKeeps ==
    ASSUME IInv, TypeOK', NEW r \in Racers, Connect(r) PROVE IInv'
<1> USE DEF Connect, Goto, serialVars, sockVars, Close
<1>1. TypeOK /\ AddrInv(r) /\ SocketInv(r) /\ OutInv(r) /\ linked \subseteq open
      /\ poisoned \subseteq open
    BY RacerFacts
<1>2. addr[r] \in Addrs /\ Socket(r) \in Sockets /\ Socket(r).racer = r
    BY AtAddress DEF Trying
<1>3. Local(r)
    BY <1>1, <1>2 DEF Local, Frame, Running, TypeOK
<1>4. UNCHANGED <<addrs, addr, try, firstErr>> /\ rp[r] = "connect"
      /\ rp'[r] \in {"linked", "failed", "wait"} /\ Socket(r)' = Socket(r)
    BY <1>1, SocketSame DEF TypeOK, inputVars
<1>5. AddrInv(r)'
    BY <1>1, <1>4 DEF AddrInv, Running, Trying, ErrorOf
<1>6. /\ \A s \in open : s.racer = r => s = Socket(r)
      /\ Socket(r) \in open /\ Socket(r) \notin poisoned /\ ip[r] = "off"
    BY <1>1, <1>4 DEF SocketInv, Trying
<1>7. CASE rp'[r] = "linked"
    <2>1. linked' = linked \union {Socket(r)} /\ out'[r] = Socket(r)
          /\ UNCHANGED <<ip, open, poisoned>>
        BY <1>1, <1>7 DEF TypeOK
    <2>2. SocketInv(r)'
        BY <1>4, <1>6, <1>7, <2>1 DEF SocketInv, Trying
    <2>3. OutInv(r)'
        BY <1>4, <1>6, <1>7, <2>1 DEF OutInv, Good
    <2> QED
        BY <1>1, <1>3, <1>5, <1>6, <2>1, <2>2, <2>3, LocalStep DEF RacerInv
<1>8. CASE rp'[r] = "failed"
    <2>1. open' = open \ {Socket(r)} /\ linked' = linked \ {Socket(r)}
          /\ poisoned' = poisoned \ {Socket(r)} /\ UNCHANGED ip
        BY <1>1, <1>8 DEF TypeOK
    <2>2. ErrorOf(r, out'[r]) /\ out'[r].at = addr'[r]
        BY <1>1, <1>2, <1>4, <1>8, FailureType DEF TypeOK
    <2>3. SocketInv(r)'
        BY <1>4, <1>6, <1>8, <2>1 DEF SocketInv, Trying
    <2>4. OutInv(r)'
        BY <1>4, <1>8, <2>2 DEF OutInv, ErrorOf
    <2> QED
        BY <1>1, <1>3, <1>5, <2>1, <2>3, <2>4, LocalStep DEF RacerInv
<1>9. CASE rp'[r] = "wait"
    <2>1. UNCHANGED <<out, open, linked, poisoned>>
        BY <1>1, <1>9 DEF TypeOK
    <2>2. SocketInv(r)'
        BY <1>4, <1>6, <1>9, <2>1 DEF SocketInv, Trying
    <2>3. OutInv(r)'
        BY <1>4, <1>9 DEF OutInv
    <2> QED
        BY <1>1, <1>3, <1>5, <2>1, <2>2, <2>3, LocalStep DEF RacerInv
<1> QED
    BY <1>4, <1>7, <1>8, <1>9

LEMMA WaitTimesOutKeeps ==
    ASSUME IInv, TypeOK', NEW r \in Racers, WaitTimesOut(r) PROVE IInv'
<1> USE DEF WaitTimesOut, Goto, serialVars, sockVars
<1>1. TypeOK /\ AddrInv(r) /\ SocketInv(r) /\ OutInv(r) /\ linked \subseteq open
      /\ poisoned \subseteq open
    BY RacerFacts
<1>2. addr[r] \in Addrs /\ Socket(r) \in Sockets /\ Socket(r).racer = r
    BY AtAddress DEF Trying
<1>3. Local(r)
    BY <1>1, <1>2 DEF Local, Frame, Running, TypeOK
<1>4. /\ UNCHANGED <<addrs, addr, try, firstErr, ip, open, linked, poisoned>>
      /\ rp[r] = "wait" /\ rp'[r] = "unwind" /\ Socket(r)' = Socket(r)
    BY <1>1, SocketSame DEF TypeOK, inputVars
<1>5. AddrInv(r)' /\ SocketInv(r)'
    BY <1>1, <1>4 DEF AddrInv, SocketInv, Running, Trying, ErrorOf
<1>6. OutInv(r)'
    <2>1. ErrorOf(r, out'[r]) /\ out'[r].at = addr'[r]
        BY <1>1, <1>2, <1>4, FailureType DEF TypeOK
    <2> QED
        BY <1>4, <2>1 DEF OutInv, ErrorOf
<1> QED
    BY <1>1, <1>3, <1>4, <1>5, <1>6, LocalStep DEF RacerInv

LEMMA WaitReadyKeeps ==
    ASSUME IInv, TypeOK', NEW r \in Racers, WaitReady(r) PROVE IInv'
<1> USE DEF WaitReady, Goto, serialVars
<1>1. TypeOK /\ AddrInv(r) /\ SocketInv(r) /\ OutInv(r) /\ linked \subseteq open
      /\ poisoned \subseteq open
    BY RacerFacts
<1>2. addr[r] \in Addrs /\ Socket(r) \in Sockets /\ Socket(r).racer = r
    BY AtAddress DEF Trying
<1>3. Local(r)
    BY <1>1, <1>2 DEF Local, Frame, Running, TypeOK
<1>4. /\ UNCHANGED <<addrs, addr, try, firstErr, ip, open, poisoned>>
      /\ rp[r] = "wait" /\ rp'[r] = "unwind" /\ Socket(r)' = Socket(r)
    BY <1>1, SocketSame DEF TypeOK, inputVars
<1>5. AddrInv(r)' /\ SocketInv(r)'
    BY <1>1, <1>4 DEF AddrInv, SocketInv, Running, Trying, ErrorOf
<1>6. OutInv(r)'
    <2>1. \/ out'[r] = Socket(r) /\ Socket(r) \in linked'
          \/ ErrorOf(r, out'[r]) /\ out'[r].at = addr'[r]
        BY <1>1, <1>2, <1>4, FailureType DEF TypeOK
    <2> QED
        BY <1>4, <2>1 DEF OutInv, ErrorOf
<1>7. linked' \subseteq open'
    BY <1>1, <1>4 DEF SocketInv, Trying
<1> QED
    BY <1>1, <1>3, <1>4, <1>5, <1>6, <1>7, LocalStep DEF RacerInv

(* An interrupter is there only while its connect waits, or waits for it.  *)
LEMMA InterruptKeeps ==
    ASSUME IInv, TypeOK', NEW r \in Racers, Interrupt(r) PROVE IInv'
<1> USE DEF Interrupt, serialVars
<1>1. TypeOK /\ AddrInv(r) /\ SocketInv(r) /\ OutInv(r) /\ linked \subseteq open
      /\ poisoned \subseteq open
    BY RacerFacts
<1>2. rp[r] \in {"wait", "unwind", "join"} /\ Trying(r) /\ Socket(r) \in open
    BY <1>1 DEF SocketInv, Trying
<1>3. addr[r] \in Addrs /\ Socket(r) \in Sockets /\ Socket(r).racer = r
    BY <1>2, AtAddress
<1>4. Local(r)
    BY <1>1, <1>2, <1>3 DEF Local, Frame, Running, TypeOK
<1>5. /\ UNCHANGED <<addrs, rp, addr, try, firstErr, out, open, linked>>
      /\ ip'[r] = "poisoned" /\ Socket(r)' = Socket(r)
    BY <1>1, SocketSame DEF TypeOK, inputVars
<1>6. AddrInv(r)' /\ SocketInv(r)'
    BY <1>1, <1>2, <1>5 DEF AddrInv, SocketInv, Running, Trying, ErrorOf
<1>7. OutInv(r)'
    BY <1>1, <1>2, <1>5 DEF OutInv, ErrorOf
<1> QED
    BY <1>1, <1>2, <1>4, <1>5, <1>6, <1>7, LocalStep DEF RacerInv

LEMMA InterrupterQuitsKeeps ==
    ASSUME IInv, TypeOK', NEW r \in Racers, InterrupterQuits(r) PROVE IInv'
<1> USE DEF InterrupterQuits, serialVars, sockVars
<1>1. TypeOK /\ AddrInv(r) /\ SocketInv(r) /\ OutInv(r) /\ linked \subseteq open
      /\ poisoned \subseteq open
    BY RacerFacts
<1>2. Local(r)
    BY <1>1 DEF Local, Frame, Running, TypeOK
<1>3. /\ UNCHANGED <<addrs, rp, addr, try, firstErr, out, open, linked, poisoned>>
      /\ rp[r] = "join" /\ ip[r] = "select" /\ Socket(r)' = Socket(r)
    BY <1>1, SocketSame DEF TypeOK, inputVars
<1>4. AddrInv(r)' /\ SocketInv(r)'
    BY <1>1, <1>3 DEF AddrInv, SocketInv, Running, Trying, ErrorOf
<1>5. OutInv(r)'
    BY <1>1, <1>3 DEF OutInv, ErrorOf
<1> QED
    BY <1>1, <1>2, <1>3, <1>4, <1>5, LocalStep DEF RacerInv

LEMMA UnwindKeeps ==
    ASSUME IInv, TypeOK', NEW r \in Racers, Unwind(r) PROVE IInv'
<1> USE DEF Unwind, Goto, serialVars, sockVars
<1>1. TypeOK /\ AddrInv(r) /\ SocketInv(r) /\ OutInv(r) /\ linked \subseteq open
      /\ poisoned \subseteq open
    BY RacerFacts
<1>2. Local(r)
    BY <1>1 DEF Local, Frame, Running, TypeOK
<1>3. /\ UNCHANGED <<addrs, ip, addr, try, firstErr, out, open, linked, poisoned>>
      /\ rp[r] = "unwind" /\ rp'[r] = "join" /\ Socket(r)' = Socket(r)
    BY <1>1, SocketSame DEF TypeOK, inputVars
<1>4. AddrInv(r)' /\ SocketInv(r)'
    BY <1>1, <1>3 DEF AddrInv, SocketInv, Running, Trying, ErrorOf
<1>5. OutInv(r)'
    BY <1>1, <1>3 DEF OutInv, ErrorOf
<1> QED
    BY <1>1, <1>2, <1>3, <1>4, <1>5, LocalStep DEF RacerInv

(* connect knows whether its interrupter has touched the socket: one that  *)
(* it keeps was not poisoned.                                              *)
LEMMA JoinKeeps ==
    ASSUME IInv, TypeOK', NEW r \in Racers, Join(r) PROVE IInv'
<1> USE DEF Join, Goto, serialVars, Close
<1>1. TypeOK /\ AddrInv(r) /\ SocketInv(r) /\ OutInv(r) /\ linked \subseteq open
      /\ poisoned \subseteq open
    BY RacerFacts
<1>2. addr[r] \in Addrs /\ Socket(r) \in Sockets /\ Socket(r).racer = r
    BY AtAddress DEF Trying
<1>3. Local(r)
    BY <1>1, <1>2 DEF Local, Frame, Running, TypeOK
<1>4. /\ UNCHANGED <<addrs, addr, try, firstErr>> /\ rp[r] = "join" /\ ip'[r] = "off"
      /\ rp'[r] \in {"linked", "failed"} /\ Socket(r)' = Socket(r)
    BY <1>1, SocketSame DEF TypeOK, inputVars
<1>5. AddrInv(r)'
    BY <1>1, <1>4 DEF AddrInv, Running, Trying, ErrorOf
<1>6. /\ \A s \in open : s.racer = r => s = Socket(r)
      /\ Socket(r) \in open /\ (Socket(r) \in poisoned => ip[r] = "poisoned")
    BY <1>1, <1>4 DEF SocketInv, Trying
<1>7. \/ out[r] = Socket(r) /\ Socket(r) \in linked
      \/ ErrorOf(r, out[r]) /\ out[r].at = addr[r]
    BY <1>1, <1>4 DEF OutInv
<1>8. CASE rp'[r] = "linked"
    <2>1. out[r] \notin Errors /\ ~(ip[r] = "poisoned" /\ out[r] \in Sockets)
        BY <1>1, <1>8 DEF TypeOK
    <2>2. out[r] = Socket(r) /\ Socket(r) \in linked /\ Socket(r) \notin poisoned
        BY <1>2, <1>6, <1>7, <2>1 DEF ErrorOf
    <2>3. out'[r] = Socket(r) /\ UNCHANGED <<open, linked>> /\ poisoned' \subseteq poisoned
        BY <1>1, <1>8, <2>1, <2>2 DEF TypeOK
    <2>4. SocketInv(r)'
        BY <1>4, <1>6, <1>8, <2>2, <2>3 DEF SocketInv, Trying
    <2>5. OutInv(r)'
        BY <1>4, <1>6, <1>8, <2>2, <2>3 DEF OutInv, Good
    <2> QED
        BY <1>1, <1>3, <1>5, <2>3, <2>4, <2>5, LocalStep DEF RacerInv
<1>9. CASE rp'[r] = "failed"
    <2>1. open' = open \ {Socket(r)} /\ linked' = linked \ {Socket(r)}
          /\ poisoned' = poisoned \ {Socket(r)}
        BY <1>1, <1>9 DEF TypeOK
    <2>2. (ip[r] = "poisoned" /\ out[r] \in Sockets) \/ out[r] \in Errors
        BY <1>1, <1>9 DEF TypeOK
    <2>3. ErrorOf(r, out'[r]) /\ out'[r].at = addr'[r]
        BY <1>1, <1>2, <1>4, <1>7, <2>2, FailureType, Disjoint DEF TypeOK, ErrorOf
    <2>4. SocketInv(r)'
        BY <1>4, <1>6, <1>9, <2>1 DEF SocketInv, Trying
    <2>5. OutInv(r)'
        BY <1>4, <1>9, <2>3 DEF OutInv, ErrorOf
    <2> QED
        BY <1>1, <1>3, <1>5, <2>1, <2>4, <2>5, LocalStep DEF RacerInv
<1> QED
    BY <1>4, <1>8, <1>9

LEMMA LinkedKeeps ==
    ASSUME IInv, TypeOK', NEW r \in Racers, Linked(r) PROVE IInv'
<1> USE DEF Linked, Goto, sockVars, Close
<1>1. TypeOK /\ AddrInv(r) /\ SocketInv(r) /\ OutInv(r) /\ linked \subseteq open
      /\ poisoned \subseteq open
    BY RacerFacts
<1>2. addr[r] \in Addrs /\ Socket(r) \in Sockets /\ Socket(r).racer = r
    BY AtAddress DEF Trying
<1>3. Local(r)
    BY <1>1, <1>2 DEF Local, Frame, Running, TypeOK
<1>4. /\ UNCHANGED <<addrs, addr, firstErr, ip>> /\ rp[r] = "linked"
      /\ rp'[r] \in {"socket", "result"}
    BY <1>1 DEF TypeOK, inputVars
<1>5. AddrInv(r)'
    BY <1>1, <1>4 DEF AddrInv, Running, Trying, ErrorOf
<1>6. /\ \A s \in open : s.racer = r => s = Socket(r)
      /\ ip[r] = "off" /\ out[r] = Socket(r) /\ Good(Socket(r))
    BY <1>1, <1>4 DEF SocketInv, OutInv, Trying
<1>7. CASE rp'[r] = "socket"
    <2>1. open' = open \ {Socket(r)} /\ linked' = linked \ {Socket(r)}
          /\ poisoned' = poisoned \ {Socket(r)}
        BY <1>1, <1>7 DEF TypeOK
    <2>2. SocketInv(r)'
        BY <1>4, <1>6, <1>7, <2>1 DEF SocketInv, Trying
    <2>3. OutInv(r)'
        BY <1>7 DEF OutInv
    <2> QED
        BY <1>1, <1>3, <1>5, <2>1, <2>2, <2>3, LocalStep DEF RacerInv
<1>8. CASE rp'[r] = "result"
    <2>1. UNCHANGED <<out, open, linked, poisoned>>
        BY <1>1, <1>8 DEF TypeOK
    <2>2. SocketInv(r)'
        BY <1>4, <1>6, <1>8, <2>1 DEF SocketInv, Trying
    <2>3. OutInv(r)'
        BY <1>2, <1>6, <1>8, <2>1 DEF OutInv, Good
    <2> QED
        BY <1>1, <1>3, <1>5, <2>1, <2>2, <2>3, LocalStep DEF RacerInv
<1> QED
    BY <1>4, <1>7, <1>8

(* The first error that is kept is the first address's: a racer behind it  *)
(* already has one.                                                        *)
LEMMA FailedKeeps ==
    ASSUME IInv, TypeOK', NEW r \in Racers, Failed(r) PROVE IInv'
<1> USE DEF Failed, Goto, sockVars
<1>1. TypeOK /\ AddrInv(r) /\ SocketInv(r) /\ OutInv(r) /\ linked \subseteq open
      /\ poisoned \subseteq open
    BY RacerFacts
<1>2. Local(r)
    BY <1>1 DEF Local, Frame, Running, TypeOK
<1>3. /\ UNCHANGED <<addrs, ip, open, linked, poisoned>> /\ rp[r] = "failed"
      /\ rp'[r] \in {"socket", "check"}
    BY <1>1 DEF TypeOK, inputVars
<1>4. /\ addrs[r] > 0 /\ (addr[r] = 1 \/ firstErr[r] # None)
      /\ firstErr[r] # None => ErrorOf(r, firstErr[r]) /\ firstErr[r].at = 1
      /\ addr[r] <= addrs[r] /\ addrs[r] <= MaxAddrs[r]
    BY <1>1, <1>3 DEF AddrInv, Running
<1>5. ErrorOf(r, out[r]) /\ out[r].at = addr[r] /\ out[r] # None
    BY <1>1, <1>3, NoneAssumption DEF OutInv, ErrorOf
<1>6. AddrInv(r)'
    <2>1. CASE rp'[r] = "socket"
        <3>1. UNCHANGED <<addr, firstErr>>
            BY <1>1, <2>1 DEF TypeOK
        <3> QED
            BY <1>3, <1>4, <2>1, <3>1 DEF AddrInv, Running, Trying, ErrorOf
    <2>2. CASE rp'[r] = "check"
        <3>1. firstErr'[r] = IF firstErr[r] = None THEN out[r] ELSE firstErr[r]
            BY <1>1, <2>2 DEF TypeOK
        <3>2. firstErr'[r] # None /\ ErrorOf(r, firstErr'[r]) /\ firstErr'[r].at = 1
            BY <1>4, <1>5, <3>1
        <3> QED
            BY <1>3, <1>4, <2>2, <3>2 DEF AddrInv, Running, Trying, ErrorOf
    <2> QED
        BY <1>3, <2>1, <2>2
<1>7. SocketInv(r)'
    <2>1. \A s \in open : s.racer # r
        BY <1>1, <1>3 DEF SocketInv, Trying
    <2>2. ip[r] = "off"
        BY <1>1, <1>3 DEF SocketInv
    <2> QED
        BY <1>3, <2>1, <2>2 DEF SocketInv, Trying
<1>8. OutInv(r)'
    BY <1>3 DEF OutInv
<1> QED
    BY <1>1, <1>2, <1>3, <1>6, <1>7, <1>8, LocalStep DEF RacerInv

-----------------------------------------------------------------------------
(* The steps of the caller, and those that meet it.                        *)

LEMMA SameRacers ==
    ASSUME IInv, UNCHANGED <<inputVars, ret, rp, serialVars, out, ip, sockVars>>
    PROVE  \A r \in Racers : RacerInv(r)'
BY DEF IInv, RacerInv, AddrInv, SocketInv, OutInv, Running, Trying, Good, Socket, ErrorOf,
       inputVars, serialVars, sockVars

LEMMA ResolveKeeps ==
    ASSUME IInv, TypeOK', Resolve PROVE IInv'
<1> USE DEF Resolve, Goto, serialVars, sockVars, inputVars
<1>1. TypeOK /\ CallerInv /\ ResultInv /\ linked \subseteq open /\ poisoned \subseteq open
    BY DEF IInv
<1>2. \A r \in Racers : rp[r] = "off"
    BY <1>1 DEF CallerInv
<1>3. ~returned /\ ret = None /\ \A r \in Racers : results[r] = None
    BY <1>1, <1>2 DEF CallerInv, ResultInv, TypeOK
<1>4. Parallel' = Parallel
    BY DEF Parallel
<1>5. ResultInv'
    BY <1>3, Disjoint, NoneAssumption DEF ResultInv
<1>6. CASE pc' = "returned"
    <2>1. UNCHANGED <<timer, rp, ret>>
        BY <1>6
    <2>2. CallerInv'
        BY <1>2, <1>6, <2>1 DEF CallerInv, Racers
    <2> QED
        BY <1>1, <1>5, <2>1, <2>2, SameRacers DEF IInv, RacerInv
<1>7. CASE pc' # "returned"
    <2>1. /\ pc' = IF Parallel THEN "select" ELSE "serial"
          /\ rp' = [rp EXCEPT !["primary"] = "check"] /\ UNCHANGED ret
        BY <1>7
    <2>2. rp'["primary"] = "check" /\ rp'["fallback"] = "off"
          /\ "primary" \in Racers /\ "fallback" \in Racers
        BY <1>1, <1>2, <2>1 DEF TypeOK, Racers
    <2>3. CallerInv'
        BY <1>3, <1>4, <2>1, <2>2 DEF CallerInv, Running, Racers
    <2>4. Frame("primary")
        BY <1>1, <2>1 DEF Frame, TypeOK
    <2>5. RacerInv("fallback")'
        BY <2>1, <2>2, <2>4, OthersKeep
    <2>6. AddrInv("primary") /\ SocketInv("primary") /\ rp["primary"] = "off"
        BY <1>2, <2>2 DEF IInv
    <2>7. RacerInv("primary")'
        BY <1>3, <2>1, <2>2, <2>6 DEF RacerInv, AddrInv, SocketInv, OutInv, Running, Trying,
           ErrorOf
    <2>8. \A r \in Racers : RacerInv(r)'
        BY <2>5, <2>7 DEF Racers
    <2> QED
        BY <1>1, <1>5, <2>3, <2>8 DEF IInv, RacerInv
<1> QED
    BY <1>6, <1>7

LEMMA StartFallbackKeeps ==
    ASSUME IInv, TypeOK', StartFallback PROVE IInv'
<1> USE DEF StartFallback, Goto, serialVars, sockVars, inputVars
<1>1. TypeOK /\ CallerInv /\ ResultInv /\ linked \subseteq open /\ poisoned \subseteq open
    BY DEF IInv
<1>2. rp["fallback"] = "off" /\ Parallel /\ Parallel' = Parallel
      /\ "primary" \in Racers /\ "fallback" \in Racers
    BY <1>1 DEF CallerInv, Parallel, Racers
<1>3. rp'["fallback"] = "check" /\ rp'["primary"] = rp["primary"]
    BY <1>1, <1>2 DEF TypeOK
<1>4. ret = None
    BY <1>1 DEF ResultInv
<1>5. CallerInv'
    BY <1>1, <1>2, <1>3 DEF CallerInv, Racers
<1>6. ResultInv'
    BY <1>1, <1>2, <1>3, <1>4, Disjoint, NoneAssumption DEF ResultInv, Racers, ErrorOf
<1>7. Frame("fallback")
    BY <1>1 DEF Frame, TypeOK
<1>8. RacerInv("primary")'
    BY <1>2, <1>7, OthersKeep
<1>9. AddrInv("fallback") /\ SocketInv("fallback")
    BY <1>2 DEF IInv
<1>10. RacerInv("fallback")'
    BY <1>2, <1>3, <1>4, <1>9 DEF RacerInv, AddrInv, SocketInv, OutInv, Running, Trying,
       ErrorOf, Parallel
<1>11. \A r \in Racers : RacerInv(r)'
    BY <1>8, <1>10 DEF Racers
<1> QED
    BY <1>1, <1>5, <1>6, <1>11 DEF IInv, RacerInv

(* A racer's result is taken: what was its socket is now the caller's, or  *)
(* closed.                                                                 *)
LEMMA EndStep ==
    ASSUME IInv, TypeOK', NEW r \in Racers, rp[r] = "result", End(r), Frame(r),
           UNCHANGED <<inputVars, ip>>, ret' = ret \/ ret = None,
           \A s \in open' : s.racer = r => s = ret'
    PROVE  \A q \in Racers : RacerInv(q)'
<1> USE DEF End, Goto, inputVars
<1>1. TypeOK /\ AddrInv(r) /\ SocketInv(r)
    BY DEF IInv
<1>2. rp'[r] = "end" /\ addr'[r] = 1 /\ firstErr'[r] = None /\ ip'[r] = "off"
    BY <1>1 DEF TypeOK, SocketInv
<1>3. RacerInv(r)'
    BY <1>1, <1>2 DEF RacerInv, AddrInv, SocketInv, OutInv, Running, Trying
<1> QED
    BY <1>3, OthersKeep

\* What a result is.
LEMMA ResultFacts ==
    ASSUME IInv, NEW r \in Racers, rp[r] = "result"
    PROVE  /\ \A s \in open : s.racer = r => s = out[r]
           /\ out[r] \in Sockets \/ out[r] \in Errors
           /\ out[r] \in Sockets => out[r].racer = r /\ Good(out[r])
           /\ out[r] \in Errors => ErrorOf(r, out[r]) /\ (out[r].at = 1 \/ out[r].why = "ctx")
<1>1. SocketInv(r) /\ OutInv(r)
    BY DEF IInv
<1> QED
    BY <1>1, Disjoint DEF SocketInv, OutInv, Trying, ErrorOf

LEMMA SerialReturnsKeeps ==
    ASSUME IInv, TypeOK', SerialReturns PROVE IInv'
<1> USE DEF SerialReturns, sockVars, inputVars
<1>1. TypeOK /\ CallerInv /\ ResultInv /\ linked \subseteq open /\ poisoned \subseteq open
    BY DEF IInv
<1>2. rp["fallback"] = "off" /\ ~Parallel /\ ret = None
      /\ "primary" \in Racers /\ "fallback" \in Racers
    BY <1>1 DEF CallerInv, ResultInv, Racers
<1>3. rp'["primary"] = "end" /\ rp'["fallback"] = "off"
    BY <1>1, <1>2 DEF End, Goto, TypeOK
<1>4. Frame("primary")
    BY <1>1 DEF Frame, End, Goto, TypeOK
<1>5. \A q \in Racers : RacerInv(q)'
    BY <1>2, <1>4, ResultFacts, EndStep
<1>6. CallerInv'
    BY <1>1, <1>3 DEF CallerInv, Racers
<1>7. \A q \in Racers : results[q] = None
    BY <1>1, <1>2 DEF ResultInv, Racers
<1>8. ResultInv'
    <2>1. ret' = out["primary"] /\ results' = results /\ open' = open /\ linked' = linked
          /\ poisoned' = poisoned /\ pc' = "returned"
        OBVIOUS
    <2>2. ret' \in Sockets => rp'[ret'.racer] = "end" /\ Good(ret)'
        BY <1>2, <1>3, <2>1, ResultFacts DEF Good
    <2>3. ret' \in Errors => ret'.of = "primary" /\ (ret'.at = 1 \/ ret'.why = "ctx")
        BY <1>2, <2>1, ResultFacts DEF ErrorOf
    <2>4. \A r \in Racers : ~Running(r)' /\ (addrs'[r] > 0 => rp'[r] = "end")
        BY <1>2, <1>3 DEF Running, Racers, Parallel
    <2> QED
        BY <1>7, <2>1, <2>2, <2>3, <2>4 DEF ResultInv
<1> QED
    BY <1>1, <1>5, <1>6, <1>8 DEF IInv, RacerInv

(* The call returns an error only when it has one from each racer.         *)
LEMMA ReceiveKeeps ==
    ASSUME IInv, TypeOK', NEW r \in Racers, Receive(r) PROVE IInv'
<1> USE DEF Receive, sockVars, inputVars
<1>1. TypeOK /\ CallerInv /\ ResultInv /\ linked \subseteq open /\ poisoned \subseteq open
    BY DEF IInv
<1>2. ret = None /\ Parallel /\ Parallel' = Parallel /\ ~returned /\ rp["primary"] # "off"
      /\ "primary" \in Racers /\ "fallback" \in Racers
    BY <1>1 DEF CallerInv, ResultInv, Racers, Parallel, TypeOK
<1>3. rp'[r] = "end" /\ \A q \in Racers \ {r} : rp'[q] = rp[q]
    BY <1>1 DEF End, Goto, TypeOK
<1>4. Frame(r)
    BY <1>1 DEF Frame, End, Goto, TypeOK
<1>5. \A s \in open : s.racer = r => s = out[r]
    BY ResultFacts
<1>6. CASE out[r] \in Sockets
    <2>1. ret' = out[r] /\ pc' = "cancel" /\ UNCHANGED <<results, timer>>
        BY <1>6
    <2>2. \A q \in Racers : RacerInv(q)'
        BY <1>2, <1>4, <1>5, <2>1, EndStep
    <2>3. CallerInv'
        BY <1>1, <1>2, <1>3, <2>1 DEF CallerInv
    <2>4. ResultInv'
        BY <1>1, <1>3, <1>6, <2>1, ResultFacts, Disjoint DEF ResultInv, Good, ErrorOf
    <2> QED
        BY <1>1, <2>2, <2>3, <2>4 DEF IInv, RacerInv
<1>7. CASE out[r] \in Errors
    <2>1. /\ out[r] \notin Sockets /\ out[r] # None /\ ErrorOf(r, out[r])
          /\ out[r].at = 1 \/ out[r].why = "ctx"
        BY <1>7, ResultFacts, Disjoint, NoneAssumption
    <2>2. results'[r] = out[r] /\ \A q \in Racers \ {r} : results'[q] = results[q]
        BY <1>1, <2>1 DEF TypeOK
    <2>3. \A q \in Racers : results'[q] # None =>
            /\ rp'[q] = "end" /\ ErrorOf(q, results'[q])
            /\ results'[q].at = 1 \/ results'[q].why = "ctx"
        BY <1>1, <1>3, <2>1, <2>2 DEF ResultInv
    <2>4. \A s \in open : s.racer # r
        BY <1>5, <2>1 DEF IInv, TypeOK
    <2>5. \A q \in Racers : RacerInv(q)'
        <3>1. ret' = ret \/ ret = None
            BY <1>2
        <3>2. \A s \in open' : s.racer = r => s = ret'
            BY <2>4
        <3> QED
            BY <1>4, <3>1, <3>2, EndStep
    <2>6. CASE \A q \in Racers : results'[q] # None
        <3>1. ret' = results'["primary"] /\ pc' = "cancel" /\ UNCHANGED timer
            BY <2>1, <2>6
        <3>2. ErrorOf("primary", ret') /\ (ret'.at = 1 \/ ret'.why = "ctx")
            BY <1>2, <2>3, <2>6, <3>1
        <3>3. \A q \in Racers : ~Running(q)' /\ rp'[q] = "end"
            BY <2>3, <2>6 DEF Running
        <3>4. CallerInv'
            BY <1>1, <1>2, <1>3, <3>1 DEF CallerInv
        <3>5. ResultInv'
            BY <2>3, <3>1, <3>2, <3>3, Disjoint DEF ResultInv, ErrorOf
        <3> QED
            BY <1>1, <2>5, <3>4, <3>5 DEF IInv, RacerInv
    <2>7. CASE ~\A q \in Racers : results'[q] # None
        <3>1. UNCHANGED <<ret, pc, timer>>
            BY <2>1, <2>7
        <3>2. CallerInv'
            BY <1>1, <1>2, <1>3, <2>1, <2>2, <3>1 DEF CallerInv
        <3>3. ResultInv'
            BY <1>2, <2>3, <3>1, Disjoint, NoneAssumption DEF ResultInv
        <3> QED
            BY <1>1, <2>5, <3>2, <3>3 DEF IInv, RacerInv
    <2> QED
        BY <2>6, <2>7
<1> QED
    BY <1>6, <1>7, ResultFacts

(* The socket of a loser is its own, never the one returned.               *)
LEMMA DiscardKeeps ==
    ASSUME IInv, TypeOK', NEW r \in Racers, Discard(r) PROVE IInv'
<1> USE DEF Discard, inputVars, callerVars, Close
<1>1. TypeOK /\ CallerInv /\ ResultInv /\ linked \subseteq open /\ poisoned \subseteq open
    BY DEF IInv
<1>2. pc = "returned"
    BY <1>1 DEF CallerInv
<1>3. rp'[r] = "end" /\ \A q \in Racers \ {r} : rp'[q] = rp[q]
    BY <1>1 DEF End, Goto, TypeOK
<1>4. \A s \in Sockets : s = out[r] => s.racer = r
    BY ResultFacts
<1>5. Frame(r)
    BY <1>1, <1>4 DEF Frame, End, Goto, TypeOK
<1>6. \A s \in open' : s.racer # r
    BY ResultFacts
<1>7. \A q \in Racers : RacerInv(q)'
    BY <1>5, <1>6, EndStep
<1>8. CallerInv'
    BY <1>1, <1>2, <1>3 DEF CallerInv, Racers
<1>9. ResultInv'
    <2>1. ret \in Sockets => ret.racer \in Racers \ {r} /\ ret # out[r]
        BY <1>1, <1>4 DEF ResultInv, Sockets
    <2>2. ret \notin Errors
        BY <1>1 DEF ResultInv, Running
    <2> QED
        BY <1>1, <1>2, <1>3, <2>1, <2>2 DEF ResultInv, Good, ErrorOf
<1> QED
    BY <1>1, <1>7, <1>8, <1>9 DEF IInv, RacerInv

\* The rest of the caller, and the timer.
LEMMA CallerKeeps ==
    ASSUME IInv, TypeOK', Cancel \/ Return \/ TimerFires PROVE IInv'
<1> USE DEF Cancel, Return, TimerFires, sockVars, inputVars
<1>1. TypeOK /\ CallerInv /\ ResultInv /\ linked \subseteq open /\ poisoned \subseteq open
    BY DEF IInv
<1>2. UNCHANGED <<inputVars, ret, results, rp, serialVars, out, ip, sockVars>>
    OBVIOUS
<1>3. \A r \in Racers : RacerInv(r)'
    BY <1>2, SameRacers
<1>4. CallerInv'
    BY <1>1, <1>2 DEF CallerInv, Parallel, Running
<1>5. ResultInv'
    BY <1>1, <1>2 DEF ResultInv, Good, Running, ErrorOf
<1> QED
    BY <1>1, <1>2, <1>3, <1>4, <1>5 DEF IInv, RacerInv

-----------------------------------------------------------------------------
(* Theorems.                                                               *)

LEMMA InitInv == Init => IInv
<1> SUFFICES ASSUME Init PROVE IInv
    OBVIOUS
<1>1. PICK p \in 1..MaxAddrs["primary"], f \in 0..MaxAddrs["fallback"] :
          addrs = [r \in Racers |-> IF r = "primary" THEN p ELSE f]
    BY DEF Init
<1>2. MaxAddrs["primary"] \in Nat /\ MaxAddrs["fallback"] \in Nat
    BY DEF Racers
<1>3. TypeOK
    <2>1. addrs \in [Racers -> Nat]
        BY <1>1, <1>2
    <2>2. derived \in BOOLEAN /\ returned \in BOOLEAN /\ ctxDone \in BOOLEAN /\ late \in BOOLEAN
        BY DEF Init
    <2>3. addr \in [Racers -> Nat \ {0}] /\ try \in [Racers -> 0..MaxRetries]
        BY DEF Init
    <2>4. /\ results \in [Racers -> Errors \union {None}]
          /\ firstErr \in [Racers -> Errors \union {None}]
          /\ out \in [Racers -> Sockets \union Errors \union {None}]
        BY DEF Init
    <2> QED
        BY <2>1, <2>2, <2>3, <2>4 DEF Init, TypeOK
<1>4. ASSUME NEW r \in Racers PROVE AddrInv(r) /\ SocketInv(r) /\ OutInv(r)
    <2>1. addrs[r] <= MaxAddrs[r] /\ (r = "primary" => addrs[r] > 0)
        BY <1>1, <1>2 DEF Racers
    <2> QED
        BY <2>1 DEF Init, AddrInv, SocketInv, OutInv, Running, Trying
<1>5. CallerInv /\ ResultInv
    BY Disjoint, NoneAssumption DEF Init, CallerInv, ResultInv, Racers
<1> QED
    BY <1>3, <1>4, <1>5 DEF Init, IInv

LEMMA Step == IInv /\ [Next]_vars => IInv'
<1> SUFFICES ASSUME IInv, [Next]_vars PROVE IInv'
    OBVIOUS
<1>1. TypeOK'
    BY TypeStep
<1>2. CASE ContextEnds \/ ClockPasses \/ CancelChannelCloses \/ WatcherEnds
    BY <1>1, <1>2, ContextStep
       DEF ContextEnds, ClockPasses, CancelChannelCloses, WatcherEnds
<1>3. CASE Resolve \/ SerialReturns \/ StartFallback \/ Cancel \/ Return \/ TimerFires
    BY <1>1, <1>3, ResolveKeeps, SerialReturnsKeeps, StartFallbackKeeps, CallerKeeps
<1>4. ASSUME NEW r \in Racers, Receive(r) \/ Discard(r) PROVE IInv'
    BY <1>1, <1>4, ReceiveKeeps, DiscardKeeps
<1>5. ASSUME NEW r \in Racers,
             \/ NextAddr(r) \/ OpenSocket(r) \/ Connect(r) \/ WaitTimesOut(r)
             \/ WaitReady(r) \/ Unwind(r) \/ Join(r) \/ Linked(r) \/ Failed(r)
      PROVE  IInv'
    BY <1>1, <1>5, NextAddrKeeps, OpenSocketKeeps, ConnectKeeps, WaitTimesOutKeeps,
       WaitReadyKeeps, UnwindKeeps, JoinKeeps, LinkedKeeps, FailedKeeps
<1>6. ASSUME NEW r \in Racers, Interrupt(r) \/ InterrupterQuits(r) PROVE IInv'
    BY <1>1, <1>6, InterruptKeeps, InterrupterQuitsKeeps
<1>7. ASSUME NEW r \in Racers, PartialEnds(r) PROVE IInv'
    BY <1>1, <1>7, ContextStep DEF PartialEnds
<1>8. CASE UNCHANGED vars
    BY <1>1, <1>8, ContextStep DEF vars
<1> QED
    BY <1>2, <1>3, <1>4, <1>5, <1>6, <1>7, <1>8
       DEF Next, Environment, Caller, Racer, Interrupter

(* The inductive invariant holds in every reachable state of dialing.      *)
THEOREM Invariant == Spec => []IInv
BY InitInv, Step, PTL DEF Spec

(* When a call has returned and its goroutines are gone, the socket it     *)
(* returned is the only one open: a racer has no socket that is neither    *)
(* its own nor the caller's.                                               *)
THEOREM NoLeak == Spec => []NoSocketLeaks
<1>1. IInv => NoSocketLeaks
    <2> SUFFICES ASSUME IInv, pc = "returned", RacersOver
                 PROVE  open = {ret} \intersect Sockets
        BY DEF NoSocketLeaks
    <2>1. open \subseteq Sockets /\ \A s \in Sockets : s.racer \in Racers
        BY DEF IInv, TypeOK, Sockets
    <2>2. \A s \in open : s = ret
        BY <2>1 DEF IInv, SocketInv, RacersOver, Trying
    <2>3. ret \in Sockets => ret \in open
        BY DEF IInv, ResultInv, Good
    <2> QED
        BY <2>1, <2>2, <2>3
<1> QED
    BY <1>1, Invariant, PTL

(* The connection a call returns is open, connected, and free of deadlines *)
(* an interrupter set.                                                     *)
THEOREM Usable == Spec => []ReturnedConnUsable
<1>1. IInv => ReturnedConnUsable
    BY DEF IInv, ResultInv, Good, ReturnedConnUsable
<1> QED
    BY <1>1, Invariant, PTL

(* An error the call returns is the first primary address's, or the        *)
(* context's, and nothing is left of the race.                             *)
THEOREM ErrorIsFirst == Spec => []ErrorIsPrimarys
<1>1. IInv => ErrorIsPrimarys
    <2> SUFFICES ASSUME IInv, ret \in Errors PROVE ErrorIsPrimarys
        BY DEF ErrorIsPrimarys
    <2>1. /\ ret.of = "primary" /\ (ret.at = 1 \/ ret.why = "ctx")
          /\ \A r \in Racers : rp[r] \in {"off", "end"} /\ (addrs[r] > 0 => rp[r] = "end")
        BY DEF IInv, ResultInv, Running
    <2>2. \A r \in Racers : ip[r] = "off"
        BY <2>1 DEF IInv, SocketInv
    <2>3. open = {}
        <3>1. open \subseteq Sockets /\ \A s \in Sockets : s.racer \in Racers
            BY DEF IInv, TypeOK, Sockets
        <3>2. \A s \in open : s = ret
            BY <2>1, <3>1 DEF IInv, SocketInv, Trying
        <3> QED
            BY <3>1, <3>2, Disjoint
    <2> QED
        BY <2>1, <2>2, <2>3 DEF ErrorIsPrimarys, RacersOver
<1> QED
    BY <1>1, Invariant, PTL

(* The types are right.                                                    *)
THEOREM TypeCorrect == Spec => []TypeOK
BY Invariant, PTL DEF IInv
=============================================================================
