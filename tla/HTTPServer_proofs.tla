------------------------- MODULE HTTPServer_proofs -------------------------
(***************************************************************************)
(* What TLAPS proves of HTTPServer, for every set of listeners,            *)
(* connections and callers.                                                *)
(***************************************************************************)
EXTENDS HTTPServer, TLAPS

-----------------------------------------------------------------------------
(* What each kind of process leaves alone.                                 *)

LEMMA ServeFrame ==
    ASSUME NEW l \in Listeners, ServeStep(l) \/ AcceptError(l)
    PROVE  UNCHANGED <<flagVars, mu, doneClosed, rwcOpen, callVars, late>>
  BY DEF ServeStep, TrackListener, CheckDone, TrackConn, StoreNew, GoServe,
         UntrackListener, CloseListener, AcceptError,
         flagVars, lockVars, serveVars, connVars, callVars

LEMMA ConnFrame ==
    ASSUME NEW c \in Conns, ConnStep(c) \/ ClientStep(c)
    PROVE  UNCHANGED <<flagVars, mu, doneClosed, listeners, lnOpen, serveVars, callVars>>
  BY DEF ConnStep, ClientStep, StoreActiveFailed, StoreActive, HandlerReturn,
         FinishRequest, StoreIdle, CheckKeepAlives, HijackUntrack, StoreHijacked,
         CloseConn, UntrackConn, StoreClosed, ReadBytes, ReadRequest, ReadFail,
         Peek, PeekFail, WriteHeader, HandlerPanic, Hijack, Age,
         flagVars, lockVars, serveVars, connVars, callVars

LEMMA CallFrame ==
    ASSUME NEW p \in Callers, CallStep(p) \/ ContextExpires(p)
    PROVE  UNCHANGED <<listeners, serveVars, connVars>> /\ (inShutdown => inShutdown')
  BY DEF CallStep, SetInShutdown, ShutdownListeners, ShutdownDone, CloseDone,
         CloseListeners, CloseReturn, SetKeepAlivesEnabled, SweepBegin, SweepClose,
         SweepEnd, CountListeners, PollTimer, CloseTracked, SweepVisit, ContextExpires,
         flagVars, lockVars, serveVars, connVars, callVars


-----------------------------------------------------------------------------
(* The invariant, conjunct by conjunct.                                    *)

\* The variables keep their types.
LEMMA TypeStep == IInv /\ [Next]_vars => TypeOK'
<1> SUFFICES ASSUME IInv, [Next]_vars PROVE TypeOK'
  OBVIOUS
<1> USE CallersAssumption DEF IInv, TypeOK, Callers, Sweepers, flagVars,
    lockVars, serveVars, connVars, callVars, HandInv, HandPc, ServePc, ConnPc,
    CallPc, States, closeListenersLocked
<1>1. ASSUME NEW l \in Listeners, TrackListener(l) PROVE TypeOK'
  BY <1>1 DEF TrackListener
<1>2. ASSUME NEW l \in Listeners, CheckDone(l) PROVE TypeOK'
  BY <1>2 DEF CheckDone
<1>3. ASSUME NEW l \in Listeners, TrackConn(l) PROVE TypeOK'
  BY <1>3 DEF TrackConn
<1>4. ASSUME NEW l \in Listeners, StoreNew(l) PROVE TypeOK'
  BY <1>4 DEF StoreNew
<1>5. ASSUME NEW l \in Listeners, GoServe(l) PROVE TypeOK'
  BY <1>5 DEF GoServe
<1>6. ASSUME NEW l \in Listeners, UntrackListener(l) PROVE TypeOK'
  BY <1>6 DEF UntrackListener
<1>7. ASSUME NEW l \in Listeners, CloseListener(l) PROVE TypeOK'
  BY <1>7 DEF CloseListener
<1>8. ASSUME NEW l \in Listeners, AcceptError(l) PROVE TypeOK'
  BY <1>8 DEF AcceptError
<1>9. ASSUME NEW l \in Listeners, NEW c \in Conns, Accept(l, c) PROVE TypeOK'
  BY <1>9 DEF Accept
<1>10. ASSUME NEW c \in Conns, StoreActiveFailed(c) PROVE TypeOK'
  BY <1>10 DEF StoreActiveFailed
<1>11. ASSUME NEW c \in Conns, StoreActive(c) PROVE TypeOK'
  BY <1>11 DEF StoreActive
<1>12. ASSUME NEW c \in Conns, HandlerReturn(c) PROVE TypeOK'
  BY <1>12 DEF HandlerReturn
<1>13. ASSUME NEW c \in Conns, FinishRequest(c) PROVE TypeOK'
  BY <1>13 DEF FinishRequest
<1>14. ASSUME NEW c \in Conns, StoreIdle(c) PROVE TypeOK'
  BY <1>14 DEF StoreIdle
<1>15. ASSUME NEW c \in Conns, CheckKeepAlives(c) PROVE TypeOK'
  BY <1>15 DEF CheckKeepAlives
<1>16. ASSUME NEW c \in Conns, HijackUntrack(c) PROVE TypeOK'
  BY <1>16 DEF HijackUntrack
<1>17. ASSUME NEW c \in Conns, StoreHijacked(c) PROVE TypeOK'
  BY <1>17 DEF StoreHijacked
<1>18. ASSUME NEW c \in Conns, CloseConn(c) PROVE TypeOK'
  BY <1>18 DEF CloseConn
<1>19. ASSUME NEW c \in Conns, UntrackConn(c) PROVE TypeOK'
  BY <1>19 DEF UntrackConn
<1>20. ASSUME NEW c \in Conns, StoreClosed(c) PROVE TypeOK'
  BY <1>20 DEF StoreClosed
<1>21. ASSUME NEW c \in Conns, ReadBytes(c) PROVE TypeOK'
  BY <1>21 DEF ReadBytes
<1>22. ASSUME NEW c \in Conns, ReadRequest(c) PROVE TypeOK'
  BY <1>22 DEF ReadRequest
<1>23. ASSUME NEW c \in Conns, ReadFail(c) PROVE TypeOK'
  BY <1>23 DEF ReadFail
<1>24. ASSUME NEW c \in Conns, Peek(c) PROVE TypeOK'
  BY <1>24 DEF Peek
<1>25. ASSUME NEW c \in Conns, PeekFail(c) PROVE TypeOK'
  BY <1>25 DEF PeekFail
<1>26. ASSUME NEW c \in Conns, WriteHeader(c) PROVE TypeOK'
  BY <1>26 DEF WriteHeader
<1>27. ASSUME NEW c \in Conns, HandlerPanic(c) PROVE TypeOK'
  BY <1>27 DEF HandlerPanic
<1>28. ASSUME NEW c \in Conns, Hijack(c) PROVE TypeOK'
  BY <1>28 DEF Hijack
<1>29. ASSUME NEW c \in Conns, Age(c) PROVE TypeOK'
  BY <1>29 DEF Age
<1>30. ASSUME NEW p \in Callers, SetInShutdown(p) PROVE TypeOK'
  BY <1>30 DEF SetInShutdown
<1>31. ASSUME NEW p \in Callers, ShutdownListeners(p) PROVE TypeOK'
  BY <1>31 DEF ShutdownListeners
<1>32. ASSUME NEW p \in Callers, ShutdownDone(p) PROVE TypeOK'
  BY <1>32 DEF ShutdownDone
<1>33. ASSUME NEW p \in Callers, CloseDone(p) PROVE TypeOK'
  BY <1>33 DEF CloseDone
<1>34. ASSUME NEW p \in Callers, CloseListeners(p) PROVE TypeOK'
  BY <1>34 DEF CloseListeners
<1>35. ASSUME NEW p \in Callers, CloseReturn(p) PROVE TypeOK'
  BY <1>35 DEF CloseReturn
<1>36. ASSUME NEW p \in Callers, SetKeepAlivesEnabled(p) PROVE TypeOK'
  <2>1. disableKeepAlives' \in BOOLEAN
    BY <1>36 DEF SetKeepAlivesEnabled
  <2>2. xp' \in [Callers -> CallPc]
    BY <1>36 DEF SetKeepAlivesEnabled
  <2> QED
    BY <1>36, <2>1, <2>2 DEF SetKeepAlivesEnabled
<1>37. ASSUME NEW p \in Callers, SweepBegin(p) PROVE TypeOK'
  BY <1>37 DEF SweepBegin
<1>38. ASSUME NEW p \in Callers, SweepClose(p) PROVE TypeOK'
  BY <1>38 DEF SweepClose
<1>39. ASSUME NEW p \in Callers, SweepEnd(p) PROVE TypeOK'
  BY <1>39 DEF SweepEnd
<1>40. ASSUME NEW p \in Callers, CountListeners(p) PROVE TypeOK'
  BY <1>40 DEF CountListeners
<1>41. ASSUME NEW p \in Callers, PollTimer(p) PROVE TypeOK'
  BY <1>41 DEF PollTimer
<1>42. ASSUME NEW p \in Callers, NEW c \in Conns, CloseTracked(p, c)
      PROVE  TypeOK'
  BY <1>42 DEF CloseTracked
<1>43. ASSUME NEW p \in Callers, NEW c \in Conns, SweepVisit(p, c)
      PROVE  TypeOK'
  <2>1. quiescent' \in BOOLEAN
    BY <1>43 DEF SweepVisit
  <2>2. victim' \in Conns \union {NoConn} /\ todo' \in SUBSET Conns
    BY <1>43 DEF SweepVisit
  <2> QED
    BY <1>43, <2>1, <2>2 DEF SweepVisit
<1>44. ASSUME NEW p \in Callers, ContextExpires(p) PROVE TypeOK'
  BY <1>44 DEF ContextExpires
<1>45. CASE UNCHANGED vars
  BY <1>45 DEF vars
<1> HIDE DEF IInv, TypeOK, Callers, Sweepers, flagVars, lockVars, serveVars,
    connVars, callVars, HandInv, HandPc, ServePc, ConnPc, CallPc, States,
    closeListenersLocked
<1> QED
  BY <1>1, <1>2, <1>3, <1>4, <1>5, <1>6, <1>7, <1>8, <1>9, <1>10, <1>11,
     <1>12, <1>13, <1>14, <1>15, <1>16, <1>17, <1>18, <1>19, <1>20, <1>21,
     <1>22, <1>23, <1>24, <1>25, <1>26, <1>27, <1>28, <1>29, <1>30, <1>31,
     <1>32, <1>33, <1>34, <1>35, <1>36, <1>37, <1>38, <1>39, <1>40, <1>41,
     <1>42, <1>43, <1>44, <1>45 DEF Next, ServeStep, ConnStep, ClientStep,
     CallStep, AllDone, Callers, Sweepers

\* srv.mu is held by the caller inside a critical section and by no other.
LEMMA MutexStep == IInv /\ [Next]_vars => MutexInv'
<1> SUFFICES ASSUME IInv, [Next]_vars PROVE MutexInv'
  OBVIOUS
<1> USE CallersAssumption DEF IInv, TypeOK, Callers, Sweepers, flagVars,
    lockVars, serveVars, connVars, callVars, MutexInv, LockedPc, CallPc
<1>1. ASSUME NEW l \in Listeners, ServeStep(l) \/ AcceptError(l)
      PROVE  MutexInv'
  BY <1>1, ServeFrame
<1>2. ASSUME NEW l \in Listeners, NEW c \in Conns, Accept(l, c) PROVE MutexInv'
  BY <1>2 DEF Accept
<1>3. ASSUME NEW c \in Conns, ConnStep(c) \/ ClientStep(c) PROVE MutexInv'
  BY <1>3, ConnFrame
<1>4. ASSUME NEW p \in Callers, SetInShutdown(p) PROVE MutexInv'
  BY <1>4 DEF SetInShutdown
<1>5. ASSUME NEW p \in Callers, ShutdownListeners(p) PROVE MutexInv'
  BY <1>5 DEF ShutdownListeners
<1>6. ASSUME NEW p \in Callers, ShutdownDone(p) PROVE MutexInv'
  BY <1>6 DEF ShutdownDone
<1>7. ASSUME NEW p \in Callers, CloseDone(p) PROVE MutexInv'
  BY <1>7 DEF CloseDone
<1>8. ASSUME NEW p \in Callers, CloseListeners(p) PROVE MutexInv'
  BY <1>8 DEF CloseListeners
<1>9. ASSUME NEW p \in Callers, CloseReturn(p) PROVE MutexInv'
  BY <1>9 DEF CloseReturn
<1>10. ASSUME NEW p \in Callers, SetKeepAlivesEnabled(p) PROVE MutexInv'
  BY <1>10 DEF SetKeepAlivesEnabled
<1>11. ASSUME NEW p \in Callers, SweepBegin(p) PROVE MutexInv'
  BY <1>11 DEF SweepBegin
<1>12. ASSUME NEW p \in Callers, SweepClose(p) PROVE MutexInv'
  BY <1>12 DEF SweepClose
<1>13. ASSUME NEW p \in Callers, SweepEnd(p) PROVE MutexInv'
  BY <1>13 DEF SweepEnd
<1>14. ASSUME NEW p \in Callers, CountListeners(p) PROVE MutexInv'
  BY <1>14 DEF CountListeners
<1>15. ASSUME NEW p \in Callers, PollTimer(p) PROVE MutexInv'
  BY <1>15 DEF PollTimer
<1>16. ASSUME NEW p \in Callers, NEW c \in Conns, CloseTracked(p, c)
      PROVE  MutexInv'
  BY <1>16 DEF CloseTracked
<1>17. ASSUME NEW p \in Callers, NEW c \in Conns, SweepVisit(p, c)
      PROVE  MutexInv'
  BY <1>17 DEF SweepVisit
<1>18. ASSUME NEW p \in Callers, ContextExpires(p) PROVE MutexInv'
  BY <1>18 DEF ContextExpires
<1>19. CASE UNCHANGED vars
  BY <1>19 DEF vars
<1> HIDE DEF IInv, TypeOK, Callers, Sweepers, flagVars, lockVars, serveVars,
    connVars, callVars, MutexInv, LockedPc, CallPc
<1> QED
  BY <1>1, <1>2, <1>3, <1>4, <1>5, <1>6, <1>7, <1>8, <1>9, <1>10, <1>11,
     <1>12, <1>13, <1>14, <1>15, <1>16, <1>17, <1>18, <1>19 DEF Next,
     ServeStep, ConnStep, ClientStep, CallStep, AllDone, Callers, Sweepers

\* inShutdown stays set.
LEMMA FlagStep == IInv /\ [Next]_vars => FlagInv'
<1> SUFFICES ASSUME IInv, [Next]_vars PROVE FlagInv'
  OBVIOUS
<1> USE CallersAssumption DEF IInv, TypeOK, Callers, Sweepers, flagVars,
    lockVars, serveVars, connVars, callVars, FlagInv
<1>1. ASSUME NEW l \in Listeners, ServeStep(l) \/ AcceptError(l) PROVE FlagInv'
  BY <1>1, ServeFrame
<1>2. ASSUME NEW l \in Listeners, NEW c \in Conns, Accept(l, c) PROVE FlagInv'
  BY <1>2 DEF Accept
<1>3. ASSUME NEW c \in Conns, ConnStep(c) \/ ClientStep(c) PROVE FlagInv'
  BY <1>3, ConnFrame
<1>4. ASSUME NEW p \in Callers, SetInShutdown(p) PROVE FlagInv'
  BY <1>4 DEF SetInShutdown
<1>5. ASSUME NEW p \in Callers, ShutdownListeners(p) PROVE FlagInv'
  BY <1>5 DEF ShutdownListeners
<1>6. ASSUME NEW p \in Callers, ShutdownDone(p) PROVE FlagInv'
  BY <1>6 DEF ShutdownDone
<1>7. ASSUME NEW p \in Callers, CloseDone(p) PROVE FlagInv'
  BY <1>7 DEF CloseDone
<1>8. ASSUME NEW p \in Callers, CloseListeners(p) PROVE FlagInv'
  BY <1>8 DEF CloseListeners
<1>9. ASSUME NEW p \in Callers, CloseReturn(p) PROVE FlagInv'
  BY <1>9 DEF CloseReturn
<1>10. ASSUME NEW p \in Callers, SetKeepAlivesEnabled(p) PROVE FlagInv'
  BY <1>10 DEF SetKeepAlivesEnabled
<1>11. ASSUME NEW p \in Callers, SweepBegin(p) PROVE FlagInv'
  BY <1>11 DEF SweepBegin
<1>12. ASSUME NEW p \in Callers, SweepClose(p) PROVE FlagInv'
  BY <1>12 DEF SweepClose
<1>13. ASSUME NEW p \in Callers, SweepEnd(p) PROVE FlagInv'
  BY <1>13 DEF SweepEnd
<1>14. ASSUME NEW p \in Callers, CountListeners(p) PROVE FlagInv'
  BY <1>14 DEF CountListeners
<1>15. ASSUME NEW p \in Callers, PollTimer(p) PROVE FlagInv'
  BY <1>15 DEF PollTimer
<1>16. ASSUME NEW p \in Callers, NEW c \in Conns, CloseTracked(p, c)
      PROVE  FlagInv'
  BY <1>16 DEF CloseTracked
<1>17. ASSUME NEW p \in Callers, NEW c \in Conns, SweepVisit(p, c)
      PROVE  FlagInv'
  BY <1>17 DEF SweepVisit
<1>18. ASSUME NEW p \in Callers, ContextExpires(p) PROVE FlagInv'
  BY <1>18 DEF ContextExpires
<1>19. CASE UNCHANGED vars
  BY <1>19 DEF vars
<1> HIDE DEF IInv, TypeOK, Callers, Sweepers, flagVars, lockVars, serveVars,
    connVars, callVars, FlagInv
<1> QED
  BY <1>1, <1>2, <1>3, <1>4, <1>5, <1>6, <1>7, <1>8, <1>9, <1>10, <1>11,
     <1>12, <1>13, <1>14, <1>15, <1>16, <1>17, <1>18, <1>19 DEF Next,
     ServeStep, ConnStep, ClientStep, CallStep, AllDone, Callers, Sweepers

\* srv.listeners holds the Serve loops that run.
LEMMA ServeInvStep == IInv /\ [Next]_vars => ServeInv'
<1> SUFFICES ASSUME IInv, [Next]_vars PROVE ServeInv'
  OBVIOUS
<1> USE CallersAssumption DEF IInv, TypeOK, Callers, Sweepers, flagVars,
    lockVars, serveVars, connVars, callVars, ServeInv, ServeReportsShutdown,
    HandPc, MutexInv, LockedPc, FlagInv, closeListenersLocked
<1>1. ASSUME NEW l \in Listeners, TrackListener(l) PROVE ServeInv'
  BY <1>1 DEF TrackListener
<1>2. ASSUME NEW l \in Listeners, CheckDone(l) PROVE ServeInv'
  BY <1>2 DEF CheckDone
<1>3. ASSUME NEW l \in Listeners, TrackConn(l) PROVE ServeInv'
  BY <1>3 DEF TrackConn
<1>4. ASSUME NEW l \in Listeners, StoreNew(l) PROVE ServeInv'
  BY <1>4 DEF StoreNew
<1>5. ASSUME NEW l \in Listeners, GoServe(l) PROVE ServeInv'
  BY <1>5 DEF GoServe
<1>6. ASSUME NEW l \in Listeners, UntrackListener(l) PROVE ServeInv'
  BY <1>6 DEF UntrackListener
<1>7. ASSUME NEW l \in Listeners, CloseListener(l) PROVE ServeInv'
  BY <1>7 DEF CloseListener
<1>8. ASSUME NEW l \in Listeners, AcceptError(l) PROVE ServeInv'
  BY <1>8 DEF AcceptError
<1>9. ASSUME NEW l \in Listeners, NEW c \in Conns, Accept(l, c) PROVE ServeInv'
  BY <1>9 DEF Accept
<1>10. ASSUME NEW c \in Conns, ConnStep(c) \/ ClientStep(c) PROVE ServeInv'
  BY <1>10, ConnFrame
<1>11. ASSUME NEW p \in Callers, SetInShutdown(p) PROVE ServeInv'
  BY <1>11 DEF SetInShutdown
<1>12. ASSUME NEW p \in Callers, ShutdownListeners(p) PROVE ServeInv'
  BY <1>12 DEF ShutdownListeners
<1>13. ASSUME NEW p \in Callers, ShutdownDone(p) PROVE ServeInv'
  BY <1>13 DEF ShutdownDone
<1>14. ASSUME NEW p \in Callers, CloseDone(p) PROVE ServeInv'
  BY <1>14 DEF CloseDone
<1>15. ASSUME NEW p \in Callers, CloseListeners(p) PROVE ServeInv'
  BY <1>15 DEF CloseListeners
<1>16. ASSUME NEW p \in Callers, CloseReturn(p) PROVE ServeInv'
  BY <1>16 DEF CloseReturn
<1>17. ASSUME NEW p \in Callers, SetKeepAlivesEnabled(p) PROVE ServeInv'
  BY <1>17 DEF SetKeepAlivesEnabled
<1>18. ASSUME NEW p \in Callers, SweepBegin(p) PROVE ServeInv'
  BY <1>18 DEF SweepBegin
<1>19. ASSUME NEW p \in Callers, SweepClose(p) PROVE ServeInv'
  BY <1>19 DEF SweepClose
<1>20. ASSUME NEW p \in Callers, SweepEnd(p) PROVE ServeInv'
  BY <1>20 DEF SweepEnd
<1>21. ASSUME NEW p \in Callers, CountListeners(p) PROVE ServeInv'
  BY <1>21 DEF CountListeners
<1>22. ASSUME NEW p \in Callers, PollTimer(p) PROVE ServeInv'
  BY <1>22 DEF PollTimer
<1>23. ASSUME NEW p \in Callers, NEW c \in Conns, CloseTracked(p, c)
      PROVE  ServeInv'
  BY <1>23 DEF CloseTracked
<1>24. ASSUME NEW p \in Callers, NEW c \in Conns, SweepVisit(p, c)
      PROVE  ServeInv'
  BY <1>24 DEF SweepVisit
<1>25. ASSUME NEW p \in Callers, ContextExpires(p) PROVE ServeInv'
  BY <1>25 DEF ContextExpires
<1>26. CASE UNCHANGED vars
  BY <1>26 DEF vars
<1> HIDE DEF IInv, TypeOK, Callers, Sweepers, flagVars, lockVars, serveVars,
    connVars, callVars, ServeInv, ServeReportsShutdown, HandPc, MutexInv,
    LockedPc, FlagInv, closeListenersLocked
<1> QED
  BY <1>1, <1>2, <1>3, <1>4, <1>5, <1>6, <1>7, <1>8, <1>9, <1>10, <1>11,
     <1>12, <1>13, <1>14, <1>15, <1>16, <1>17, <1>18, <1>19, <1>20, <1>21,
     <1>22, <1>23, <1>24, <1>25, <1>26 DEF Next, ServeStep, ConnStep,
     ClientStep, CallStep, AllDone, Callers, Sweepers

\* No open listener is registered behind a Shutdown or a Close.
LEMMA ListenersStep == IInv /\ [Next]_vars => ListenersClosed'
<1> SUFFICES ASSUME IInv, [Next]_vars PROVE ListenersClosed'
  OBVIOUS
<1> USE CallersAssumption DEF IInv, TypeOK, Callers, Sweepers, flagVars,
    lockVars, serveVars, connVars, callVars, ListenersClosed,
    ListenersVisited, FlagInv, closeListenersLocked
<1>1. ASSUME NEW l \in Listeners, TrackListener(l) PROVE ListenersClosed'
  BY <1>1 DEF TrackListener
<1>2. ASSUME NEW l \in Listeners, CheckDone(l) PROVE ListenersClosed'
  BY <1>2 DEF CheckDone
<1>3. ASSUME NEW l \in Listeners, TrackConn(l) PROVE ListenersClosed'
  BY <1>3 DEF TrackConn
<1>4. ASSUME NEW l \in Listeners, StoreNew(l) PROVE ListenersClosed'
  BY <1>4 DEF StoreNew
<1>5. ASSUME NEW l \in Listeners, GoServe(l) PROVE ListenersClosed'
  BY <1>5 DEF GoServe
<1>6. ASSUME NEW l \in Listeners, UntrackListener(l) PROVE ListenersClosed'
  BY <1>6 DEF UntrackListener
<1>7. ASSUME NEW l \in Listeners, CloseListener(l) PROVE ListenersClosed'
  BY <1>7 DEF CloseListener
<1>8. ASSUME NEW l \in Listeners, AcceptError(l) PROVE ListenersClosed'
  BY <1>8 DEF AcceptError
<1>9. ASSUME NEW l \in Listeners, NEW c \in Conns, Accept(l, c)
      PROVE  ListenersClosed'
  BY <1>9 DEF Accept
<1>10. ASSUME NEW c \in Conns, ConnStep(c) \/ ClientStep(c)
      PROVE  ListenersClosed'
  BY <1>10, ConnFrame
<1>11. ASSUME NEW p \in Callers, SetInShutdown(p) PROVE ListenersClosed'
  BY <1>11 DEF SetInShutdown
<1>12. ASSUME NEW p \in Callers, ShutdownListeners(p) PROVE ListenersClosed'
  BY <1>12 DEF ShutdownListeners
<1>13. ASSUME NEW p \in Callers, ShutdownDone(p) PROVE ListenersClosed'
  BY <1>13 DEF ShutdownDone
<1>14. ASSUME NEW p \in Callers, CloseDone(p) PROVE ListenersClosed'
  BY <1>14 DEF CloseDone
<1>15. ASSUME NEW p \in Callers, CloseListeners(p) PROVE ListenersClosed'
  BY <1>15 DEF CloseListeners
<1>16. ASSUME NEW p \in Callers, CloseReturn(p) PROVE ListenersClosed'
  BY <1>16 DEF CloseReturn
<1>17. ASSUME NEW p \in Callers, SetKeepAlivesEnabled(p) PROVE ListenersClosed'
  BY <1>17 DEF SetKeepAlivesEnabled
<1>18. ASSUME NEW p \in Callers, SweepBegin(p) PROVE ListenersClosed'
  BY <1>18 DEF SweepBegin
<1>19. ASSUME NEW p \in Callers, SweepClose(p) PROVE ListenersClosed'
  BY <1>19 DEF SweepClose
<1>20. ASSUME NEW p \in Callers, SweepEnd(p) PROVE ListenersClosed'
  BY <1>20 DEF SweepEnd
<1>21. ASSUME NEW p \in Callers, CountListeners(p) PROVE ListenersClosed'
  BY <1>21 DEF CountListeners
<1>22. ASSUME NEW p \in Callers, PollTimer(p) PROVE ListenersClosed'
  BY <1>22 DEF PollTimer
<1>23. ASSUME NEW p \in Callers, NEW c \in Conns, CloseTracked(p, c)
      PROVE  ListenersClosed'
  BY <1>23 DEF CloseTracked
<1>24. ASSUME NEW p \in Callers, NEW c \in Conns, SweepVisit(p, c)
      PROVE  ListenersClosed'
  BY <1>24 DEF SweepVisit
<1>25. ASSUME NEW p \in Callers, ContextExpires(p) PROVE ListenersClosed'
  BY <1>25 DEF ContextExpires
<1>26. CASE UNCHANGED vars
  BY <1>26 DEF vars
<1> HIDE DEF IInv, TypeOK, Callers, Sweepers, flagVars, lockVars, serveVars,
    connVars, callVars, ListenersClosed, ListenersVisited, FlagInv,
    closeListenersLocked
<1> QED
  BY <1>1, <1>2, <1>3, <1>4, <1>5, <1>6, <1>7, <1>8, <1>9, <1>10, <1>11,
     <1>12, <1>13, <1>14, <1>15, <1>16, <1>17, <1>18, <1>19, <1>20, <1>21,
     <1>22, <1>23, <1>24, <1>25, <1>26 DEF Next, ServeStep, ConnStep,
     ClientStep, CallStep, AllDone, Callers, Sweepers

\* Each accepted connection is in the hands of one Serve.
LEMMA HandStep == IInv /\ [Next]_vars => HandInv'
<1> SUFFICES ASSUME IInv, [Next]_vars PROVE HandInv'
  OBVIOUS
<1> USE CallersAssumption DEF IInv, TypeOK, Callers, Sweepers, flagVars,
    lockVars, serveVars, connVars, callVars, HandInv, HandPc
<1>1. ASSUME NEW l \in Listeners, TrackListener(l) PROVE HandInv'
  BY <1>1 DEF TrackListener
<1>2. ASSUME NEW l \in Listeners, CheckDone(l) PROVE HandInv'
  BY <1>2 DEF CheckDone
<1>3. ASSUME NEW l \in Listeners, TrackConn(l) PROVE HandInv'
  BY <1>3 DEF TrackConn
<1>4. ASSUME NEW l \in Listeners, StoreNew(l) PROVE HandInv'
  BY <1>4 DEF StoreNew
<1>5. ASSUME NEW l \in Listeners, GoServe(l) PROVE HandInv'
  BY <1>5 DEF GoServe
<1>6. ASSUME NEW l \in Listeners, UntrackListener(l) PROVE HandInv'
  BY <1>6 DEF UntrackListener
<1>7. ASSUME NEW l \in Listeners, CloseListener(l) PROVE HandInv'
  BY <1>7 DEF CloseListener
<1>8. ASSUME NEW l \in Listeners, AcceptError(l) PROVE HandInv'
  BY <1>8 DEF AcceptError
<1>9. ASSUME NEW l \in Listeners, NEW c \in Conns, Accept(l, c) PROVE HandInv'
  BY <1>9 DEF Accept
<1>10. ASSUME NEW c \in Conns, StoreActiveFailed(c) PROVE HandInv'
  BY <1>10 DEF StoreActiveFailed
<1>11. ASSUME NEW c \in Conns, StoreActive(c) PROVE HandInv'
  BY <1>11 DEF StoreActive
<1>12. ASSUME NEW c \in Conns, HandlerReturn(c) PROVE HandInv'
  BY <1>12 DEF HandlerReturn
<1>13. ASSUME NEW c \in Conns, FinishRequest(c) PROVE HandInv'
  BY <1>13 DEF FinishRequest
<1>14. ASSUME NEW c \in Conns, StoreIdle(c) PROVE HandInv'
  BY <1>14 DEF StoreIdle
<1>15. ASSUME NEW c \in Conns, CheckKeepAlives(c) PROVE HandInv'
  BY <1>15 DEF CheckKeepAlives
<1>16. ASSUME NEW c \in Conns, HijackUntrack(c) PROVE HandInv'
  BY <1>16 DEF HijackUntrack
<1>17. ASSUME NEW c \in Conns, StoreHijacked(c) PROVE HandInv'
  BY <1>17 DEF StoreHijacked
<1>18. ASSUME NEW c \in Conns, CloseConn(c) PROVE HandInv'
  BY <1>18 DEF CloseConn
<1>19. ASSUME NEW c \in Conns, UntrackConn(c) PROVE HandInv'
  BY <1>19 DEF UntrackConn
<1>20. ASSUME NEW c \in Conns, StoreClosed(c) PROVE HandInv'
  BY <1>20 DEF StoreClosed
<1>21. ASSUME NEW c \in Conns, ReadBytes(c) PROVE HandInv'
  BY <1>21 DEF ReadBytes
<1>22. ASSUME NEW c \in Conns, ReadRequest(c) PROVE HandInv'
  BY <1>22 DEF ReadRequest
<1>23. ASSUME NEW c \in Conns, ReadFail(c) PROVE HandInv'
  BY <1>23 DEF ReadFail
<1>24. ASSUME NEW c \in Conns, Peek(c) PROVE HandInv'
  BY <1>24 DEF Peek
<1>25. ASSUME NEW c \in Conns, PeekFail(c) PROVE HandInv'
  BY <1>25 DEF PeekFail
<1>26. ASSUME NEW c \in Conns, WriteHeader(c) PROVE HandInv'
  BY <1>26 DEF WriteHeader
<1>27. ASSUME NEW c \in Conns, HandlerPanic(c) PROVE HandInv'
  BY <1>27 DEF HandlerPanic
<1>28. ASSUME NEW c \in Conns, Hijack(c) PROVE HandInv'
  BY <1>28 DEF Hijack
<1>29. ASSUME NEW c \in Conns, Age(c) PROVE HandInv'
  BY <1>29 DEF Age
<1>30. ASSUME NEW p \in Callers, SetInShutdown(p) PROVE HandInv'
  BY <1>30 DEF SetInShutdown
<1>31. ASSUME NEW p \in Callers, ShutdownListeners(p) PROVE HandInv'
  BY <1>31 DEF ShutdownListeners
<1>32. ASSUME NEW p \in Callers, ShutdownDone(p) PROVE HandInv'
  BY <1>32 DEF ShutdownDone
<1>33. ASSUME NEW p \in Callers, CloseDone(p) PROVE HandInv'
  BY <1>33 DEF CloseDone
<1>34. ASSUME NEW p \in Callers, CloseListeners(p) PROVE HandInv'
  BY <1>34 DEF CloseListeners
<1>35. ASSUME NEW p \in Callers, CloseReturn(p) PROVE HandInv'
  BY <1>35 DEF CloseReturn
<1>36. ASSUME NEW p \in Callers, SetKeepAlivesEnabled(p) PROVE HandInv'
  BY <1>36 DEF SetKeepAlivesEnabled
<1>37. ASSUME NEW p \in Callers, SweepBegin(p) PROVE HandInv'
  BY <1>37 DEF SweepBegin
<1>38. ASSUME NEW p \in Callers, SweepClose(p) PROVE HandInv'
  BY <1>38 DEF SweepClose
<1>39. ASSUME NEW p \in Callers, SweepEnd(p) PROVE HandInv'
  BY <1>39 DEF SweepEnd
<1>40. ASSUME NEW p \in Callers, CountListeners(p) PROVE HandInv'
  BY <1>40 DEF CountListeners
<1>41. ASSUME NEW p \in Callers, PollTimer(p) PROVE HandInv'
  BY <1>41 DEF PollTimer
<1>42. ASSUME NEW p \in Callers, NEW c \in Conns, CloseTracked(p, c)
      PROVE  HandInv'
  BY <1>42 DEF CloseTracked
<1>43. ASSUME NEW p \in Callers, NEW c \in Conns, SweepVisit(p, c)
      PROVE  HandInv'
  BY <1>43 DEF SweepVisit
<1>44. ASSUME NEW p \in Callers, ContextExpires(p) PROVE HandInv'
  BY <1>44 DEF ContextExpires
<1>45. CASE UNCHANGED vars
  BY <1>45 DEF vars
<1> HIDE DEF IInv, TypeOK, Callers, Sweepers, flagVars, lockVars, serveVars,
    connVars, callVars, HandInv, HandPc
<1> QED
  BY <1>1, <1>2, <1>3, <1>4, <1>5, <1>6, <1>7, <1>8, <1>9, <1>10, <1>11,
     <1>12, <1>13, <1>14, <1>15, <1>16, <1>17, <1>18, <1>19, <1>20, <1>21,
     <1>22, <1>23, <1>24, <1>25, <1>26, <1>27, <1>28, <1>29, <1>30, <1>31,
     <1>32, <1>33, <1>34, <1>35, <1>36, <1>37, <1>38, <1>39, <1>40, <1>41,
     <1>42, <1>43, <1>44, <1>45 DEF Next, ServeStep, ConnStep, ClientStep,
     CallStep, AllDone, Callers, Sweepers

\* srv.activeConn holds the connections that are served.
LEMMA TrackStep == IInv /\ [Next]_vars => TrackInv'
<1> SUFFICES ASSUME IInv, [Next]_vars PROVE TrackInv'
  OBVIOUS
<1> USE CallersAssumption DEF IInv, TypeOK, Callers, Sweepers, flagVars,
    lockVars, serveVars, connVars, callVars, TrackInv, NoLeakedConn, ServedPc,
    HandInv, HandPc, MutexInv, LockedPc, Sweepable
<1>1. ASSUME NEW l \in Listeners, TrackListener(l) PROVE TrackInv'
  BY <1>1 DEF TrackListener
<1>2. ASSUME NEW l \in Listeners, CheckDone(l) PROVE TrackInv'
  BY <1>2 DEF CheckDone
<1>3. ASSUME NEW l \in Listeners, TrackConn(l) PROVE TrackInv'
  BY <1>3 DEF TrackConn
<1>4. ASSUME NEW l \in Listeners, StoreNew(l) PROVE TrackInv'
  BY <1>4 DEF StoreNew
<1>5. ASSUME NEW l \in Listeners, GoServe(l) PROVE TrackInv'
  BY <1>5 DEF GoServe
<1>6. ASSUME NEW l \in Listeners, UntrackListener(l) PROVE TrackInv'
  BY <1>6 DEF UntrackListener
<1>7. ASSUME NEW l \in Listeners, CloseListener(l) PROVE TrackInv'
  BY <1>7 DEF CloseListener
<1>8. ASSUME NEW l \in Listeners, AcceptError(l) PROVE TrackInv'
  BY <1>8 DEF AcceptError
<1>9. ASSUME NEW l \in Listeners, NEW c \in Conns, Accept(l, c) PROVE TrackInv'
  BY <1>9 DEF Accept
<1>10. ASSUME NEW c \in Conns, StoreActiveFailed(c) PROVE TrackInv'
  BY <1>10 DEF StoreActiveFailed
<1>11. ASSUME NEW c \in Conns, StoreActive(c) PROVE TrackInv'
  BY <1>11 DEF StoreActive
<1>12. ASSUME NEW c \in Conns, HandlerReturn(c) PROVE TrackInv'
  BY <1>12 DEF HandlerReturn
<1>13. ASSUME NEW c \in Conns, FinishRequest(c) PROVE TrackInv'
  BY <1>13 DEF FinishRequest
<1>14. ASSUME NEW c \in Conns, StoreIdle(c) PROVE TrackInv'
  BY <1>14 DEF StoreIdle
<1>15. ASSUME NEW c \in Conns, CheckKeepAlives(c) PROVE TrackInv'
  BY <1>15 DEF CheckKeepAlives
<1>16. ASSUME NEW c \in Conns, HijackUntrack(c) PROVE TrackInv'
  BY <1>16 DEF HijackUntrack
<1>17. ASSUME NEW c \in Conns, StoreHijacked(c) PROVE TrackInv'
  BY <1>17 DEF StoreHijacked
<1>18. ASSUME NEW c \in Conns, CloseConn(c) PROVE TrackInv'
  BY <1>18 DEF CloseConn
<1>19. ASSUME NEW c \in Conns, UntrackConn(c) PROVE TrackInv'
  BY <1>19 DEF UntrackConn
<1>20. ASSUME NEW c \in Conns, StoreClosed(c) PROVE TrackInv'
  BY <1>20 DEF StoreClosed
<1>21. ASSUME NEW c \in Conns, ReadBytes(c) PROVE TrackInv'
  BY <1>21 DEF ReadBytes
<1>22. ASSUME NEW c \in Conns, ReadRequest(c) PROVE TrackInv'
  BY <1>22 DEF ReadRequest
<1>23. ASSUME NEW c \in Conns, ReadFail(c) PROVE TrackInv'
  BY <1>23 DEF ReadFail
<1>24. ASSUME NEW c \in Conns, Peek(c) PROVE TrackInv'
  BY <1>24 DEF Peek
<1>25. ASSUME NEW c \in Conns, PeekFail(c) PROVE TrackInv'
  BY <1>25 DEF PeekFail
<1>26. ASSUME NEW c \in Conns, WriteHeader(c) PROVE TrackInv'
  BY <1>26 DEF WriteHeader
<1>27. ASSUME NEW c \in Conns, HandlerPanic(c) PROVE TrackInv'
  BY <1>27 DEF HandlerPanic
<1>28. ASSUME NEW c \in Conns, Hijack(c) PROVE TrackInv'
  BY <1>28 DEF Hijack
<1>29. ASSUME NEW c \in Conns, Age(c) PROVE TrackInv'
  BY <1>29 DEF Age
<1>30. ASSUME NEW p \in Callers, SetInShutdown(p) PROVE TrackInv'
  BY <1>30 DEF SetInShutdown
<1>31. ASSUME NEW p \in Callers, ShutdownListeners(p) PROVE TrackInv'
  BY <1>31 DEF ShutdownListeners
<1>32. ASSUME NEW p \in Callers, ShutdownDone(p) PROVE TrackInv'
  BY <1>32 DEF ShutdownDone
<1>33. ASSUME NEW p \in Callers, CloseDone(p) PROVE TrackInv'
  BY <1>33 DEF CloseDone
<1>34. ASSUME NEW p \in Callers, CloseListeners(p) PROVE TrackInv'
  BY <1>34 DEF CloseListeners
<1>35. ASSUME NEW p \in Callers, CloseReturn(p) PROVE TrackInv'
  BY <1>35 DEF CloseReturn
<1>36. ASSUME NEW p \in Callers, SetKeepAlivesEnabled(p) PROVE TrackInv'
  BY <1>36 DEF SetKeepAlivesEnabled
<1>37. ASSUME NEW p \in Callers, SweepBegin(p) PROVE TrackInv'
  BY <1>37 DEF SweepBegin
<1>38. ASSUME NEW p \in Callers, SweepClose(p) PROVE TrackInv'
  BY <1>38 DEF SweepClose
<1>39. ASSUME NEW p \in Callers, SweepEnd(p) PROVE TrackInv'
  BY <1>39 DEF SweepEnd
<1>40. ASSUME NEW p \in Callers, CountListeners(p) PROVE TrackInv'
  BY <1>40 DEF CountListeners
<1>41. ASSUME NEW p \in Callers, PollTimer(p) PROVE TrackInv'
  BY <1>41 DEF PollTimer
<1>42. ASSUME NEW p \in Callers, NEW c \in Conns, CloseTracked(p, c)
      PROVE  TrackInv'
  BY <1>42 DEF CloseTracked
<1>43. ASSUME NEW p \in Callers, NEW c \in Conns, SweepVisit(p, c)
      PROVE  TrackInv'
  BY <1>43 DEF SweepVisit
<1>44. ASSUME NEW p \in Callers, ContextExpires(p) PROVE TrackInv'
  BY <1>44 DEF ContextExpires
<1>45. CASE UNCHANGED vars
  BY <1>45 DEF vars
<1> HIDE DEF IInv, TypeOK, Callers, Sweepers, flagVars, lockVars, serveVars,
    connVars, callVars, TrackInv, NoLeakedConn, ServedPc, HandInv, HandPc,
    MutexInv, LockedPc, Sweepable
<1> QED
  BY <1>1, <1>2, <1>3, <1>4, <1>5, <1>6, <1>7, <1>8, <1>9, <1>10, <1>11,
     <1>12, <1>13, <1>14, <1>15, <1>16, <1>17, <1>18, <1>19, <1>20, <1>21,
     <1>22, <1>23, <1>24, <1>25, <1>26, <1>27, <1>28, <1>29, <1>30, <1>31,
     <1>32, <1>33, <1>34, <1>35, <1>36, <1>37, <1>38, <1>39, <1>40, <1>41,
     <1>42, <1>43, <1>44, <1>45 DEF Next, ServeStep, ConnStep, ClientStep,
     CallStep, AllDone, Callers, Sweepers

\* A connection serves at most one late request.
LEMMA LateStep == IInv /\ [Next]_vars => LateInv'
<1> SUFFICES ASSUME IInv, [Next]_vars PROVE LateInv'
  OBVIOUS
<1> USE CallersAssumption DEF IInv, TypeOK, Callers, Sweepers, flagVars,
    lockVars, serveVars, connVars, callVars, LateInv, HandInv, HandPc,
    doKeepAlives
<1>1. ASSUME NEW l \in Listeners, TrackListener(l) PROVE LateInv'
  BY <1>1 DEF TrackListener
<1>2. ASSUME NEW l \in Listeners, CheckDone(l) PROVE LateInv'
  BY <1>2 DEF CheckDone
<1>3. ASSUME NEW l \in Listeners, TrackConn(l) PROVE LateInv'
  BY <1>3 DEF TrackConn
<1>4. ASSUME NEW l \in Listeners, StoreNew(l) PROVE LateInv'
  BY <1>4 DEF StoreNew
<1>5. ASSUME NEW l \in Listeners, GoServe(l) PROVE LateInv'
  BY <1>5 DEF GoServe
<1>6. ASSUME NEW l \in Listeners, UntrackListener(l) PROVE LateInv'
  BY <1>6 DEF UntrackListener
<1>7. ASSUME NEW l \in Listeners, CloseListener(l) PROVE LateInv'
  BY <1>7 DEF CloseListener
<1>8. ASSUME NEW l \in Listeners, AcceptError(l) PROVE LateInv'
  BY <1>8 DEF AcceptError
<1>9. ASSUME NEW l \in Listeners, NEW c \in Conns, Accept(l, c) PROVE LateInv'
  BY <1>9 DEF Accept
<1>10. ASSUME NEW c \in Conns, StoreActiveFailed(c) PROVE LateInv'
  BY <1>10 DEF StoreActiveFailed
<1>11. ASSUME NEW c \in Conns, StoreActive(c) PROVE LateInv'
  BY <1>11 DEF StoreActive
<1>12. ASSUME NEW c \in Conns, HandlerReturn(c) PROVE LateInv'
  BY <1>12 DEF HandlerReturn
<1>13. ASSUME NEW c \in Conns, FinishRequest(c) PROVE LateInv'
  BY <1>13 DEF FinishRequest
<1>14. ASSUME NEW c \in Conns, StoreIdle(c) PROVE LateInv'
  BY <1>14 DEF StoreIdle
<1>15. ASSUME NEW c \in Conns, CheckKeepAlives(c) PROVE LateInv'
  BY <1>15 DEF CheckKeepAlives
<1>16. ASSUME NEW c \in Conns, HijackUntrack(c) PROVE LateInv'
  BY <1>16 DEF HijackUntrack
<1>17. ASSUME NEW c \in Conns, StoreHijacked(c) PROVE LateInv'
  BY <1>17 DEF StoreHijacked
<1>18. ASSUME NEW c \in Conns, CloseConn(c) PROVE LateInv'
  BY <1>18 DEF CloseConn
<1>19. ASSUME NEW c \in Conns, UntrackConn(c) PROVE LateInv'
  BY <1>19 DEF UntrackConn
<1>20. ASSUME NEW c \in Conns, StoreClosed(c) PROVE LateInv'
  BY <1>20 DEF StoreClosed
<1>21. ASSUME NEW c \in Conns, ReadBytes(c) PROVE LateInv'
  BY <1>21 DEF ReadBytes
<1>22. ASSUME NEW c \in Conns, ReadRequest(c) PROVE LateInv'
  BY <1>22 DEF ReadRequest
<1>23. ASSUME NEW c \in Conns, ReadFail(c) PROVE LateInv'
  BY <1>23 DEF ReadFail
<1>24. ASSUME NEW c \in Conns, Peek(c) PROVE LateInv'
  BY <1>24 DEF Peek
<1>25. ASSUME NEW c \in Conns, PeekFail(c) PROVE LateInv'
  BY <1>25 DEF PeekFail
<1>26. ASSUME NEW c \in Conns, WriteHeader(c) PROVE LateInv'
  BY <1>26 DEF WriteHeader
<1>27. ASSUME NEW c \in Conns, HandlerPanic(c) PROVE LateInv'
  BY <1>27 DEF HandlerPanic
<1>28. ASSUME NEW c \in Conns, Hijack(c) PROVE LateInv'
  BY <1>28 DEF Hijack
<1>29. ASSUME NEW c \in Conns, Age(c) PROVE LateInv'
  BY <1>29 DEF Age
<1>30. ASSUME NEW p \in Callers, CallStep(p) \/ ContextExpires(p)
      PROVE  LateInv'
  BY <1>30, CallFrame
<1>31. CASE UNCHANGED vars
  BY <1>31 DEF vars
<1> HIDE DEF IInv, TypeOK, Callers, Sweepers, flagVars, lockVars, serveVars,
    connVars, callVars, LateInv, HandInv, HandPc, doKeepAlives
<1> QED
  BY <1>1, <1>2, <1>3, <1>4, <1>5, <1>6, <1>7, <1>8, <1>9, <1>10, <1>11,
     <1>12, <1>13, <1>14, <1>15, <1>16, <1>17, <1>18, <1>19, <1>20, <1>21,
     <1>22, <1>23, <1>24, <1>25, <1>26, <1>27, <1>28, <1>29, <1>30, <1>31 DEF
     Next, ServeStep, ConnStep, ClientStep, CallStep, AllDone, Callers,
     Sweepers

\* No idle connection survives a sweep.
LEMMA IdleStep == IInv /\ [Next]_vars => IdleInv'
<1> SUFFICES ASSUME IInv, [Next]_vars PROVE IdleInv'
  OBVIOUS
<1> USE CallersAssumption DEF IInv, TypeOK, Callers, Sweepers, flagVars,
    lockVars, serveVars, connVars, callVars, IdleInv, Survivor, TrackInv,
    ServedPc, HandInv, HandPc, FlagInv, MutexInv, LockedPc, doKeepAlives,
    Sweepable
<1>1. ASSUME NEW l \in Listeners, TrackListener(l) PROVE IdleInv'
  BY <1>1 DEF TrackListener
<1>2. ASSUME NEW l \in Listeners, CheckDone(l) PROVE IdleInv'
  BY <1>2 DEF CheckDone
<1>3. ASSUME NEW l \in Listeners, TrackConn(l) PROVE IdleInv'
  BY <1>3 DEF TrackConn
<1>4. ASSUME NEW l \in Listeners, StoreNew(l) PROVE IdleInv'
  BY <1>4 DEF StoreNew
<1>5. ASSUME NEW l \in Listeners, GoServe(l) PROVE IdleInv'
  BY <1>5 DEF GoServe
<1>6. ASSUME NEW l \in Listeners, UntrackListener(l) PROVE IdleInv'
  BY <1>6 DEF UntrackListener
<1>7. ASSUME NEW l \in Listeners, CloseListener(l) PROVE IdleInv'
  BY <1>7 DEF CloseListener
<1>8. ASSUME NEW l \in Listeners, AcceptError(l) PROVE IdleInv'
  BY <1>8 DEF AcceptError
<1>9. ASSUME NEW l \in Listeners, NEW c \in Conns, Accept(l, c) PROVE IdleInv'
  BY <1>9 DEF Accept
<1>10. ASSUME NEW c \in Conns, StoreActiveFailed(c) PROVE IdleInv'
  BY <1>10 DEF StoreActiveFailed
<1>11. ASSUME NEW c \in Conns, StoreActive(c) PROVE IdleInv'
  BY <1>11 DEF StoreActive
<1>12. ASSUME NEW c \in Conns, HandlerReturn(c) PROVE IdleInv'
  BY <1>12 DEF HandlerReturn
<1>13. ASSUME NEW c \in Conns, FinishRequest(c) PROVE IdleInv'
  BY <1>13 DEF FinishRequest
<1>14. ASSUME NEW c \in Conns, StoreIdle(c) PROVE IdleInv'
  BY <1>14 DEF StoreIdle
<1>15. ASSUME NEW c \in Conns, CheckKeepAlives(c) PROVE IdleInv'
  BY <1>15 DEF CheckKeepAlives
<1>16. ASSUME NEW c \in Conns, HijackUntrack(c) PROVE IdleInv'
  BY <1>16 DEF HijackUntrack
<1>17. ASSUME NEW c \in Conns, StoreHijacked(c) PROVE IdleInv'
  BY <1>17 DEF StoreHijacked
<1>18. ASSUME NEW c \in Conns, CloseConn(c) PROVE IdleInv'
  BY <1>18 DEF CloseConn
<1>19. ASSUME NEW c \in Conns, UntrackConn(c) PROVE IdleInv'
  BY <1>19 DEF UntrackConn
<1>20. ASSUME NEW c \in Conns, StoreClosed(c) PROVE IdleInv'
  BY <1>20 DEF StoreClosed
<1>21. ASSUME NEW c \in Conns, ReadBytes(c) PROVE IdleInv'
  BY <1>21 DEF ReadBytes
<1>22. ASSUME NEW c \in Conns, ReadRequest(c) PROVE IdleInv'
  BY <1>22 DEF ReadRequest
<1>23. ASSUME NEW c \in Conns, ReadFail(c) PROVE IdleInv'
  BY <1>23 DEF ReadFail
<1>24. ASSUME NEW c \in Conns, Peek(c) PROVE IdleInv'
  BY <1>24 DEF Peek
<1>25. ASSUME NEW c \in Conns, PeekFail(c) PROVE IdleInv'
  BY <1>25 DEF PeekFail
<1>26. ASSUME NEW c \in Conns, WriteHeader(c) PROVE IdleInv'
  BY <1>26 DEF WriteHeader
<1>27. ASSUME NEW c \in Conns, HandlerPanic(c) PROVE IdleInv'
  BY <1>27 DEF HandlerPanic
<1>28. ASSUME NEW c \in Conns, Hijack(c) PROVE IdleInv'
  BY <1>28 DEF Hijack
<1>29. ASSUME NEW c \in Conns, Age(c) PROVE IdleInv'
  BY <1>29 DEF Age
<1>30. ASSUME NEW p \in Callers, SetInShutdown(p) PROVE IdleInv'
  BY <1>30 DEF SetInShutdown
<1>31. ASSUME NEW p \in Callers, ShutdownListeners(p) PROVE IdleInv'
  BY <1>31 DEF ShutdownListeners
<1>32. ASSUME NEW p \in Callers, ShutdownDone(p) PROVE IdleInv'
  BY <1>32 DEF ShutdownDone
<1>33. ASSUME NEW p \in Callers, CloseDone(p) PROVE IdleInv'
  BY <1>33 DEF CloseDone
<1>34. ASSUME NEW p \in Callers, CloseListeners(p) PROVE IdleInv'
  BY <1>34 DEF CloseListeners
<1>35. ASSUME NEW p \in Callers, CloseReturn(p) PROVE IdleInv'
  BY <1>35 DEF CloseReturn
<1>36. ASSUME NEW p \in Callers, SetKeepAlivesEnabled(p) PROVE IdleInv'
  BY <1>36 DEF SetKeepAlivesEnabled
<1>37. ASSUME NEW p \in Callers, SweepBegin(p) PROVE IdleInv'
  BY <1>37 DEF SweepBegin
<1>38. ASSUME NEW p \in Callers, SweepClose(p) PROVE IdleInv'
  BY <1>38 DEF SweepClose
<1>39. ASSUME NEW p \in Callers, SweepEnd(p) PROVE IdleInv'
  BY <1>39 DEF SweepEnd
<1>40. ASSUME NEW p \in Callers, CountListeners(p) PROVE IdleInv'
  BY <1>40 DEF CountListeners
<1>41. ASSUME NEW p \in Callers, PollTimer(p) PROVE IdleInv'
  BY <1>41 DEF PollTimer
<1>42. ASSUME NEW p \in Callers, NEW c \in Conns, CloseTracked(p, c)
      PROVE  IdleInv'
  BY <1>42 DEF CloseTracked
<1>43. ASSUME NEW p \in Callers, NEW c \in Conns, SweepVisit(p, c)
      PROVE  IdleInv'
  BY <1>43 DEF SweepVisit
<1>44. ASSUME NEW p \in Callers, ContextExpires(p) PROVE IdleInv'
  BY <1>44 DEF ContextExpires
<1>45. CASE UNCHANGED vars
  BY <1>45 DEF vars
<1> HIDE DEF IInv, TypeOK, Callers, Sweepers, flagVars, lockVars, serveVars,
    connVars, callVars, IdleInv, Survivor, TrackInv, ServedPc, HandInv,
    HandPc, FlagInv, MutexInv, LockedPc, doKeepAlives, Sweepable
<1> QED
  BY <1>1, <1>2, <1>3, <1>4, <1>5, <1>6, <1>7, <1>8, <1>9, <1>10, <1>11,
     <1>12, <1>13, <1>14, <1>15, <1>16, <1>17, <1>18, <1>19, <1>20, <1>21,
     <1>22, <1>23, <1>24, <1>25, <1>26, <1>27, <1>28, <1>29, <1>30, <1>31,
     <1>32, <1>33, <1>34, <1>35, <1>36, <1>37, <1>38, <1>39, <1>40, <1>41,
     <1>42, <1>43, <1>44, <1>45 DEF Next, ServeStep, ConnStep, ClientStep,
     CallStep, AllDone, Callers, Sweepers

-----------------------------------------------------------------------------
(* The theorems.                                                           *)

\* The initial state satisfies the invariant.
LEMMA InitInv == Init => IInv
<1> SUFFICES ASSUME Init PROVE IInv
  OBVIOUS
<1> USE CallersAssumption DEF Init
<1>1. TypeOK
  <2>1. /\ inShutdown \in BOOLEAN /\ disableKeepAlives \in BOOLEAN
        /\ doneClosed \in BOOLEAN /\ quiescent \in BOOLEAN
    OBVIOUS
  <2>2. /\ mu \in Callers \union {Free} /\ listeners \in SUBSET Listeners
        /\ activeConn \in SUBSET Conns /\ todo \in SUBSET Conns
        /\ victim \in Conns \union {NoConn}
    OBVIOUS
  <2>3. /\ lnOpen \in [Listeners -> BOOLEAN]
        /\ sp \in [Listeners -> ServePc]
        /\ accepted \in [Listeners -> Conns \union {NoConn}]
        /\ acceptErr \in [Listeners -> {"none", "temporary", "other", "closed"}]
        /\ serveErr \in [Listeners -> {"none", "ErrServerClosed", "other"}]
    BY DEF ServePc
  <2>4. /\ cp \in [Conns -> ConnPc]
        /\ curState \in [Conns -> States]
        /\ rwcOpen \in [Conns -> BOOLEAN]
        /\ got \in [Conns -> {"none", "buffer", "wire"}]
        /\ reply \in [Conns -> {"none", "keep", "close"}]
        /\ late \in [Conns -> Nat]
    BY DEF ConnPc, States
  <2>5. /\ xp \in [Callers -> CallPc]
        /\ ret \in [Callers -> {"none", "nil", "ctxErr"}]
    BY DEF CallPc
  <2> QED
    BY <2>1, <2>2, <2>3, <2>4, <2>5 DEF TypeOK
<1>2. MutexInv /\ FlagInv
  BY DEF MutexInv, FlagInv, LockedPc, Callers, Sweepers
<1>3. ServeInv /\ ListenersClosed
  BY DEF ServeInv, ServeReportsShutdown, HandPc, ListenersClosed, Callers, Sweepers
<1>4. HandInv /\ TrackInv
  BY DEF HandInv, HandPc, TrackInv, NoLeakedConn, ServedPc, Callers, Sweepers
<1>5. LateInv /\ IdleInv
  BY DEF LateInv, IdleInv, Survivor, Callers, Sweepers
<1> QED
  BY <1>1, <1>2, <1>3, <1>4, <1>5 DEF IInv

\* IInv is an inductive invariant of the server.
THEOREM Invariant == Spec => []IInv
<1>1. IInv /\ [Next]_vars => IInv'
  BY TypeStep, MutexStep, FlagStep, ServeInvStep, ListenersStep, HandStep,
     TrackStep, LateStep, IdleStep DEF IInv
<1> QED
  BY InitInv, <1>1, PTL DEF Spec

\* The variables have their types.
THEOREM TypeCorrect == Spec => []TypeOK
<1>1. IInv => TypeOK
  BY DEF IInv
<1> QED
  BY Invariant, <1>1, PTL

\* No Serve goes on accepting behind a Shutdown or a Close.
THEOREM ListenersAreClosed == Spec => []ListenersClosed
<1>1. IInv => ListenersClosed
  BY DEF IInv
<1> QED
  BY Invariant, <1>1, PTL

\* A Serve whose listener was closed under it returns ErrServerClosed.
THEOREM ServeReportsErrServerClosed == Spec => []ServeReportsShutdown
<1>1. IInv => ServeReportsShutdown
  BY DEF IInv, ServeInv
<1> QED
  BY Invariant, <1>1, PTL

\* A nil result of Shutdown means that no Serve loop is left.
THEOREM ShutdownEndsServeLoops == Spec => []NoServeLoopAfterShutdown
<1>1. IInv => NoServeLoopAfterShutdown
  BY DEF IInv, TypeOK, ServeInv, HandPc, ServePc, NoServeLoopAfterShutdown
<1> QED
  BY Invariant, <1>1, PTL

\* srv.activeConn leaks no connection.
THEOREM ConnsAreUntracked == Spec => []NoLeakedConn
<1>1. IInv => NoLeakedConn
  BY DEF IInv, TrackInv
<1> QED
  BY Invariant, <1>1, PTL

\* A connection starts at most one request after the shutdown began.
THEOREM LateRequestsBounded == Spec => []AtMostOneLateRequest
<1>1. IInv => AtMostOneLateRequest
  BY DEF IInv, LateInv, AtMostOneLateRequest
<1> QED
  BY Invariant, <1>1, PTL

\* No idle connection survives the sweep of a Shutdown or of a
\* SetKeepAlivesEnabled(false).
THEOREM SweepLeavesNoIdle == Spec => []NoIdleSurvivor
<1>1. IInv => NoIdleSurvivor
  <2> SUFFICES ASSUME IInv, Swept, NEW c \in Conns PROVE ~Survivor(c)
    BY DEF NoIdleSurvivor, Survivor
  <2>1. CASE \E s \in Shutdowns : xp[s] \in {"count", "wait", "returned"}
    BY <2>1 DEF IInv, IdleInv
  <2>2. CASE disableKeepAlives /\ \A p \in Setters : xp[p] \in {"start", "returned"}
    BY <2>2 DEF IInv, IdleInv
  <2> QED
    BY <2>1, <2>2 DEF Swept
<1> QED
  BY Invariant, <1>1, PTL

\* Who changes whether a connection's socket is open.
LEMMA SocketStep ==
    ASSUME IInv, [Next]_vars, NEW c \in Conns, rwcOpen'[c] # rwcOpen[c]
    PROVE  \/ cp[c] \in {"none", "close"}
           \/ mu \in Closers /\ c \in activeConn
           \/ mu \in Sweepers /\ c = victim
<1> USE CallersAssumption
<1>1. ASSUME NEW l \in Listeners, ServeStep(l) \/ AcceptError(l) PROVE FALSE
  BY <1>1, ServeFrame
<1>2. ASSUME NEW l \in Listeners, NEW d \in Conns, Accept(l, d)
      PROVE  cp[c] = "none"
  BY <1>2 DEF Accept, IInv, TypeOK
<1>3. ASSUME NEW d \in Conns, ConnStep(d) \/ ClientStep(d)
      PROVE  cp[c] = "close"
  BY <1>3 DEF ConnStep, ClientStep, StoreActiveFailed, StoreActive,
     HandlerReturn, FinishRequest, StoreIdle, CheckKeepAlives, HijackUntrack,
     StoreHijacked, CloseConn, UntrackConn, StoreClosed, ReadBytes,
     ReadRequest, ReadFail, Peek, PeekFail, WriteHeader, HandlerPanic, Hijack,
     Age, IInv, TypeOK
<1>4. ASSUME NEW p \in Callers, NEW d \in Conns, CloseTracked(p, d)
      PROVE  mu \in Closers /\ c \in activeConn
  BY <1>4 DEF CloseTracked, IInv, TypeOK, MutexInv, LockedPc, TrackInv
<1>5. ASSUME NEW p \in Callers, SweepClose(p)
      PROVE  mu \in Sweepers /\ c = victim
  BY <1>5 DEF SweepClose, IInv, TypeOK, MutexInv, LockedPc
<1>6. ASSUME NEW p \in Callers, CallStep(p) \/ ContextExpires(p), ~SweepClose(p),
             \A d \in Conns : ~CloseTracked(p, d)
      PROVE  FALSE
  BY <1>6 DEF CallStep, SetInShutdown, ShutdownListeners, ShutdownDone,
     CloseDone, CloseListeners, CloseReturn, SetKeepAlivesEnabled, SweepBegin,
     SweepEnd, CountListeners, PollTimer, SweepVisit, ContextExpires
<1>7. CASE UNCHANGED vars
  BY <1>7 DEF vars
<1> QED
  BY <1>1, <1>2, <1>3, <1>4, <1>5, <1>6, <1>7
  DEF Next, AllDone, Callers, Sweepers

\* The server never closes the socket of a connection that was hijacked.
THEOREM HijackedIsLeftAlone == Spec => HijackedLeftAlone
<1>1. IInv /\ [Next]_vars =>
          [\A c \in Conns : cp[c] = "hijacked" => rwcOpen'[c] = rwcOpen[c]]_vars
  <2> SUFFICES ASSUME IInv, [Next]_vars, NEW c \in Conns, cp[c] = "hijacked",
                      rwcOpen'[c] # rwcOpen[c]
               PROVE  FALSE
    OBVIOUS
  <2>1. c \notin activeConn
    BY DEF IInv, TrackInv, NoLeakedConn
  <2>2. c # victim
    BY <2>1, CallersAssumption DEF IInv, TrackInv
  <2> QED
    BY <2>1, <2>2, SocketStep
<1> QED
  BY Invariant, <1>1, PTL DEF Spec, HijackedLeftAlone

\* A connection without a stored state is closed by nobody but Close.
THEOREM UnsetIsNotSwept == Spec => UnsetNotSwept
<1>1. IInv /\ [Next]_vars =>
          [\A c \in Conns : curState[c] = "unset" /\ rwcOpen[c] /\ ~rwcOpen'[c]
               => mu \in Closers]_vars
  <2> SUFFICES ASSUME IInv, [Next]_vars, NEW c \in Conns, curState[c] = "unset",
                      rwcOpen[c], ~rwcOpen'[c]
               PROVE  mu \in Closers
    OBVIOUS
  <2>1. cp[c] \in {"none", "accepted"}
    BY DEF IInv, HandInv
  <2>2. c # victim
    BY CallersAssumption DEF IInv, TrackInv
  <2>3. CASE cp[c] = "none"
    BY <2>3 DEF IInv, HandInv
  <2> QED
    BY <2>1, <2>2, <2>3, SocketStep
<1> QED
  BY Invariant, <1>1, PTL DEF Spec, UnsetNotSwept

=============================================================================
