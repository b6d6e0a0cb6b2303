-------------------------- MODULE CancelCtx_proofs --------------------------
(***************************************************************************)
(* Proofs about package context, for any number of contexts and            *)
(* goroutines: what is derived from an ended context has ended too, an     *)
(* ended context holds nothing, and every step is one of ContextTree.      *)
(*                                                                         *)
(* The argument: a goroutine in cancel is on one path down the tree        *)
(* (PathInv) and holds the mutexes of that path (LockInv).  A child is     *)
(* always accounted for (Attached): in its parent's list, ended, or at the *)
(* head of somebody's walk, and a list is empty once its owner's walk is   *)
(* over (ChildrenInv).                                                     *)
(***************************************************************************)
EXTENDS CancelCtx, TLAPS

\* The names of goroutines are distinct.
LEMMA Names ==
    /\ Procs \subseteq Goroutines
    /\ \A c \in Ctxs : Timer(c) \in Goroutines /\ Watcher(c) \in Goroutines
    /\ \A c, d \in Ctxs :
          /\ Timer(c) # Watcher(d)
          /\ (Timer(c) = Timer(d) \/ Watcher(c) = Watcher(d)) => c = d
    /\ \A c \in Ctxs : Timer(c) \notin Procs /\ Watcher(c) \notin Procs
    /\ None \notin Goroutines /\ None \notin Ctxs /\ Background \notin Ctxs
    /\ Customs \intersect Ctxs = {} /\ None \notin Customs /\ Background \notin Customs
    /\ Ctxs \subseteq Nat /\ Ctxs \subseteq Nodes /\ Customs \subseteq Nodes
    /\ None # Background
<1>1. \A c, d \in Ctxs :
          /\ Timer(c) # Watcher(d)
          /\ (Timer(c) = Timer(d) \/ Watcher(c) = Watcher(d)) => c = d
    BY DEF Timer, Watcher
<1> QED
    BY <1>1, CtxsAssumption, GoroutinesAssumption DEF Goroutines, Ctxs, Nodes

\* What a call of cancel, and its going on, do to the places.
LEMMA CallIs ==
    ASSUME TypeOK, NEW g \in Goroutines, NEW c \in Ctxs, NEW why, NEW remove,
           Call(g, c, why, remove)
    PROVE  /\ \A h \in Goroutines, d \in Ctxs :
                 at'[h][d] = IF h = g /\ d = c THEN "lock" ELSE at[h][d]
           /\ \A h \in Goroutines :
                 /\ cause'[h] = IF h = g THEN why ELSE cause[h]
                 /\ h # g => top'[h] = top[h]
           /\ remove => top'[g] = c
BY DEF Call, TypeOK

LEMMA GoIs ==
    ASSUME TypeOK, NEW g \in Goroutines, NEW c \in Ctxs, NEW where, Go(g, c, where)
    PROVE  /\ \A h \in Goroutines, d \in Ctxs :
                 at'[h][d] = IF h = g /\ d = c THEN where ELSE at[h][d]
           /\ \A h \in Goroutines : h # g => cause'[h] = cause[h] /\ top'[h] = top[h]
           /\ cause'[g] # "nil" => cause'[g] = cause[g] /\ top'[g] = top[g]
           /\ ~(where = "off" /\ (parent[c] \in Ctxs => at[g][parent[c]] = "off")) =>
                 cause'[g] = cause[g] /\ top'[g] = top[g]
BY DEF Go, TypeOK

-----------------------------------------------------------------------------
(* Types.                                                                  *)

Places == {"off", "lock", "children", "remove", "stop"}

\* A call, and its going on, keep the types of what they change.
LEMMA CallTypes ==
    ASSUME TypeOK, NEW g \in Goroutines, NEW c \in Ctxs, NEW why \in Errs, NEW remove,
           Call(g, c, why, remove)
    PROVE  /\ at' \in [Goroutines -> [Ctxs -> Places]]
           /\ cause' \in [Goroutines -> Errs \union {"nil"}]
           /\ top' \in [Goroutines -> Ctxs \union {None}]
<1>1. at \in [Goroutines -> [Ctxs -> Places]] /\ cause \in [Goroutines -> Errs \union {"nil"}]
      /\ top \in [Goroutines -> Ctxs \union {None}]
    BY DEF TypeOK, Places
<1>2. at' \in [Goroutines -> [Ctxs -> Places]]
    BY <1>1 DEF Call, Places
<1>3. cause' \in [Goroutines -> Errs \union {"nil"}]
    BY <1>1 DEF Call
<1>4. top' \in [Goroutines -> Ctxs \union {None}]
    BY <1>1 DEF Call
<1> QED
    BY <1>2, <1>3, <1>4

LEMMA GoTypes ==
    ASSUME TypeOK, NEW g \in Goroutines, NEW c \in Ctxs, NEW where \in Places,
           Go(g, c, where)
    PROVE  /\ at' \in [Goroutines -> [Ctxs -> Places]]
           /\ cause' \in [Goroutines -> Errs \union {"nil"}]
           /\ top' \in [Goroutines -> Ctxs \union {None}]
<1>1. at \in [Goroutines -> [Ctxs -> Places]] /\ cause \in [Goroutines -> Errs \union {"nil"}]
      /\ top \in [Goroutines -> Ctxs \union {None}]
    BY DEF TypeOK, Places
<1>2. at' \in [Goroutines -> [Ctxs -> Places]]
    BY <1>1 DEF Go, Places
<1>3. cause' \in [Goroutines -> Errs \union {"nil"}]
    BY <1>1 DEF Go
<1>4. top' \in [Goroutines -> Ctxs \union {None}]
    BY <1>1 DEF Go
<1> QED
    BY <1>2, <1>3, <1>4

LEMMA AfterWalkIs ==
    ASSUME NEW g, NEW c PROVE AfterWalk(g, c) \in {"remove", "stop", "off"}
BY DEF AfterWalk

\* Who is making a context makes one of Ctxs.
LEMMA MakingCtx ==
    ASSUME IInv, NEW g \in Procs, step[g] # "off"
    PROVE  making[g] \in Ctxs
BY DEF IInv, TypeOK, MakingInv

\* A call of cancel that propagateCancel makes, with the reason of a parent.
LEMMA ParentEnded ==
    ASSUME IInv, NEW g \in Procs
    PROVE  /\ step[g] = "done" /\ ((parent[making[g]] \in Ctxs /\ Closed(parent[making[g]]))
                 \/ (parent[making[g]] \in Customs /\ err[parent[making[g]]] # "nil")) =>
                 err[parent[making[g]]] \in Errs
           /\ step[g] = "attach" /\ parent[making[g]] \in Ctxs /\ err[parent[making[g]]] # "nil"
                 => err[parent[making[g]]] \in Errs
BY DEF IInv, TypeOK, ReleaseInv, Nodes

(* Every step keeps the types.                                             *)
LEMMA TypeStep == IInv /\ [Next]_vars => TypeOK'
<1> SUFFICES ASSUME IInv, [Next]_vars PROVE TypeOK'
    OBVIOUS
<1> USE DEF treeVars, callVars, cancelVars, ctxVars
<1>0. TypeOK
    BY DEF IInv
<1>1. ASSUME NEW g \in Procs, Derive(g) PROVE TypeOK'
    <2>1. PICK c \in Ctxs, p \in known \union Customs \union {Background} :
              /\ parent' = [parent EXCEPT ![c] = p]
              /\ timed' \in {timed, timed \union {c}}
              /\ making' = [making EXCEPT ![g] = c]
              /\ step' = [step EXCEPT ![g] = IF p = Background THEN "start" ELSE "done"]
        BY <1>1 DEF Derive
    <2>2. UNCHANGED <<known, ctxVars, watch, cancelVars>>
        BY <1>1 DEF Derive
    <2>3. p \in Nodes \union {Background, None}
        BY <1>0 DEF TypeOK, Nodes
    <2>4. parent' \in [Ctxs -> Nodes \union {Background, None}]
        BY <1>0, <2>1, <2>3 DEF TypeOK
    <2>5. timed' \subseteq Ctxs /\ expired' \subseteq timed'
        BY <1>0, <2>1, <2>2 DEF TypeOK
    <2>6. making' \in [Procs -> Ctxs \union {None}]
          /\ step' \in [Procs -> {"off", "done", "attach", "unlock", "start", "return"}]
        BY <1>0, <2>1 DEF TypeOK
    <2> QED
        BY <1>0, <2>2, <2>4, <2>5, <2>6 DEF TypeOK
<1>2. ASSUME NEW g \in Procs, ParentDone(g) PROVE TypeOK'
    <2>1. making[g] \in Ctxs /\ g \in Goroutines
        BY <1>2, MakingCtx, Names DEF ParentDone
    <2>2. step' \in [Procs -> {"off", "done", "attach", "unlock", "start", "return"}]
        <3>1. \E s \in {"start", "attach"} : step' = [step EXCEPT ![g] = s]
            BY <1>2 DEF ParentDone
        <3>2. step \in [Procs -> {"off", "done", "attach", "unlock", "start", "return"}]
            BY <1>0 DEF TypeOK
        <3> QED
            BY <3>1, <3>2
    <2>3. done' \in [Ctxs -> {"nil", "open", "closed", "closedchan"}]
        BY <1>0, <1>2 DEF ParentDone, TypeOK
    <2>4. /\ at' \in [Goroutines -> [Ctxs -> Places]]
          /\ cause' \in [Goroutines -> Errs \union {"nil"}]
          /\ top' \in [Goroutines -> Ctxs \union {None}]
        <3>1. \/ UNCHANGED <<at, cause, top>>
              \/ /\ err[parent[making[g]]] \in Errs
                 /\ Call(g, making[g], err[parent[making[g]]], FALSE)
            BY <1>2, ParentEnded DEF ParentDone
        <3>2. CASE UNCHANGED <<at, cause, top>>
            BY <1>0, <3>2 DEF TypeOK, Places
        <3>3. CASE /\ err[parent[making[g]]] \in Errs
                   /\ Call(g, making[g], err[parent[making[g]]], FALSE)
            BY <1>0, <2>1, <3>3, CallTypes
        <3> QED
            BY <3>1, <3>2, <3>3
    <2> QED
        BY <1>0, <1>2, <2>2, <2>3, <2>4 DEF ParentDone, TypeOK, Places
<1>3. ASSUME NEW g \in Procs, Attach(g) PROVE TypeOK'
    <2>1. making[g] \in Ctxs /\ g \in Goroutines
        BY <1>3, MakingCtx, Names DEF Attach
    <2>2. step' \in [Procs -> {"off", "done", "attach", "unlock", "start", "return"}]
        <3>1. \E s \in {"unlock", "start"} : step' = [step EXCEPT ![g] = s]
            BY <1>3 DEF Attach
        <3>2. step \in [Procs -> {"off", "done", "attach", "unlock", "start", "return"}]
            BY <1>0 DEF TypeOK
        <3> QED
            BY <3>1, <3>2
    <2>3. /\ children' \in [Ctxs -> SUBSET Ctxs] /\ watch' \in [Ctxs -> {"off", "start", "wait"}]
          /\ mu' \in [Ctxs -> Goroutines \union {None}]
        <3>1. /\ children \in [Ctxs -> SUBSET Ctxs] /\ watch \in [Ctxs -> {"off", "start", "wait"}]
              /\ mu \in [Ctxs -> Goroutines \union {None}]
            BY <1>0 DEF TypeOK
        <3>2. children' = children \/ \E p \in Ctxs :
                  children' = [children EXCEPT ![p] = @ \union {making[g]}]
            BY <1>3 DEF Attach
        <3>3. watch' = watch \/ watch' = [watch EXCEPT ![making[g]] = "start"]
            BY <1>3 DEF Attach
        <3>4. mu' = mu \/ \E p \in Ctxs : mu' = [mu EXCEPT ![p] = g]
            BY <1>3 DEF Attach
        <3>5. children' \in [Ctxs -> SUBSET Ctxs]
            BY <2>1, <3>1, <3>2
        <3>6. watch' \in [Ctxs -> {"off", "start", "wait"}]
            BY <3>1, <3>3
        <3>7. mu' \in [Ctxs -> Goroutines \union {None}]
            BY <2>1, <3>1, <3>4
        <3> QED
            BY <3>5, <3>6, <3>7
    <2>4. /\ at' \in [Goroutines -> [Ctxs -> Places]]
          /\ cause' \in [Goroutines -> Errs \union {"nil"}]
          /\ top' \in [Goroutines -> Ctxs \union {None}]
        <3>1. \/ UNCHANGED <<at, cause, top>>
              \/ /\ err[parent[making[g]]] \in Errs
                 /\ Call(g, making[g], err[parent[making[g]]], FALSE)
            BY <1>3, ParentEnded DEF Attach
        <3>2. CASE UNCHANGED <<at, cause, top>>
            BY <1>0, <3>2 DEF TypeOK, Places
        <3>3. CASE /\ err[parent[making[g]]] \in Errs
                   /\ Call(g, making[g], err[parent[making[g]]], FALSE)
            BY <1>0, <2>1, <3>3, CallTypes
        <3> QED
            BY <3>1, <3>2, <3>3
    <2> QED
        BY <1>0, <1>3, <2>2, <2>3, <2>4 DEF Attach, TypeOK, Places
<1>4. ASSUME NEW g \in Procs, Unlock(g) PROVE TypeOK'
    BY <1>0, <1>4 DEF Unlock, TypeOK
<1>5. ASSUME NEW g \in Procs, DeadlinePassed(g) PROVE TypeOK'
    <2>1. making[g] \in Ctxs /\ g \in Goroutines
        BY <1>5, MakingCtx, Names DEF DeadlinePassed
    <2>2. /\ at' \in [Goroutines -> [Ctxs -> Places]]
          /\ cause' \in [Goroutines -> Errs \union {"nil"}]
          /\ top' \in [Goroutines -> Ctxs \union {None}]
        BY <1>0, <1>5, <2>1, CallTypes DEF DeadlinePassed, Errs
    <2>3. step' \in [Procs -> {"off", "done", "attach", "unlock", "start", "return"}]
          /\ expired' \subseteq timed
        BY <1>0, <1>5 DEF DeadlinePassed, TypeOK
    <2> QED
        BY <1>0, <1>5, <2>2, <2>3 DEF DeadlinePassed, TypeOK, Places
<1>6. ASSUME NEW g \in Procs, Start(g) PROVE TypeOK'
    <2>1. making[g] \in Ctxs
        BY <1>6, MakingCtx DEF Start
    <2>2. timer' \in [Ctxs -> {"nil", "armed", "fired", "stopped"}]
        BY <1>0, <1>6 DEF Start, TypeOK
    <2>3. /\ making' \in [Procs -> Ctxs \union {None}] /\ known' \subseteq Ctxs
          /\ step' \in [Procs -> {"off", "done", "attach", "unlock", "start", "return"}]
        BY <1>0, <1>6, <2>1 DEF Start, TypeOK
    <2> QED
        BY <1>0, <1>6, <2>2, <2>3 DEF Start, TypeOK
<1>7. ASSUME NEW g \in Procs, CancelFunc(g) PROVE TypeOK'
    <2>1. PICK c \in known : Call(g, c, "Canceled", ~(c \in expired /\ timer[c] = "nil"))
        BY <1>7 DEF CancelFunc
    <2>2. /\ at' \in [Goroutines -> [Ctxs -> Places]]
          /\ cause' \in [Goroutines -> Errs \union {"nil"}]
          /\ top' \in [Goroutines -> Ctxs \union {None}]
        BY <1>0, <2>1, CallTypes, Names DEF TypeOK, Errs
    <2> QED
        BY <1>0, <1>7, <2>2 DEF CancelFunc, TypeOK, Places
<1>8. ASSUME NEW c \in Ctxs, TimerFires(c) PROVE TypeOK'
    <2>1. /\ at' \in [Goroutines -> [Ctxs -> Places]]
          /\ cause' \in [Goroutines -> Errs \union {"nil"}]
          /\ top' \in [Goroutines -> Ctxs \union {None}]
        BY <1>0, <1>8, CallTypes, Names DEF TimerFires, Errs
    <2>2. timer' \in [Ctxs -> {"nil", "armed", "fired", "stopped"}]
        BY <1>0, <1>8 DEF TimerFires, TypeOK
    <2>3. expired' \subseteq timed
        BY <1>0, <1>8 DEF TimerFires, TypeOK, IInv, OnceInv
    <2> QED
        BY <1>0, <1>8, <2>1, <2>2, <2>3 DEF TimerFires, TypeOK, Places
<1>9. ASSUME NEW g \in Goroutines, NEW c \in Ctxs, Lock(g, c) PROVE TypeOK'
    <2>1. /\ at' \in [Goroutines -> [Ctxs -> Places]]
          /\ cause' \in [Goroutines -> Errs \union {"nil"}]
          /\ top' \in [Goroutines -> Ctxs \union {None}]
        BY <1>0, <1>9, GoTypes, AfterWalkIs DEF Lock, Places
    <2>2. /\ err' \in [Nodes -> Errs \union {"nil"}]
          /\ done' \in [Ctxs -> {"nil", "open", "closed", "closedchan"}]
          /\ mu' \in [Ctxs -> Goroutines \union {None}]
        <3>1. cause[g] \in Errs \union {"nil"} /\ c \in Nodes
            BY <1>0, Names DEF TypeOK
        <3>2. /\ err \in [Nodes -> Errs \union {"nil"}]
              /\ done \in [Ctxs -> {"nil", "open", "closed", "closedchan"}]
              /\ mu \in [Ctxs -> Goroutines \union {None}]
            BY <1>0 DEF TypeOK
        <3>3. err' = err \/ err' = [err EXCEPT ![c] = cause[g]]
            BY <1>9 DEF Lock
        <3>4. done' = done \/ \E d \in {"closed", "closedchan"} : done' = [done EXCEPT ![c] = d]
            BY <1>9 DEF Lock
        <3>5. mu' = mu \/ mu' = [mu EXCEPT ![c] = g]
            BY <1>9 DEF Lock
        <3>6. err' \in [Nodes -> Errs \union {"nil"}]
            BY <3>1, <3>2, <3>3
        <3>7. done' \in [Ctxs -> {"nil", "open", "closed", "closedchan"}]
            BY <3>2, <3>4
        <3>8. mu' \in [Ctxs -> Goroutines \union {None}]
            BY <3>2, <3>5
        <3> QED
            BY <3>6, <3>7, <3>8
    <2> QED
        BY <1>0, <1>9, <2>1, <2>2 DEF Lock, TypeOK, Places
<1>10. ASSUME NEW g \in Goroutines, NEW c \in Ctxs, CancelChild(g, c) PROVE TypeOK'
    <2>1. PICK d \in children[c] : children' = [children EXCEPT ![c] = @ \ {d}]
                                   /\ at' = [at EXCEPT ![g][d] = "lock"]
        BY <1>10 DEF CancelChild
    <2>2. d \in Ctxs
        BY <1>0 DEF TypeOK
    <2>3. at' \in [Goroutines -> [Ctxs -> Places]]
        BY <1>0, <2>1, <2>2 DEF TypeOK, Places
    <2>4. children' \in [Ctxs -> SUBSET Ctxs]
        BY <1>0, <2>1 DEF TypeOK
    <2> QED
        BY <1>0, <1>10, <2>3, <2>4 DEF CancelChild, TypeOK, Places
<1>11. ASSUME NEW g \in Goroutines, NEW c \in Ctxs, ChildrenDone(g, c) PROVE TypeOK'
    <2>1. /\ at' \in [Goroutines -> [Ctxs -> Places]]
          /\ cause' \in [Goroutines -> Errs \union {"nil"}]
          /\ top' \in [Goroutines -> Ctxs \union {None}]
        BY <1>0, <1>11, GoTypes, AfterWalkIs DEF ChildrenDone, Places
    <2>2. mu' \in [Ctxs -> Goroutines \union {None}]
        BY <1>0, <1>11 DEF ChildrenDone, TypeOK
    <2> QED
        BY <1>0, <1>11, <2>1, <2>2 DEF ChildrenDone, TypeOK, Places
<1>12. ASSUME NEW g \in Goroutines, NEW c \in Ctxs, removeChild(g, c) PROVE TypeOK'
    <2>1. /\ at' \in [Goroutines -> [Ctxs -> Places]]
          /\ cause' \in [Goroutines -> Errs \union {"nil"}]
          /\ top' \in [Goroutines -> Ctxs \union {None}]
        BY <1>0, <1>12, GoTypes DEF removeChild, Places
    <2>2. children' \in [Ctxs -> SUBSET Ctxs]
        BY <1>0, <1>12 DEF removeChild, TypeOK
    <2> QED
        BY <1>0, <1>12, <2>1, <2>2 DEF removeChild, TypeOK, Places
<1>13. ASSUME NEW g \in Goroutines, NEW c \in Ctxs, StopTimer(g, c) PROVE TypeOK'
    <2>1. /\ at' \in [Goroutines -> [Ctxs -> Places]]
          /\ cause' \in [Goroutines -> Errs \union {"nil"}]
          /\ top' \in [Goroutines -> Ctxs \union {None}]
        BY <1>0, <1>13, GoTypes DEF StopTimer, Places
    <2>2. timer' \in [Ctxs -> {"nil", "armed", "fired", "stopped"}]
        BY <1>0, <1>13 DEF StopTimer, TypeOK
    <2> QED
        BY <1>0, <1>13, <2>1, <2>2 DEF StopTimer, TypeOK, Places
<1>14. ASSUME NEW c \in Ctxs, WatchStart(c) \/ WatchChild(c) PROVE TypeOK'
    <2>1. /\ done' \in [Ctxs -> {"nil", "open", "closed", "closedchan"}]
          /\ watch' \in [Ctxs -> {"off", "start", "wait"}]
        <3>1. CASE WatchStart(c)
            BY <1>0, <3>1 DEF WatchStart, TypeOK
        <3>2. CASE WatchChild(c)
            BY <1>0, <3>2 DEF WatchChild, TypeOK
        <3> QED
            BY <1>14, <3>1, <3>2
    <2>2. UNCHANGED <<treeVars, err, mu, children, timer, expired, callVars, cancelVars>>
        BY <1>14 DEF WatchStart, WatchChild
    <2> QED
        BY <1>0, <2>1, <2>2 DEF TypeOK
<1>15. ASSUME NEW c \in Ctxs, WatchParent(c) PROVE TypeOK'
    <2>1. parent[c] \in Customs /\ err[parent[c]] \in Errs
        BY <1>0, <1>15, Names DEF WatchParent, IInv, OnceInv, TypeOK
    <2>2. /\ at' \in [Goroutines -> [Ctxs -> Places]]
          /\ cause' \in [Goroutines -> Errs \union {"nil"}]
          /\ top' \in [Goroutines -> Ctxs \union {None}]
        BY <1>0, <1>15, <2>1, CallTypes, Names DEF WatchParent
    <2>3. watch' \in [Ctxs -> {"off", "start", "wait"}]
        BY <1>0, <1>15 DEF WatchParent, TypeOK
    <2> QED
        BY <1>0, <1>15, <2>2, <2>3 DEF WatchParent, TypeOK, Places
<1>16. ASSUME NEW c \in Ctxs, Done(c) PROVE TypeOK'
    BY <1>0, <1>16 DEF Done, TypeOK
<1>17. ASSUME NEW x \in Customs, CustomEnds(x) PROVE TypeOK'
    <2>1. err' \in [Nodes -> Errs \union {"nil"}]
        BY <1>0, <1>17 DEF CustomEnds, TypeOK, Errs
    <2> QED
        BY <1>0, <1>17, <2>1 DEF CustomEnds, TypeOK
<1>18. CASE UNCHANGED vars
    BY <1>0, <1>18 DEF vars, TypeOK
<1>19. known \subseteq Ctxs
    BY <1>0 DEF TypeOK
<1> QED
    BY <1>1, <1>2, <1>3, <1>4, <1>5, <1>6, <1>7, <1>8, <1>9, <1>10, <1>11, <1>12, <1>13,
       <1>14, <1>15, <1>16, <1>17, <1>18, <1>19
       DEF Next, Cancelling, Making, Watching

-----------------------------------------------------------------------------
(* What each part of the invariant is about: steps that change none of it  *)
(* keep the part.                                                          *)

LEMMA TreeFrame ==
    ASSUME TreeInv, UNCHANGED <<parent, known, err, timer, watch>> PROVE TreeInv'
BY DEF TreeInv

LEMMA MakingFrame ==
    ASSUME MakingInv, UNCHANGED <<parent, known, err, timer, watch, callVars, at>>
    PROVE  MakingInv'
BY DEF MakingInv, callVars, Unattached, NotCancelling

LEMMA PathFrame ==
    ASSUME NEW g \in Goroutines, PathInv(g), UNCHANGED <<parent, at, cause>>
    PROVE  PathInv(g)'
BY DEF PathInv

LEMMA OnceFrame ==
    ASSUME NEW c \in Ctxs, OnceInv(c), UNCHANGED <<timer, timed, watch, parent, at>>
    PROVE  OnceInv(c)'
BY DEF OnceInv, NotCancelling

LEMMA LockFrame ==
    ASSUME LockInv, UNCHANGED <<mu, err, at, cause, parent, timed, callVars>> PROVE LockInv'
BY DEF LockInv, PlaceInv, Walking, callVars

LEMMA ChildrenFrame ==
    ASSUME ChildrenInv, UNCHANGED <<children, parent, callVars, err, at>> PROVE ChildrenInv'
BY DEF ChildrenInv, Attached, Walking, Unattached, callVars

LEMMA ReleaseFrame ==
    ASSUME NEW c \in Ctxs, ReleaseInv(c),
           UNCHANGED <<at, top, err, parent, children, timer, done, expired, callVars>>
    PROVE  ReleaseInv(c)'
BY DEF ReleaseInv, Closed, callVars

\* The parts of IInv.
LEMMA Parts ==
    ASSUME IInv
    PROVE  /\ TypeOK /\ TreeInv /\ MakingInv /\ LockInv /\ ChildrenInv
           /\ \A g \in Goroutines : PathInv(g)
           /\ \A c \in Ctxs : OnceInv(c) /\ ReleaseInv(c)
BY DEF IInv

-----------------------------------------------------------------------------
(* Paths.                                                                  *)

(* A goroutine that begins a cancel is in one place.                       *)
LEMMA PathCall ==
    ASSUME IInv, NEW g \in Goroutines, NEW c \in Ctxs, NEW why \in Errs, NEW remove,
           Call(g, c, why, remove), NotCancelling(g), parent[c] # None, parent' = parent
    PROVE  \A h \in Goroutines : PathInv(h)'
<1>1. TypeOK /\ \A h \in Goroutines : PathInv(h)
    BY Parts
<1>2. /\ \A h \in Goroutines, d \in Ctxs :
            at'[h][d] = IF h = g /\ d = c THEN "lock" ELSE at[h][d]
      /\ \A h \in Goroutines : cause'[h] = IF h = g THEN why ELSE cause[h]
    BY <1>1, CallIs
<1>3. \A d \in Ctxs : at[g][d] = "off"
    BY DEF NotCancelling
<1>4. ASSUME NEW h \in Goroutines, h # g PROVE PathInv(h)'
    <2>1. \A d \in Ctxs : at'[h][d] = at[h][d]
        BY <1>2, <1>4
    <2>2. cause'[h] = cause[h]
        BY <1>2, <1>4
    <2>3. \A a \in Ctxs, b \in Ctxs : (a+1)..b \subseteq Ctxs
        BY CtxsAssumption DEF Ctxs
    <2> QED
        BY <1>1, <1>4, <2>1, <2>2, <2>3 DEF PathInv
<1>5. PathInv(g)'
    <2>1. \A a, b \in Ctxs : ~(a < b /\ at'[g][a] # "off" /\ at'[g][b] # "off")
        BY <1>2, <1>3, Names DEF Ctxs
    <2>2. \A d \in Ctxs : at'[g][d] # "off" => parent'[d] # None /\ cause'[g] # "nil"
        BY <1>2, <1>3 DEF Errs
    <2> QED
        BY <2>1, <2>2 DEF PathInv
<1> QED
    BY <1>4, <1>5

(* The context at the end of the path is the last one.                     *)
LEMMA Innermost ==
    ASSUME IInv, NEW g \in Goroutines, NEW c \in Ctxs, at[g][c] # "off",
           at[g][c] = "children" => InnermostAt(g, c, "children")
    PROVE  \A d \in Ctxs : at[g][d] # "off" => d <= c
<1>1. PathInv(g)
    BY Parts
<1>2. \A d \in Ctxs : c < d /\ at[g][d] # "off" =>
          at[g][c] = "children" /\ \E e \in (c + 1)..d : parent[e] = c /\ at[g][e] # "off"
    BY <1>1 DEF PathInv
<1>3. \A d \in Ctxs : (c + 1)..d \subseteq Ctxs
    BY CtxsAssumption DEF Ctxs
<1>4. \A d \in Ctxs : at[g][d] # "off" => ~(c < d)
    BY <1>2, <1>3 DEF InnermostAt
<1> QED
    BY <1>4 DEF Ctxs

(* It leaves: the rest is a path, and nothing is left when it was the      *)
(* first.                                                                  *)
LEMMA PathGo ==
    ASSUME IInv, NEW g \in Goroutines, NEW c \in Ctxs, NEW where, Go(g, c, where),
           at[g][c] # "off", at[g][c] = "children" => InnermostAt(g, c, "children"),
           parent' = parent
    PROVE  \A h \in Goroutines : PathInv(h)'
<1>1. TypeOK /\ \A h \in Goroutines : PathInv(h)
    BY Parts
<1>2. /\ \A h \in Goroutines, d \in Ctxs :
            at'[h][d] = IF h = g /\ d = c THEN where ELSE at[h][d]
      /\ \A h \in Goroutines : h # g => cause'[h] = cause[h]
      /\ ~(where = "off" /\ (parent[c] \in Ctxs => at[g][parent[c]] = "off")) =>
            cause'[g] = cause[g]
    BY <1>1, GoIs
<1>3. \A a \in Ctxs, b \in Ctxs : (a+1)..b \subseteq Ctxs
    BY CtxsAssumption DEF Ctxs
<1>4. ASSUME NEW h \in Goroutines, h # g PROVE PathInv(h)'
    <2>1. \A d \in Ctxs : at'[h][d] = at[h][d]
        BY <1>2, <1>4
    <2>2. cause'[h] = cause[h]
        BY <1>2, <1>4
    <2> QED
        BY <1>1, <1>3, <1>4, <2>1, <2>2 DEF PathInv
<1>5. \A d \in Ctxs : at[g][d] # "off" => d <= c
    BY Innermost
<1>6. PathInv(g)'
    <2>1. \A d \in Ctxs : d # c => at'[g][d] = at[g][d]
        BY <1>2
    <2>2. ASSUME NEW a \in Ctxs, NEW b \in Ctxs, a < b, at'[g][a] # "off", at'[g][b] # "off"
          PROVE  /\ at'[g][a] = "children"
                 /\ \E e \in (a + 1)..b : parent'[e] = a /\ at'[g][e] # "off"
                 /\ parent'[b] \in Ctxs /\ at'[g][parent'[b]] # "off"
        <3>1. at[g][b] # "off"
            BY <1>2, <2>2
        <3>2. b <= c /\ a # c
            BY <1>5, <2>2, <3>1 DEF Ctxs
        <3>3. at[g][a] # "off"
            BY <2>1, <2>2, <3>2
        <3>4. /\ at[g][a] = "children"
              /\ \E e \in (a + 1)..b : parent[e] = a /\ at[g][e] # "off"
              /\ parent[b] \in Ctxs /\ at[g][parent[b]] # "off"
            BY <1>1, <2>2, <3>1, <3>3 DEF PathInv
        <3>5. PICK e \in (a + 1)..b : parent[e] = a /\ at[g][e] # "off"
            BY <3>4
        <3>6. e = c => e = b
            BY <3>2, <3>5 DEF Ctxs
        <3>7. at'[g][e] # "off" /\ e \in Ctxs
            BY <1>3, <2>1, <2>2, <3>5, <3>6
        <3>8. parent[b] # c
            BY <3>2, Parts DEF TreeInv, Ctxs
        <3> QED
            BY <2>1, <3>2, <3>4, <3>5, <3>7, <3>8
    <2>3. \A d \in Ctxs : at'[g][d] # "off" => parent'[d] # None /\ cause'[g] # "nil"
        <3>1. CASE where = "off" /\ (parent[c] \in Ctxs => at[g][parent[c]] = "off")
            <4>1. ASSUME NEW d \in Ctxs, at[g][d] # "off", d # c PROVE FALSE
                <5>1. d < c
                    BY <1>5, <4>1 DEF Ctxs
                <5>2. parent[c] \in Ctxs /\ at[g][parent[c]] # "off"
                    BY <1>1, <4>1, <5>1 DEF PathInv
                <5> QED
                    BY <3>1, <5>2
            <4> QED
                BY <1>2, <3>1, <4>1
        <3>2. CASE ~(where = "off" /\ (parent[c] \in Ctxs => at[g][parent[c]] = "off"))
            BY <1>1, <1>2, <3>2 DEF PathInv
        <3> QED
            BY <3>1, <3>2
    <2> QED
        BY <2>2, <2>3 DEF PathInv
<1> QED
    BY <1>4, <1>6

(* It goes one down.                                                       *)
LEMMA PathChild ==
    ASSUME IInv, NEW g \in Goroutines, NEW c \in Ctxs, CancelChild(g, c)
    PROVE  \A h \in Goroutines : PathInv(h)'
<1>1. TypeOK /\ TreeInv /\ ChildrenInv /\ \A h \in Goroutines : PathInv(h)
    BY Parts
<1>2. PICK d \in children[c] : at' = [at EXCEPT ![g][d] = "lock"]
    BY DEF CancelChild
<1>3. d \in Ctxs /\ parent[d] = c /\ c < d
    BY <1>1, <1>2 DEF TypeOK, ChildrenInv, TreeInv
<1>4. \A h \in Goroutines, e \in Ctxs :
          at'[h][e] = IF h = g /\ e = d THEN "lock" ELSE at[h][e]
    BY <1>1, <1>2, <1>3 DEF TypeOK
<1>5. UNCHANGED <<parent, cause>>
    BY DEF CancelChild, treeVars
<1>6. \A a \in Ctxs, b \in Ctxs : (a+1)..b \subseteq Ctxs
    BY CtxsAssumption DEF Ctxs
<1>7. ASSUME NEW h \in Goroutines, h # g PROVE PathInv(h)'
    <2>1. \A e \in Ctxs : at'[h][e] = at[h][e]
        BY <1>4, <1>7
    <2> QED
        BY <1>1, <1>5, <1>6, <1>7, <2>1 DEF PathInv
<1>8. at[g][c] = "children" /\ \A e \in Ctxs : at[g][e] # "off" => e <= c
    BY Innermost DEF CancelChild, InnermostAt
<1>9. PathInv(g)'
    <2>1. ASSUME NEW a \in Ctxs, NEW b \in Ctxs, a < b, at'[g][a] # "off", at'[g][b] # "off"
          PROVE  /\ at'[g][a] = "children"
                 /\ \E e \in (a + 1)..b : parent'[e] = a /\ at'[g][e] # "off"
                 /\ parent'[b] \in Ctxs /\ at'[g][parent'[b]] # "off"
        <3>1. a # d /\ at[g][a] # "off" /\ a <= c /\ at'[g][a] = at[g][a]
            <4>1. a # d
                BY <1>3, <1>4, <1>8, <2>1 DEF Ctxs
            <4> QED
                BY <1>4, <1>8, <2>1, <4>1
        <3>2. at'[g][d] = "lock" /\ at'[g][c] = "children"
            BY <1>3, <1>4, <1>8 DEF Ctxs
        <3>3. CASE b = d
            <4>1. parent'[b] = c
                BY <1>3, <1>5, <3>3
            <4>2. CASE a = c
                BY <1>3, <1>5, <1>8, <2>1, <3>1, <3>2, <3>3, <4>1, <4>2 DEF Ctxs
            <4>3. CASE a # c
                <5>1. a < c
                    BY <3>1, <4>3 DEF Ctxs
                <5>2. at[g][a] = "children"
                      /\ \E e \in (a + 1)..c : parent[e] = a /\ at[g][e] # "off"
                    BY <1>1, <1>8, <3>1, <5>1 DEF PathInv
                <5>3. PICK e \in (a + 1)..c : parent[e] = a /\ at[g][e] # "off"
                    BY <5>2
                <5>4. e \in Ctxs /\ e \in (a + 1)..b /\ at'[g][e] # "off"
                    BY <1>3, <1>4, <1>6, <3>3, <5>3 DEF Ctxs
                <5> QED
                    BY <1>5, <3>1, <3>2, <4>1, <5>2, <5>3, <5>4
            <4> QED
                BY <4>2, <4>3
        <3>4. CASE b # d
            <4>1. at[g][b] # "off"
                BY <1>4, <2>1, <3>4
            <4>2. /\ at[g][a] = "children"
                  /\ \E e \in (a + 1)..b : parent[e] = a /\ at[g][e] # "off"
                  /\ parent[b] \in Ctxs /\ at[g][parent[b]] # "off"
                BY <1>1, <2>1, <3>1, <4>1 DEF PathInv
            <4>3. \A e \in Ctxs : at[g][e] # "off" => at'[g][e] # "off"
                BY <1>4
            <4> QED
                BY <1>5, <1>6, <3>1, <4>2, <4>3
        <3> QED
            BY <3>3, <3>4
    <2>2. \A e \in Ctxs : at'[g][e] # "off" => parent'[e] # None /\ cause'[g] # "nil"
        BY <1>1, <1>3, <1>4, <1>5, <1>8, Names DEF PathInv
    <2> QED
        BY <2>1, <2>2 DEF PathInv
<1> QED
    BY <1>7, <1>9

\* What a goroutine that goes on leaves behind is as it was.
LEMMA GoKeeps ==
    ASSUME IInv, NEW g \in Goroutines, NEW c \in Ctxs, NEW where, Go(g, c, where),
           at[g][c] # "off", at[g][c] = "children" => InnermostAt(g, c, "children"),
           parent' = parent
    PROVE  /\ \A h \in Goroutines, d \in Ctxs :
                 /\ at'[h][d] = IF h = g /\ d = c THEN where ELSE at[h][d]
                 /\ at'[h][d] # "off" => cause'[h] = cause[h] /\ top'[h] = top[h]
           /\ \A h \in Goroutines : PathInv(h)'
<1>1. TypeOK
    BY Parts
<1>2. \A h \in Goroutines : PathInv(h)'
    BY PathGo
<1>3. \A h \in Goroutines, d \in Ctxs : at'[h][d] # "off" => cause'[h] # "nil"
    BY <1>2 DEF PathInv
<1> QED
    BY <1>1, <1>2, <1>3, GoIs

-----------------------------------------------------------------------------
(* The walk.                                                               *)

(* A goroutine goes on from a context that has ended and that nobody walks *)
(* below of: the list of its parent and its timer may be the less for it.  *)
LEMMA EndedGo ==
    ASSUME IInv, TypeOK', NEW g \in Goroutines, NEW c \in Ctxs,
           NEW where \in {"off", "remove", "stop"}, Go(g, c, where),
           at[g][c] \in {"lock", "remove", "stop"}, err[c] # "nil", ~Walking(c),
           UNCHANGED <<treeVars, err, done, mu, expired, watch, callVars>>,
           \A d \in Ctxs :
              /\ children'[d] \subseteq children[d] /\ children[d] \ {c} \subseteq children'[d]
              /\ timer'[d] = timer[d] \/ (timer[d] # "nil" /\ timer'[d] = "stopped"),
           at[g][c] = "remove" /\ parent[c] \in Ctxs /\ err[parent[c]] = "nil" =>
              c \notin children'[parent[c]],
           timer'[c] = "armed" => at[g][c] = "lock" \/ where = "stop"
    PROVE  IInv'
<1> USE DEF treeVars, callVars
<1>1. /\ TypeOK /\ TreeInv /\ MakingInv /\ LockInv /\ ChildrenInv
      /\ \A h \in Goroutines : PathInv(h)
      /\ \A d \in Ctxs : OnceInv(d) /\ ReleaseInv(d)
    BY Parts
<1>2. /\ \A h \in Goroutines, d \in Ctxs :
            /\ at'[h][d] = IF h = g /\ d = c THEN where ELSE at[h][d]
            /\ at'[h][d] # "off" => cause'[h] = cause[h] /\ top'[h] = top[h]
      /\ \A h \in Goroutines : PathInv(h)'
    BY GoKeeps
<1>3. \A h \in Goroutines, d \in Ctxs :
          /\ at[h][d] = "off" => at'[h][d] = "off"
          /\ at'[h][d] = "children" <=> at[h][d] = "children"
          /\ at'[h][d] = "lock" => at[h][d] = "lock"
    BY <1>2
<1>4. \A d \in Ctxs : Walking(d)' <=> Walking(d)
    BY <1>3 DEF Walking
<1>5. \A h \in Goroutines : NotCancelling(h) => NotCancelling(h)'
    BY <1>3 DEF NotCancelling
<1>6. TreeInv'
    BY <1>1 DEF TreeInv
<1>7. MakingInv'
    <2>1. \A h \in Procs : Unattached(h)' = Unattached(h)
        BY DEF Unattached
    <2>2. ASSUME NEW h \in Procs
          PROVE  /\ making[h] # None => timer'[making[h]] = "nil"
                 /\ Unattached(h) => /\ NotCancelling(h)' /\ NotCancelling(Watcher(making[h]))'
                                     /\ \A k \in Goroutines : at'[k][making[h]] = "off"
                 /\ step[h] = "unlock" =>
                        \A d \in Ctxs : at'[h][d] # "off" => making[h] <= d
        <3>1. making[h] # None => making[h] \in Ctxs
            BY <1>1 DEF TypeOK
        <3>2. Unattached(h) => making[h] \in Ctxs
            BY <1>1, <3>1 DEF MakingInv, Unattached
        <3>3. Unattached(h) => /\ NotCancelling(h) /\ NotCancelling(Watcher(making[h]))
                               /\ \A k \in Goroutines : at[k][making[h]] = "off"
            BY <1>1 DEF MakingInv
        <3>4. making[h] # None => timer'[making[h]] = "nil"
            BY <1>1, <3>1 DEF MakingInv
        <3>5. step[h] = "unlock" =>
                  \A d \in Ctxs : at[h][d] # "off" => making[h] <= d
            BY <1>1 DEF MakingInv
        <3> QED
            BY <1>3, <1>5, <3>2, <3>3, <3>4, <3>5, Names
    <2> QED
        BY <1>1, <2>1, <2>2 DEF MakingInv
<1>8. ASSUME NEW d \in Ctxs PROVE OnceInv(d)'
    BY <1>1, <1>5, Names DEF OnceInv
<1>9. LockInv'
    <2>1. ASSUME NEW h \in Goroutines, NEW d \in Ctxs PROVE PlaceInv(h, d)'
        BY <1>1, <1>2, <1>3, <1>4 DEF LockInv, PlaceInv
    <2> QED
        BY <1>1, <2>1 DEF LockInv
<1>10. ChildrenInv'
    <2>1. \A h \in Procs : Unattached(h)' = Unattached(h)
        BY DEF Unattached
    <2>2. ASSUME NEW d \in Ctxs, parent[d] \in Ctxs PROVE Attached(d)'
        <3>1. Attached(d)
            BY <1>1, <2>2 DEF ChildrenInv
        <3>2. CASE \E h \in Procs : making[h] = d /\ Unattached(h)
            BY <2>1, <3>2 DEF Attached
        <3>3. CASE d \in children[parent[d]]
            <4>1. d # c => d \in children'[parent[d]]
                BY <2>2, <3>3
            <4> QED
                BY <1>4, <4>1 DEF Attached
        <3>4. CASE err[d] # "nil" /\ ~Walking(d)
            BY <1>4, <3>4 DEF Attached
        <3>5. ASSUME NEW h \in Goroutines, at[h][d] \in {"lock", "children"},
                     at[h][parent[d]] = "children" \/ (h \in Procs /\ making[h] = d)
              PROVE  Attached(d)'
            <4>1. CASE d = c
                BY <1>4, <4>1 DEF Attached
            <4>2. CASE d # c
                <5>1. at'[h][d] \in {"lock", "children"}
                    BY <1>2, <3>5, <4>2
                <5>2. at'[h][parent[d]] = "children" \/ (h \in Procs /\ making'[h] = d)
                    BY <1>3, <2>2, <3>5
                <5> QED
                    BY <5>1, <5>2 DEF Attached
            <4> QED
                BY <4>1, <4>2
        <3> QED
            BY <3>1, <3>2, <3>3, <3>4, <3>5 DEF Attached
    <2>3. \A d \in Ctxs : \A e \in children'[d] : e \in children[d] /\ e \in Ctxs
        BY <1>1 DEF TypeOK
    <2> QED
        BY <1>1, <1>4, <2>1, <2>2, <2>3 DEF ChildrenInv
<1>11. ASSUME NEW d \in Ctxs PROVE ReleaseInv(d)'
    <2>1. ReleaseInv(d)
        BY <1>1
    <2>2. \A h \in Goroutines :
              (/\ at'[h][d] = "lock" /\ err'[d] = "nil" /\ parent'[d] \in Ctxs
               /\ d \in children'[parent'[d]]) => top'[h] = d
        BY <1>2, <1>3, <2>1 DEF ReleaseInv
    <2>3. (/\ parent'[d] \in Ctxs /\ d \in children'[parent'[d]]
           /\ err'[d] # "nil" /\ err'[parent'[d]] = "nil") =>
              \E h \in Goroutines :
                 (at'[h][d] = "children" /\ top'[h] = d) \/ at'[h][d] = "remove"
        <3> SUFFICES ASSUME parent[d] \in Ctxs, d \in children'[parent[d]],
                            err[d] # "nil", err[parent[d]] = "nil"
                     PROVE  \E h \in Goroutines :
                               (at'[h][d] = "children" /\ top'[h] = d) \/ at'[h][d] = "remove"
            OBVIOUS
        <3>1. PICK h \in Goroutines :
                  (at[h][d] = "children" /\ top[h] = d) \/ at[h][d] = "remove"
            BY <2>1 DEF ReleaseInv
        <3>2. ~(h = g /\ d = c)
            BY <3>1
        <3>3. at'[h][d] = at[h][d] /\ top'[h] = top[h]
            BY <1>2, <3>1, <3>2
        <3> QED
            BY <3>1, <3>3
    <2>4. timer'[d] = "armed" /\ err'[d] # "nil" =>
              \E h \in Goroutines : at'[h][d] \in {"children", "remove", "stop"}
        <3> SUFFICES ASSUME timer'[d] = "armed", err[d] # "nil"
                     PROVE  \E h \in Goroutines : at'[h][d] \in {"children", "remove", "stop"}
            OBVIOUS
        <3>1. timer[d] = "armed"
            OBVIOUS
        <3>2. PICK h \in Goroutines : at[h][d] \in {"children", "remove", "stop"}
            BY <2>1, <3>1 DEF ReleaseInv
        <3> QED
            BY <1>2, <3>2
    <2>5. Closed(d)' => err'[d] # "nil"
        BY <2>1 DEF ReleaseInv, Closed
    <2>6. d \in expired' /\ timer'[d] = "nil" /\ err'[d] = "nil" =>
              \E h \in Procs : making'[h] = d /\ step'[h] = "return" /\ at'[h][d] = "lock"
        <3> SUFFICES ASSUME d \in expired, timer'[d] = "nil", err[d] = "nil"
                     PROVE  \E h \in Procs : making[h] = d /\ step[h] = "return"
                                             /\ at'[h][d] = "lock"
            OBVIOUS
        <3>1. timer[d] = "nil" /\ d # c
            OBVIOUS
        <3>2. PICK h \in Procs : making[h] = d /\ step[h] = "return" /\ at[h][d] = "lock"
            BY <2>1, <3>1 DEF ReleaseInv
        <3> QED
            BY <1>2, <3>1, <3>2, Names
    <2> QED
        BY <2>2, <2>3, <2>4, <2>5, <2>6 DEF ReleaseInv
<1> QED
    BY <1>2, <1>6, <1>7, <1>8, <1>9, <1>10, <1>11 DEF IInv

(* The first to lock a context ends it and walks below it.                 *)
LEMMA LockFirst ==
    ASSUME IInv, TypeOK', NEW g \in Goroutines, NEW c \in Ctxs, Lock(g, c), err[c] = "nil"
    PROVE  IInv'
<1> USE DEF treeVars, callVars
<1>1. /\ TypeOK /\ TreeInv /\ MakingInv /\ LockInv /\ ChildrenInv
      /\ \A h \in Goroutines : PathInv(h)
      /\ \A d \in Ctxs : OnceInv(d) /\ ReleaseInv(d)
    BY Parts
<1>2. /\ at[g][c] = "lock" /\ mu[c] = None /\ Go(g, c, "children")
      /\ err' = [err EXCEPT ![c] = cause[g]]
      /\ done' = [done EXCEPT ![c] = IF @ = "nil" THEN "closedchan" ELSE "closed"]
      /\ mu' = [mu EXCEPT ![c] = g]
      /\ UNCHANGED <<treeVars, children, timer, expired, watch, callVars>>
    BY DEF Lock, Free
<1>3. /\ \A h \in Goroutines, d \in Ctxs :
            /\ at'[h][d] = IF h = g /\ d = c THEN "children" ELSE at[h][d]
            /\ at'[h][d] # "off" => cause'[h] = cause[h] /\ top'[h] = top[h]
      /\ \A h \in Goroutines : PathInv(h)'
    BY <1>2, GoKeeps
<1>4. /\ \A d \in Nodes : err'[d] = IF d = c THEN cause[g] ELSE err[d]
      /\ \A d \in Ctxs : mu'[d] = IF d = c THEN g ELSE mu[d]
      /\ \A d \in Ctxs : d # c => done'[d] = done[d]
      /\ \A h \in Goroutines, d \in Ctxs : at[h][d] # "off" => cause[h] # "nil"
      /\ cause[g] # "nil" /\ c \in Nodes
    BY <1>1, <1>2, Names DEF TypeOK, PathInv
<1>5. \A h \in Goroutines, d \in Ctxs :
          /\ at[h][d] = "off" <=> at'[h][d] = "off"
          /\ at[h][d] = "children" => at'[h][d] = "children"
          /\ at'[h][d] = "lock" => at[h][d] = "lock"
    BY <1>2, <1>3
<1>6. \A d \in Ctxs : d # c => (Walking(d)' <=> Walking(d))
    BY <1>3 DEF Walking
<1>7. \A h \in Goroutines : NotCancelling(h) <=> NotCancelling(h)'
    BY <1>5 DEF NotCancelling
<1>8. Walking(c)'
    BY <1>3 DEF Walking
<1>9. TreeInv'
    <2>1. parent[c] # None
        BY <1>1, <1>2 DEF PathInv
    <2>2. UNCHANGED <<parent, known, timer, watch>>
        BY <1>2
    <2>3. \A d \in Ctxs : parent[d] = None => d # c /\ err'[d] = err[d]
        BY <1>4, <2>1, Names
    <2> QED
        BY <1>1, <2>2, <2>3 DEF TreeInv
<1>10. MakingInv'
    <2>1. \A h \in Procs : Unattached(h)' = Unattached(h)
        BY <1>2 DEF Unattached
    <2>2. ASSUME NEW h \in Procs
          PROVE  /\ Unattached(h) => /\ NotCancelling(h)' /\ NotCancelling(Watcher(making[h]))'
                                     /\ \A k \in Goroutines : at'[k][making[h]] = "off"
                 /\ step[h] = "unlock" =>
                        \A d \in Ctxs : at'[h][d] # "off" => making[h] <= d
        <3>1. making[h] # None => making[h] \in Ctxs
            BY <1>1 DEF TypeOK
        <3>2. Unattached(h) => making[h] \in Ctxs
            BY <1>1, <3>1 DEF MakingInv, Unattached
        <3>3. Unattached(h) => /\ NotCancelling(h) /\ NotCancelling(Watcher(making[h]))
                               /\ \A k \in Goroutines : at[k][making[h]] = "off"
            BY <1>1 DEF MakingInv
        <3>4. step[h] = "unlock" =>
                  \A d \in Ctxs : at[h][d] # "off" => making[h] <= d
            BY <1>1 DEF MakingInv
        <3> QED
            BY <1>2, <1>5, <1>7, <3>2, <3>3, <3>4, Names
    <2> QED
        BY <1>1, <1>2, <2>1, <2>2 DEF MakingInv
<1>11. ASSUME NEW d \in Ctxs PROVE OnceInv(d)'
    BY <1>1, <1>2, <1>7, Names DEF OnceInv
<1>12. LockInv'
    <2>1. ASSUME NEW h \in Goroutines, NEW d \in Ctxs PROVE PlaceInv(h, d)'
        <3>1. PlaceInv(h, d)
            BY <1>1 DEF LockInv
        <3>2. at'[h][d] = "children" => mu'[d] = h /\ err'[d] = cause'[h]
            <4>1. CASE h = g /\ d = c
                BY <1>3, <1>4, <4>1
            <4>2. CASE ~(h = g /\ d = c)
                <5>1. at'[h][d] = at[h][d]
                    BY <1>3, <4>2
                <5>2. at[h][d] = "children" => d # c
                    BY <1>2, <3>1, Names DEF PlaceInv
                <5> QED
                    BY <1>3, <1>4, <3>1, <5>1, <5>2, Names DEF PlaceInv
            <4> QED
                BY <4>1, <4>2
        <3>3. at'[h][d] \in {"remove", "stop"} => err'[d] # "nil" /\ ~Walking(d)'
            <4>1. at'[h][d] \in {"remove", "stop"} => at[h][d] \in {"remove", "stop"} /\ d # c
                BY <1>3, <3>1 DEF PlaceInv
            <4> QED
                BY <1>4, <1>6, <3>1, <4>1, Names DEF PlaceInv
        <3>4. at'[h][d] = "lock" =>
                  \/ cause'[h] = "Canceled"
                  \/ cause'[h] = "DeadlineExceeded" /\ d \in timed'
                  \/ parent'[d] \in Nodes /\ err'[parent'[d]] = cause'[h]
            BY <1>2, <1>3, <1>4, <1>5, <3>1 DEF PlaceInv
        <3> QED
            BY <3>2, <3>3, <3>4 DEF PlaceInv
    <2>2. ASSUME NEW h \in Procs, step'[h] = "unlock" PROVE mu'[parent'[making'[h]]] = h
        <3>1. mu[parent[making[h]]] = h /\ parent[making[h]] \in Ctxs /\ h # None
            BY <1>1, <1>2, <2>2, Names DEF LockInv, MakingInv
        <3> QED
            BY <1>2, <1>4, <3>1
    <2> QED
        BY <2>1, <2>2 DEF LockInv
<1>13. ChildrenInv'
    <2>1. \A h \in Procs : Unattached(h)' = Unattached(h)
        BY <1>2 DEF Unattached
    <2>2. ASSUME NEW d \in Ctxs, parent[d] \in Ctxs PROVE Attached(d)'
        <3>1. Attached(d)
            BY <1>1, <2>2 DEF ChildrenInv
        <3>2. CASE \E h \in Procs : making[h] = d /\ Unattached(h)
            BY <1>2, <2>1, <3>2 DEF Attached
        <3>3. CASE d \in children[parent[d]]
            BY <1>2, <3>3 DEF Attached
        <3>4. CASE err[d] # "nil" /\ ~Walking(d)
            <4>1. d # c
                BY <3>4
            <4> QED
                BY <1>4, <1>6, <3>4, <4>1, Names DEF Attached
        <3>5. ASSUME NEW h \in Goroutines, at[h][d] \in {"lock", "children"},
                     at[h][parent[d]] = "children" \/ (h \in Procs /\ making[h] = d)
              PROVE  Attached(d)'
            <4>1. at'[h][d] \in {"lock", "children"}
                BY <1>3, <3>5
            <4>2. at'[h][parent[d]] = "children" \/ (h \in Procs /\ making'[h] = d)
                BY <1>2, <1>5, <2>2, <3>5
            <4> QED
                BY <1>2, <4>1, <4>2 DEF Attached
        <3> QED
            BY <3>1, <3>2, <3>3, <3>4, <3>5 DEF Attached
    <2>3. \A d \in Ctxs : err'[d] # "nil" /\ ~Walking(d)' => children'[d] = {}
        BY <1>1, <1>2, <1>4, <1>6, <1>8, Names DEF ChildrenInv
    <2> QED
        BY <1>1, <1>2, <2>1, <2>2, <2>3 DEF ChildrenInv
<1>14. ASSUME NEW d \in Ctxs PROVE ReleaseInv(d)'
    <2>1. ReleaseInv(d) /\ d \in Nodes
        BY <1>1, Names
    <2>2. \A h \in Goroutines :
              (/\ at'[h][d] = "lock" /\ err'[d] = "nil" /\ parent'[d] \in Ctxs
               /\ d \in children'[parent'[d]]) => top'[h] = d
        BY <1>2, <1>3, <1>4, <1>5, <2>1 DEF ReleaseInv
    <2>3. (/\ parent'[d] \in Ctxs /\ d \in children'[parent'[d]]
           /\ err'[d] # "nil" /\ err'[parent'[d]] = "nil") =>
              \E h \in Goroutines :
                 (at'[h][d] = "children" /\ top'[h] = d) \/ at'[h][d] = "remove"
        <3> SUFFICES ASSUME parent[d] \in Ctxs, d \in children[parent[d]],
                            err'[d] # "nil", err'[parent[d]] = "nil"
                     PROVE  \E h \in Goroutines :
                               (at'[h][d] = "children" /\ top'[h] = d) \/ at'[h][d] = "remove"
            BY <1>2
        <3>1. err[parent[d]] = "nil"
            BY <1>4, Names
        <3>2. CASE d = c
            <4>1. top[g] = c
                BY <1>2, <2>1, <3>2 DEF ReleaseInv
            <4> QED
                BY <1>3, <3>2, <4>1
        <3>3. CASE d # c
            <4>1. PICK h \in Goroutines :
                      (at[h][d] = "children" /\ top[h] = d) \/ at[h][d] = "remove"
                BY <1>4, <2>1, <3>1, <3>3 DEF ReleaseInv
            <4> QED
                BY <1>3, <3>3, <4>1
        <3> QED
            BY <3>2, <3>3
    <2>4. timer'[d] = "armed" /\ err'[d] # "nil" =>
              \E h \in Goroutines : at'[h][d] \in {"children", "remove", "stop"}
        <3>1. CASE d = c
            BY <1>3, <3>1
        <3>2. CASE d # c
            BY <1>2, <1>3, <1>4, <2>1, <3>2 DEF ReleaseInv
        <3> QED
            BY <3>1, <3>2
    <2>5. Closed(d)' => err'[d] # "nil"
        BY <1>4, <2>1 DEF ReleaseInv, Closed
    <2>6. d \in expired' /\ timer'[d] = "nil" /\ err'[d] = "nil" =>
              \E h \in Procs : making'[h] = d /\ step'[h] = "return" /\ at'[h][d] = "lock"
        <3> SUFFICES ASSUME d \in expired, timer[d] = "nil", err'[d] = "nil"
                     PROVE  \E h \in Procs : making[h] = d /\ step[h] = "return"
                                             /\ at'[h][d] = "lock"
            BY <1>2
        <3>1. d # c /\ err[d] = "nil"
            BY <1>4, <2>1
        <3>2. PICK h \in Procs : making[h] = d /\ step[h] = "return" /\ at[h][d] = "lock"
            BY <2>1, <3>1 DEF ReleaseInv
        <3> QED
            BY <1>3, <3>1, <3>2, Names
    <2> QED
        BY <2>2, <2>3, <2>4, <2>5, <2>6 DEF ReleaseInv
<1> QED
    BY <1>3, <1>9, <1>10, <1>11, <1>12, <1>13, <1>14 DEF IInv

LEMMA LockKeeps ==
    ASSUME IInv, TypeOK', NEW g \in Goroutines, NEW c \in Ctxs, Lock(g, c)
    PROVE  IInv'
<1>1. CASE err[c] = "nil"
    BY <1>1, LockFirst
<1>2. CASE err[c] # "nil"
    <2>1. TypeOK /\ LockInv /\ OnceInv(c)
        BY Parts
    <2>2. ~Walking(c)
        BY <2>1, Names DEF LockInv, PlaceInv, Walking, Lock, Free
    <2>3. PICK where \in {"off", "remove", "stop"} : Go(g, c, where)
        BY <1>2, AfterWalkIs DEF Lock
    <2>4. at[g][c] = "lock"
          /\ UNCHANGED <<treeVars, err, done, mu, children, timer, expired, watch, callVars>>
        BY <1>2 DEF Lock
    <2>5. \A d \in Ctxs :
              /\ children'[d] \subseteq children[d] /\ children[d] \ {c} \subseteq children'[d]
              /\ timer'[d] = timer[d] \/ (timer[d] # "nil" /\ timer'[d] = "stopped")
        BY <2>4
    <2> QED
        BY <1>2, <2>2, <2>3, <2>4, <2>5, EndedGo
<1> QED
    BY <1>1, <1>2

(* removeChild finds the parent in whose list the context is, unless that  *)
(* has ended.                                                              *)
LEMMA RemoveChildKeeps ==
    ASSUME IInv, TypeOK', NEW g \in Goroutines, NEW c \in Ctxs, removeChild(g, c)
    PROVE  IInv'
<1>1. TypeOK /\ LockInv /\ OnceInv(c) /\ \A d \in Ctxs : ReleaseInv(d)
    BY Parts
<1>2. at[g][c] = "remove" /\ err[c] # "nil" /\ ~Walking(c)
    BY <1>1 DEF removeChild, LockInv, PlaceInv
<1>3. PICK where \in {"off", "stop"} : Go(g, c, where) /\ (c \in timed => where = "stop")
    BY DEF removeChild
<1>4. \A d \in Ctxs :
          children'[d] \subseteq children[d] /\ children[d] \ {c} \subseteq children'[d]
    <2>1. children \in [Ctxs -> SUBSET Ctxs]
        BY <1>1 DEF TypeOK
    <2>2. children' = children
          \/ \E p \in Ctxs : children' = [children EXCEPT ![p] = children[p] \ {c}]
        BY DEF removeChild
    <2> QED
        BY <2>1, <2>2
<1>5. parent[c] \in Ctxs /\ err[parent[c]] = "nil" => c \notin children'[parent[c]]
    BY <1>1 DEF removeChild, TypeOK, ReleaseInv, Closed
<1>6. UNCHANGED <<treeVars, err, done, mu, timer, expired, watch, callVars>>
    BY DEF removeChild
<1>7. timer'[c] = "armed" => where = "stop"
    BY <1>1, <1>3, <1>6 DEF OnceInv
<1> QED
    BY <1>2, <1>3, <1>4, <1>5, <1>6, <1>7, EndedGo

LEMMA StopTimerKeeps ==
    ASSUME IInv, TypeOK', NEW g \in Goroutines, NEW c \in Ctxs, StopTimer(g, c)
    PROVE  IInv'
<1>1. TypeOK /\ LockInv
    BY Parts
<1>2. at[g][c] = "stop" /\ err[c] # "nil" /\ ~Walking(c)
    BY <1>1 DEF StopTimer, LockInv, PlaceInv
<1>3. /\ \A d \in Ctxs : timer'[d] = timer[d] \/ (timer[d] # "nil" /\ timer'[d] = "stopped")
      /\ timer'[c] # "armed"
    BY <1>1 DEF StopTimer, TypeOK
<1>4. UNCHANGED <<treeVars, err, done, mu, children, expired, watch, callVars>>
      /\ Go(g, c, "off")
    BY DEF StopTimer
<1> QED
    BY <1>2, <1>3, <1>4, EndedGo

(* A child leaves the list for the head of the walk.                       *)
LEMMA CancelChildKeeps ==
    ASSUME IInv, TypeOK', NEW g \in Goroutines, NEW c \in Ctxs, CancelChild(g, c)
    PROVE  IInv'
<1> USE DEF treeVars, callVars
<1>1. /\ TypeOK /\ TreeInv /\ MakingInv /\ LockInv /\ ChildrenInv
      /\ \A h \in Goroutines : PathInv(h)
      /\ \A d \in Ctxs : OnceInv(d) /\ ReleaseInv(d)
    BY Parts
<1>2. /\ at[g][c] = "children" /\ \A d \in Ctxs : parent[d] = c => at[g][d] = "off"
      /\ UNCHANGED <<treeVars, err, done, mu, timer, expired, watch, callVars, cause, top>>
    BY DEF CancelChild, InnermostAt
<1>3. PICK n \in children[c] : /\ children' = [children EXCEPT ![c] = @ \ {n}]
                               /\ at' = [at EXCEPT ![g][n] = "lock"]
    BY DEF CancelChild
<1>4. n \in Ctxs /\ parent[n] = c /\ c < n /\ at[g][n] = "off"
      /\ \A h \in Procs : making[h] = n => ~Unattached(h)
    BY <1>1, <1>2, <1>3 DEF TypeOK, ChildrenInv, TreeInv
<1>5. /\ \A h \in Goroutines, d \in Ctxs :
            at'[h][d] = IF h = g /\ d = n THEN "lock" ELSE at[h][d]
      /\ \A d \in Ctxs : children'[d] = IF d = c THEN children[c] \ {n} ELSE children[d]
    BY <1>1, <1>3, <1>4 DEF TypeOK
<1>6. \A h \in Goroutines, d \in Ctxs :
          /\ at'[h][d] = "children" <=> at[h][d] = "children"
          /\ at[h][d] # "off" => at'[h][d] = at[h][d]
    BY <1>4, <1>5
<1>7. \A d \in Ctxs : Walking(d)' <=> Walking(d)
    BY <1>6 DEF Walking
<1>8. ~NotCancelling(g)
    BY <1>2 DEF NotCancelling
<1>9. \A h \in Goroutines : NotCancelling(h) <=> NotCancelling(h)'
    BY <1>2, <1>4, <1>5, <1>6, <1>8 DEF NotCancelling
<1>10. TreeInv'
    BY <1>1, <1>2 DEF TreeInv
<1>11. \A h \in Goroutines : PathInv(h)'
    BY PathChild
<1>12. MakingInv'
    <2>1. \A h \in Procs : Unattached(h)' = Unattached(h)
        BY <1>2 DEF Unattached
    <2>2. ASSUME NEW h \in Procs
          PROVE  /\ Unattached(h) => /\ NotCancelling(h)' /\ NotCancelling(Watcher(making[h]))'
                                     /\ \A k \in Goroutines : at'[k][making[h]] = "off"
                 /\ step[h] = "unlock" =>
                        \A d \in Ctxs : at'[h][d] # "off" => making[h] <= d
        <3>1. making[h] # None => making[h] \in Ctxs
            BY <1>1 DEF TypeOK
        <3>2. Unattached(h) => making[h] \in Ctxs
            BY <1>1, <3>1 DEF MakingInv, Unattached
        <3>3. Unattached(h) => /\ NotCancelling(h) /\ NotCancelling(Watcher(making[h]))
                               /\ \A k \in Goroutines : at[k][making[h]] = "off"
            BY <1>1 DEF MakingInv
        <3>4. Unattached(h) => making[h] # n
            BY <1>4
        <3>5. Unattached(h) => /\ NotCancelling(h)' /\ NotCancelling(Watcher(making[h]))'
                               /\ \A k \in Goroutines : at'[k][making[h]] = "off"
            BY <1>2, <1>5, <1>9, <3>2, <3>3, <3>4, Names
        <3>6. step[h] = "unlock" =>
                  /\ \A d \in Ctxs : at[h][d] # "off" => making[h] <= d
                  /\ making[h] \in Ctxs
            BY <1>1, <3>1 DEF MakingInv
        <3>7. step[h] = "unlock" => \A d \in Ctxs : at'[h][d] # "off" => making[h] <= d
            <4>1. h = g /\ step[h] = "unlock" => making[h] <= c
                BY <1>2, <3>6
            <4>2. h = g /\ step[h] = "unlock" => making[h] <= n
                BY <1>4, <3>6, <4>1 DEF Ctxs
            <4> QED
                BY <1>5, <3>6, <4>2, Names
        <3> QED
            BY <3>5, <3>7
    <2> QED
        BY <1>1, <1>2, <2>1, <2>2 DEF MakingInv
<1>13. ASSUME NEW d \in Ctxs PROVE OnceInv(d)'
    BY <1>1, <1>2, <1>9, Names DEF OnceInv
<1>14. LockInv'
    <2>1. ASSUME NEW h \in Goroutines, NEW d \in Ctxs PROVE PlaceInv(h, d)'
        <3>1. PlaceInv(h, d) /\ PlaceInv(g, c)
            BY <1>1 DEF LockInv
        <3>2. CASE h = g /\ d = n
            BY <1>2, <1>4, <1>5, <3>1, <3>2, Names DEF PlaceInv
        <3>3. CASE ~(h = g /\ d = n)
            BY <1>2, <1>5, <1>7, <3>1, <3>3 DEF PlaceInv
        <3> QED
            BY <3>2, <3>3
    <2> QED
        BY <1>1, <1>2, <2>1 DEF LockInv
<1>15. ChildrenInv'
    <2>1. \A h \in Procs : Unattached(h)' = Unattached(h)
        BY <1>2 DEF Unattached
    <2>2. ASSUME NEW d \in Ctxs, parent[d] \in Ctxs PROVE Attached(d)'
        <3>1. Attached(d)
            BY <1>1, <2>2 DEF ChildrenInv
        <3>2. CASE \E h \in Procs : making[h] = d /\ Unattached(h)
            BY <1>2, <2>1, <3>2 DEF Attached
        <3>3. CASE d \in children[parent[d]]
            <4>1. CASE d = n
                BY <1>2, <1>4, <1>5, <4>1 DEF Attached
            <4>2. CASE d # n
                BY <1>2, <1>5, <2>2, <3>3, <4>2 DEF Attached
            <4> QED
                BY <4>1, <4>2
        <3>4. CASE err[d] # "nil" /\ ~Walking(d)
            BY <1>2, <1>7, <3>4 DEF Attached
        <3>5. ASSUME NEW h \in Goroutines, at[h][d] \in {"lock", "children"},
                     at[h][parent[d]] = "children" \/ (h \in Procs /\ making[h] = d)
              PROVE  Attached(d)'
            <4>1. at'[h][d] \in {"lock", "children"}
                BY <1>6, <3>5
            <4>2. at'[h][parent[d]] = "children" \/ (h \in Procs /\ making'[h] = d)
                BY <1>2, <1>6, <2>2, <3>5
            <4> QED
                BY <1>2, <4>1, <4>2 DEF Attached
        <3> QED
            BY <3>1, <3>2, <3>3, <3>4, <3>5 DEF Attached
    <2>3. \A d \in Ctxs : children'[d] \subseteq children[d]
        BY <1>5
    <2>5. \A d \in Ctxs : children[d] \subseteq Ctxs
        BY <1>1 DEF TypeOK
    <2>4. \A d \in Ctxs : err'[d] # "nil" /\ ~Walking(d)' => children'[d] = {}
        BY <1>1, <1>2, <1>7, <2>3 DEF ChildrenInv
    <2> QED
        BY <1>1, <1>2, <2>1, <2>2, <2>3, <2>4, <2>5 DEF ChildrenInv
<1>16. ASSUME NEW d \in Ctxs PROVE ReleaseInv(d)'
    <2>1. ReleaseInv(d)
        BY <1>1
    <2>2. \A h \in Goroutines :
              (/\ at'[h][d] = "lock" /\ err'[d] = "nil" /\ parent'[d] \in Ctxs
               /\ d \in children'[parent'[d]]) => top'[h] = d
        <3>1. d \in children'[parent'[d]] /\ parent'[d] \in Ctxs =>
                  d # n /\ d \in children[parent[d]]
            BY <1>2, <1>4, <1>5
        <3> QED
            BY <1>2, <1>5, <2>1, <3>1 DEF ReleaseInv
    <2>3. (/\ parent'[d] \in Ctxs /\ d \in children'[parent'[d]]
           /\ err'[d] # "nil" /\ err'[parent'[d]] = "nil") =>
              \E h \in Goroutines :
                 (at'[h][d] = "children" /\ top'[h] = d) \/ at'[h][d] = "remove"
        BY <1>2, <1>5, <1>6, <2>1 DEF ReleaseInv
    <2>4. timer'[d] = "armed" /\ err'[d] # "nil" =>
              \E h \in Goroutines : at'[h][d] \in {"children", "remove", "stop"}
        BY <1>2, <1>6, <2>1 DEF ReleaseInv
    <2>5. Closed(d)' => err'[d] # "nil"
        BY <1>2, <2>1 DEF ReleaseInv, Closed
    <2>6. d \in expired' /\ timer'[d] = "nil" /\ err'[d] = "nil" =>
              \E h \in Procs : making'[h] = d /\ step'[h] = "return" /\ at'[h][d] = "lock"
        <3> SUFFICES ASSUME d \in expired, timer[d] = "nil", err[d] = "nil"
                     PROVE  \E h \in Procs : making[h] = d /\ step[h] = "return"
                                             /\ at'[h][d] = "lock"
            BY <1>2
        <3>1. PICK h \in Procs : making[h] = d /\ step[h] = "return" /\ at[h][d] = "lock"
            BY <2>1 DEF ReleaseInv
        <3> QED
            BY <1>6, <3>1, Names
    <2> QED
        BY <2>2, <2>3, <2>4, <2>5, <2>6 DEF ReleaseInv
<1> QED
    BY <1>10, <1>11, <1>12, <1>13, <1>14, <1>15, <1>16 DEF IInv

(* The walk below a context is over: all that was in its list has been     *)
(* waited for.                                                             *)
LEMMA ChildrenDoneKeeps ==
    ASSUME IInv, TypeOK', NEW g \in Goroutines, NEW c \in Ctxs, ChildrenDone(g, c)
    PROVE  IInv'
<1> USE DEF treeVars, callVars
<1>1. /\ TypeOK /\ TreeInv /\ MakingInv /\ LockInv /\ ChildrenInv
      /\ \A h \in Goroutines : PathInv(h)
      /\ \A d \in Ctxs : OnceInv(d) /\ ReleaseInv(d)
    BY Parts
<1>2. /\ InnermostAt(g, c, "children") /\ children[c] = {}
      /\ at[g][c] = "children" /\ \A d \in Ctxs : parent[d] = c => at[g][d] = "off"
      /\ mu' = [mu EXCEPT ![c] = None]
      /\ UNCHANGED <<treeVars, err, done, children, timer, expired, watch, callVars>>
    BY DEF ChildrenDone, InnermostAt
<1>3. PICK where \in {"off", "remove", "stop"} :
          /\ Go(g, c, where)
          /\ top[g] = c => where = "remove"
          /\ c \in timed => where # "off"
    BY AfterWalkIs DEF ChildrenDone, AfterWalk
<1>4. /\ \A h \in Goroutines, d \in Ctxs :
            /\ at'[h][d] = IF h = g /\ d = c THEN where ELSE at[h][d]
            /\ at'[h][d] # "off" => cause'[h] = cause[h] /\ top'[h] = top[h]
      /\ \A h \in Goroutines : PathInv(h)'
    BY <1>2, <1>3, GoKeeps
<1>5. /\ mu[c] = g /\ err[c] # "nil" /\ err[c] = cause[g]
      /\ \A h \in Goroutines : at[h][c] = "children" => h = g
      /\ \A d \in Ctxs : mu'[d] = IF d = c THEN None ELSE mu[d]
    BY <1>1, <1>2 DEF LockInv, PlaceInv, PathInv, TypeOK
<1>6. \A h \in Goroutines, d \in Ctxs :
          /\ at[h][d] = "off" => at'[h][d] = "off"
          /\ at'[h][d] = "children" => at[h][d] = "children" /\ d # c
          /\ at'[h][d] = "lock" <=> at[h][d] = "lock"
    BY <1>2, <1>4, <1>5
<1>7. /\ \A d \in Ctxs : Walking(d)' => Walking(d)
      /\ \A d \in Ctxs : d # c => (Walking(d)' <=> Walking(d))
      /\ ~Walking(c)'
    BY <1>4, <1>6 DEF Walking
<1>8. \A h \in Goroutines : NotCancelling(h) => NotCancelling(h)'
    BY <1>6 DEF NotCancelling
<1>9. TreeInv'
    BY <1>1, <1>2 DEF TreeInv
<1>10. MakingInv'
    <2>1. \A h \in Procs : Unattached(h)' = Unattached(h)
        BY <1>2 DEF Unattached
    <2>2. ASSUME NEW h \in Procs
          PROVE  /\ Unattached(h) => /\ NotCancelling(h)' /\ NotCancelling(Watcher(making[h]))'
                                     /\ \A k \in Goroutines : at'[k][making[h]] = "off"
                 /\ step[h] = "unlock" =>
                        \A d \in Ctxs : at'[h][d] # "off" => making[h] <= d
        <3>1. making[h] # None => making[h] \in Ctxs
            BY <1>1 DEF TypeOK
        <3>2. Unattached(h) => making[h] \in Ctxs
            BY <1>1, <3>1 DEF MakingInv, Unattached
        <3>3. Unattached(h) => /\ NotCancelling(h) /\ NotCancelling(Watcher(making[h]))
                               /\ \A k \in Goroutines : at[k][making[h]] = "off"
            BY <1>1 DEF MakingInv
        <3>4. step[h] = "unlock" =>
                  \A d \in Ctxs : at[h][d] # "off" => making[h] <= d
            BY <1>1 DEF MakingInv
        <3> QED
            BY <1>2, <1>6, <1>8, <3>2, <3>3, <3>4, Names
    <2> QED
        BY <1>1, <1>2, <2>1, <2>2 DEF MakingInv
<1>11. ASSUME NEW d \in Ctxs PROVE OnceInv(d)'
    BY <1>1, <1>2, <1>8, Names DEF OnceInv
<1>12. LockInv'
    <2>1. ASSUME NEW h \in Goroutines, NEW d \in Ctxs PROVE PlaceInv(h, d)'
        <3>1. PlaceInv(h, d)
            BY <1>1 DEF LockInv
        <3>2. CASE h = g /\ d = c
            BY <1>2, <1>4, <1>5, <1>7, <3>2 DEF PlaceInv
        <3>3. CASE ~(h = g /\ d = c)
            <4>1. at'[h][d] = at[h][d]
                BY <1>4, <3>3
            <4>2. at[h][d] = "children" => d # c
                BY <1>5, <3>3
            <4> QED
                BY <1>2, <1>4, <1>5, <1>7, <3>1, <4>1, <4>2 DEF PlaceInv
        <3> QED
            BY <3>2, <3>3
    <2>2. ASSUME NEW h \in Procs, step'[h] = "unlock" PROVE mu'[parent'[making'[h]]] = h
        <3>1. /\ mu[parent[making[h]]] = h /\ parent[making[h]] \in Ctxs /\ making[h] \in Ctxs
              /\ \A d \in Ctxs : at[h][d] # "off" => making[h] <= d
              /\ h \in Goroutines
            BY <1>1, <1>2, <2>2, Names DEF LockInv, MakingInv, TypeOK
        <3>2. parent[making[h]] < making[h]
            BY <1>1, <3>1 DEF TreeInv
        <3>3. parent[making[h]] # c
            <4> SUFFICES ASSUME parent[making[h]] = c PROVE FALSE
                OBVIOUS
            <4>1. h = g
                BY <1>5, <3>1
            <4>2. making[h] <= c
                BY <1>2, <3>1, <4>1
            <4> QED
                BY <3>1, <3>2, <4>2 DEF Ctxs
        <3> QED
            BY <1>2, <1>5, <3>1, <3>3
    <2> QED
        BY <2>1, <2>2 DEF LockInv
<1>13. ChildrenInv'
    <2>1. \A h \in Procs : Unattached(h)' = Unattached(h)
        BY <1>2 DEF Unattached
    <2>2. ASSUME NEW d \in Ctxs, parent[d] \in Ctxs PROVE Attached(d)'
        <3>1. Attached(d)
            BY <1>1, <2>2 DEF ChildrenInv
        <3>2. CASE \E h \in Procs : making[h] = d /\ Unattached(h)
            BY <1>2, <2>1, <3>2 DEF Attached
        <3>3. CASE d \in children[parent[d]]
            BY <1>2, <3>3 DEF Attached
        <3>4. CASE err[d] # "nil" /\ ~Walking(d)
            BY <1>2, <1>7, <3>4 DEF Attached
        <3>5. ASSUME NEW h \in Goroutines, at[h][d] \in {"lock", "children"},
                     at[h][parent[d]] = "children" \/ (h \in Procs /\ making[h] = d)
              PROVE  Attached(d)'
            <4>1. CASE d = c
                BY <1>2, <1>5, <1>7, <4>1 DEF Attached
            <4>2. CASE d # c
                <5>1. at'[h][d] \in {"lock", "children"}
                    BY <1>4, <3>5, <4>2
                <5>2. at[h][parent[d]] = "children" => ~(h = g /\ parent[d] = c)
                    BY <1>2, <3>5
                <5>3. at'[h][parent[d]] = "children" \/ (h \in Procs /\ making'[h] = d)
                    BY <1>2, <1>4, <2>2, <3>5, <5>2
                <5> QED
                    BY <1>2, <5>1, <5>3 DEF Attached
            <4> QED
                BY <4>1, <4>2
        <3> QED
            BY <3>1, <3>2, <3>3, <3>4, <3>5 DEF Attached
    <2>3. \A d \in Ctxs : err'[d] # "nil" /\ ~Walking(d)' => children'[d] = {}
        BY <1>1, <1>2, <1>7 DEF ChildrenInv
    <2> QED
        BY <1>1, <1>2, <2>1, <2>2, <2>3 DEF ChildrenInv
<1>14. ASSUME NEW d \in Ctxs PROVE ReleaseInv(d)'
    <2>1. ReleaseInv(d) /\ OnceInv(d)
        BY <1>1
    <2>2. \A h \in Goroutines :
              (/\ at'[h][d] = "lock" /\ err'[d] = "nil" /\ parent'[d] \in Ctxs
               /\ d \in children'[parent'[d]]) => top'[h] = d
        BY <1>2, <1>4, <1>6, <2>1 DEF ReleaseInv
    <2>3. (/\ parent'[d] \in Ctxs /\ d \in children'[parent'[d]]
           /\ err'[d] # "nil" /\ err'[parent'[d]] = "nil") =>
              \E h \in Goroutines :
                 (at'[h][d] = "children" /\ top'[h] = d) \/ at'[h][d] = "remove"
        <3> SUFFICES ASSUME parent[d] \in Ctxs, d \in children[parent[d]],
                            err[d] # "nil", err[parent[d]] = "nil"
                     PROVE  \E h \in Goroutines :
                               (at'[h][d] = "children" /\ top'[h] = d) \/ at'[h][d] = "remove"
            BY <1>2
        <3>1. PICK h \in Goroutines :
                  (at[h][d] = "children" /\ top[h] = d) \/ at[h][d] = "remove"
            BY <2>1 DEF ReleaseInv
        <3>2. CASE h = g /\ d = c
            BY <1>2, <1>3, <1>4, <3>1, <3>2
        <3>3. CASE ~(h = g /\ d = c)
            BY <1>4, <3>1, <3>3
        <3> QED
            BY <3>2, <3>3
    <2>4. timer'[d] = "armed" /\ err'[d] # "nil" =>
              \E h \in Goroutines : at'[h][d] \in {"children", "remove", "stop"}
        <3> SUFFICES ASSUME timer[d] = "armed", err[d] # "nil"
                     PROVE  \E h \in Goroutines : at'[h][d] \in {"children", "remove", "stop"}
            BY <1>2
        <3>1. d \in timed
            BY <2>1 DEF OnceInv
        <3>2. PICK h \in Goroutines : at[h][d] \in {"children", "remove", "stop"}
            BY <2>1 DEF ReleaseInv
        <3> QED
            BY <1>3, <1>4, <3>1, <3>2
    <2>5. Closed(d)' => err'[d] # "nil"
        BY <1>2, <2>1 DEF ReleaseInv, Closed
    <2>6. d \in expired' /\ timer'[d] = "nil" /\ err'[d] = "nil" =>
              \E h \in Procs : making'[h] = d /\ step'[h] = "return" /\ at'[h][d] = "lock"
        <3> SUFFICES ASSUME d \in expired, timer[d] = "nil", err[d] = "nil"
                     PROVE  \E h \in Procs : making[h] = d /\ step[h] = "return"
                                             /\ at'[h][d] = "lock"
            BY <1>2
        <3>1. PICK h \in Procs : making[h] = d /\ step[h] = "return" /\ at[h][d] = "lock"
            BY <2>1 DEF ReleaseInv
        <3> QED
            BY <1>6, <3>1, Names
    <2> QED
        BY <2>2, <2>3, <2>4, <2>5, <2>6 DEF ReleaseInv
<1> QED
    BY <1>4, <1>9, <1>10, <1>11, <1>12, <1>13, <1>14 DEF IInv

-----------------------------------------------------------------------------
(* The calls of cancel.                                                    *)

(* A goroutine begins a cancel: a maker of the context, a user, its timer  *)
(* or its watcher.  It has a reason ...                                    *)
Reason(c, why) ==
    \/ why = "Canceled" \/ (why = "DeadlineExceeded" /\ c \in timed)
    \/ (parent[c] \in Nodes /\ err[parent[c]] = why)

\* ... a maker leaves off attaching the context ...
MakerCalls(g, c) ==
    /\ \A d \in Ctxs : mu'[d] = mu[d] \/ mu[d] = None
    /\ \A h \in Procs : \/ step'[h] = step[h]
                        \/ /\ h = g /\ making[g] = c
                           /\ step[g] \in {"done", "attach", "start"}
                           /\ step'[g] \in {"start", "unlock", "return"}
    /\ \A h \in Procs : step'[h] \in {"done", "attach"} => h # g /\ making[h] # c
    /\ \A h \in Procs : step'[h] = "unlock" =>
          \/ h # g
          \/ making[g] = c /\ parent[c] \in Ctxs /\ mu'[parent[c]] = g

\* ... and a timer and a watcher have done what they are for.
OthersCall(g, c) ==
    /\ g \in Procs \/ g = Timer(c) \/ g = Watcher(c)
    /\ \A d \in Ctxs : timer'[d] = timer[d] \/ (timer[d] = "armed" /\ timer'[d] = "fired")
    /\ g = Timer(c) => timer'[c] = "fired"
    /\ \A d \in Ctxs : watch'[d] = watch[d] \/ watch'[d] = "off"
    /\ g = Watcher(c) => watch'[c] = "off"
    /\ \A d \in Ctxs : d \in expired' /\ timer'[d] = "nil" =>
          \/ d \in expired /\ timer[d] = "nil"
          \/ d = c /\ g \in Procs /\ making[g] = c /\ step'[g] = "return"

LEMMA CallKeeps ==
    ASSUME IInv, TypeOK', NEW g \in Goroutines, NEW c \in Ctxs, NEW why \in Errs,
           NEW remove, Call(g, c, why, remove), NotCancelling(g), parent[c] # None,
           UNCHANGED <<treeVars, err, done, children, making>>,
           Reason(c, why), MakerCalls(g, c), OthersCall(g, c),
           err[c] = "nil" /\ parent[c] \in Ctxs /\ c \in children[parent[c]] => remove
    PROVE  IInv'
<1> USE DEF Reason, MakerCalls, OthersCall
<1> USE DEF treeVars
<1>1. /\ TypeOK /\ TreeInv /\ MakingInv /\ LockInv /\ ChildrenInv
      /\ \A h \in Goroutines : PathInv(h)
      /\ \A d \in Ctxs : OnceInv(d) /\ ReleaseInv(d)
    BY Parts
<1>2. \A d \in Ctxs : at[g][d] = "off"
    BY DEF NotCancelling
<1>3. /\ \A h \in Goroutines, d \in Ctxs :
            at'[h][d] = IF h = g /\ d = c THEN "lock" ELSE at[h][d]
      /\ \A h \in Goroutines :
            /\ cause'[h] = IF h = g THEN why ELSE cause[h]
            /\ h # g => top'[h] = top[h]
      /\ remove => top'[g] = c
    BY <1>1, CallIs
<1>4. \A h \in Goroutines : PathInv(h)'
    BY PathCall
<1>5. \A h \in Goroutines, d \in Ctxs :
          /\ at[h][d] # "off" => h # g /\ at'[h][d] = at[h][d] /\ top'[h] = top[h]
          /\ at'[h][d] = "children" <=> at[h][d] = "children"
    BY <1>2, <1>3
<1>6. \A d \in Ctxs : Walking(d)' <=> Walking(d)
    BY <1>5 DEF Walking
<1>7. \A h \in Goroutines : h # g => (NotCancelling(h)' <=> NotCancelling(h))
    BY <1>3 DEF NotCancelling
<1>8. \A h \in Procs : Unattached(h)' => Unattached(h) /\ h # g /\ making[h] # c
    BY DEF Unattached
<1>9. TreeInv'
    BY <1>1 DEF TreeInv
<1>10. MakingInv'
    <2>1. \A h \in Procs : /\ step'[h] = "off" <=> step[h] = "off"
                           /\ step'[h] = "unlock" => step[h] = "unlock" \/ h = g
        OBVIOUS
    <2>2. ASSUME NEW h \in Procs
          PROVE  /\ making[h] # None => timer'[making[h]] = "nil"
                 /\ Unattached(h)' =>
                       /\ NotCancelling(h)' /\ NotCancelling(Watcher(making[h]))'
                       /\ watch'[making[h]] = "off"
                       /\ \A k \in Goroutines : at'[k][making[h]] = "off"
                 /\ step'[h] = "unlock" =>
                       /\ parent[making[h]] \in Ctxs
                       /\ \A d \in Ctxs : at'[h][d] # "off" => making[h] <= d
        <3>1. making[h] # None => making[h] \in Ctxs
            BY <1>1 DEF TypeOK
        <3>2. making[h] # None => timer'[making[h]] = "nil"
            BY <1>1, <3>1 DEF MakingInv
        <3>3. ASSUME Unattached(h)'
              PROVE  /\ NotCancelling(h)' /\ NotCancelling(Watcher(making[h]))'
                     /\ watch'[making[h]] = "off"
                     /\ \A k \in Goroutines : at'[k][making[h]] = "off"
            <4>1. Unattached(h) /\ h # g /\ making[h] # c /\ h \in Goroutines
                BY <1>8, <3>3, Names
            <4>2. making[h] \in Ctxs
                BY <1>1, <3>1, <4>1 DEF MakingInv, Unattached
            <4>3. Watcher(making[h]) # g /\ Watcher(making[h]) \in Goroutines
                BY <4>1, <4>2, Names
            <4>4. /\ NotCancelling(h) /\ NotCancelling(Watcher(making[h]))
                  /\ watch[making[h]] = "off"
                  /\ \A k \in Goroutines : at[k][making[h]] = "off"
                BY <1>1, <4>1 DEF MakingInv
            <4>5. \A k \in Goroutines : at'[k][making[h]] = "off"
                BY <1>3, <4>1, <4>2, <4>4
            <4>6. NotCancelling(Watcher(making[h]))'
                BY <1>3, <4>3, <4>4 DEF NotCancelling
            <4> QED
                BY <1>7, <4>1, <4>2, <4>4, <4>5, <4>6
        <3>4. ASSUME step'[h] = "unlock"
              PROVE  /\ parent[making[h]] \in Ctxs
                     /\ \A d \in Ctxs : at'[h][d] # "off" => making[h] <= d
            <4>1. CASE h = g
                BY <1>2, <1>3, <3>4, <4>1 DEF Ctxs
            <4>2. CASE h # g
                BY <1>1, <1>3, <3>4, <4>2, Names DEF MakingInv
            <4> QED
                BY <4>1, <4>2
        <3> QED
            BY <3>2, <3>3, <3>4
    <2> QED
        BY <1>1, <1>8, <2>1, <2>2 DEF MakingInv
<1>11. ASSUME NEW d \in Ctxs PROVE OnceInv(d)'
    <2>1. OnceInv(d)
        BY <1>1
    <2>2. timer'[d] \in {"nil", "armed"} => NotCancelling(Timer(d))'
        <3>1. timer'[d] \in {"nil", "armed"} => Timer(d) # g /\ timer[d] = timer'[d]
            BY Names
        <3>2. timer'[d] \in {"nil", "armed"} => NotCancelling(Timer(d))
            BY <2>1, <3>1 DEF OnceInv
        <3> QED
            BY <1>3, <3>1, <3>2, Names DEF NotCancelling
    <2>3. watch'[d] # "off" => NotCancelling(Watcher(d))' /\ parent[d] \in Customs
        <3>1. watch'[d] # "off" => Watcher(d) # g /\ watch[d] # "off"
            BY Names
        <3>2. watch'[d] # "off" => NotCancelling(Watcher(d)) /\ parent[d] \in Customs
            BY <2>1, <3>1 DEF OnceInv
        <3> QED
            BY <1>3, <3>1, <3>2, Names DEF NotCancelling
    <2>4. ~NotCancelling(Watcher(d))' => parent[d] # None
        <3>1. CASE g = Watcher(d)
            BY <3>1, Names
        <3>2. CASE g # Watcher(d)
            BY <1>3, <2>1, <3>2, Names DEF OnceInv, NotCancelling
        <3> QED
            BY <3>1, <3>2
    <2>5. timer'[d] = "armed" => d \in timed
        BY <2>1 DEF OnceInv
    <2> QED
        BY <2>2, <2>3, <2>4, <2>5 DEF OnceInv
<1>12. LockInv'
    <2>1. ASSUME NEW h \in Goroutines, NEW d \in Ctxs PROVE PlaceInv(h, d)'
        <3>1. PlaceInv(h, d)
            BY <1>1 DEF LockInv
        <3>2. CASE h = g /\ d = c
            BY <1>3, <3>2 DEF PlaceInv
        <3>3. CASE ~(h = g /\ d = c)
            <4>1. at'[h][d] = at[h][d]
                BY <1>3, <3>3
            <4>2. CASE at[h][d] = "off"
                BY <4>1, <4>2 DEF PlaceInv
            <4>3. CASE at[h][d] # "off"
                <5>1. cause'[h] = cause[h]
                    BY <1>3, <1>5, <4>3
                <5>2. at[h][d] = "children" => mu'[d] = h
                    BY <3>1, Names DEF PlaceInv
                <5> QED
                    BY <1>6, <3>1, <4>1, <5>1, <5>2 DEF PlaceInv
            <4> QED
                BY <4>2, <4>3
        <3> QED
            BY <3>2, <3>3
    <2>2. ASSUME NEW h \in Procs, step'[h] = "unlock" PROVE mu'[parent'[making'[h]]] = h
        <3>1. CASE h = g
            BY <2>2, <3>1
        <3>2. CASE h # g
            <4>1. mu[parent[making[h]]] = h /\ parent[making[h]] \in Ctxs /\ h # None
                BY <1>1, <2>2, <3>2, Names DEF LockInv, MakingInv
            <4> QED
                BY <4>1
        <3> QED
            BY <3>1, <3>2
    <2> QED
        BY <2>1, <2>2 DEF LockInv
<1>13. ChildrenInv'
    <2>1. ASSUME NEW d \in Ctxs, parent[d] \in Ctxs PROVE Attached(d)'
        <3>1. Attached(d)
            BY <1>1, <2>1 DEF ChildrenInv
        <3>2. ASSUME NEW h \in Procs, making[h] = d, Unattached(h) PROVE Attached(d)'
            <4>1. CASE step'[h] = step[h]
                BY <3>2, <4>1 DEF Attached, Unattached
            <4>2. CASE step'[h] # step[h]
                <5>1. h = g /\ d = c
                    BY <3>2, <4>2
                <5>2. at'[g][d] = "lock"
                    BY <1>3, <5>1
                <5> QED
                    BY <3>2, <5>1, <5>2 DEF Attached
            <4> QED
                BY <4>1, <4>2
        <3>3. CASE d \in children[parent[d]]
            BY <3>3 DEF Attached
        <3>4. CASE err[d] # "nil" /\ ~Walking(d)
            BY <1>6, <3>4 DEF Attached
        <3>5. ASSUME NEW h \in Goroutines, at[h][d] \in {"lock", "children"},
                     at[h][parent[d]] = "children" \/ (h \in Procs /\ making[h] = d)
              PROVE  Attached(d)'
            <4>1. at'[h][d] \in {"lock", "children"}
                BY <1>5, <3>5
            <4>2. at'[h][parent[d]] = "children" \/ (h \in Procs /\ making'[h] = d)
                BY <1>5, <2>1, <3>5
            <4> QED
                BY <4>1, <4>2 DEF Attached
        <3> QED
            BY <3>1, <3>2, <3>3, <3>4, <3>5 DEF Attached
    <2> QED
        BY <1>1, <1>6, <1>8, <2>1 DEF ChildrenInv
<1>14. ASSUME NEW d \in Ctxs PROVE ReleaseInv(d)'
    <2>1. ReleaseInv(d)
        BY <1>1
    <2>2. ASSUME NEW h \in Goroutines, at'[h][d] = "lock", err[d] = "nil", parent[d] \in Ctxs,
                 d \in children[parent[d]]
          PROVE  top'[h] = d
        <3>1. CASE h = g /\ d = c
            BY <1>3, <2>2, <3>1
        <3>2. CASE ~(h = g /\ d = c)
            BY <1>3, <1>5, <2>1, <2>2, <3>2 DEF ReleaseInv
        <3> QED
            BY <3>1, <3>2
    <2>3. (/\ parent'[d] \in Ctxs /\ d \in children'[parent'[d]]
           /\ err'[d] # "nil" /\ err'[parent'[d]] = "nil") =>
              \E h \in Goroutines :
                 (at'[h][d] = "children" /\ top'[h] = d) \/ at'[h][d] = "remove"
        BY <1>5, <2>1 DEF ReleaseInv
    <2>4. timer'[d] = "armed" /\ err'[d] # "nil" =>
              \E h \in Goroutines : at'[h][d] \in {"children", "remove", "stop"}
        BY <1>5, <2>1 DEF ReleaseInv
    <2>5. Closed(d)' => err'[d] # "nil"
        BY <2>1 DEF ReleaseInv, Closed
    <2>6. ASSUME d \in expired', timer'[d] = "nil", err[d] = "nil"
          PROVE  \E h \in Procs : making[h] = d /\ step'[h] = "return" /\ at'[h][d] = "lock"
        <3>1. CASE d \in expired /\ timer[d] = "nil"
            <4>1. PICK h \in Procs : making[h] = d /\ step[h] = "return" /\ at[h][d] = "lock"
                BY <2>1, <2>6, <3>1 DEF ReleaseInv
            <4>2. h # g /\ at'[h][d] = "lock"
                BY <1>5, <4>1, Names
            <4> QED
                BY <4>1, <4>2
        <3>2. CASE d = c /\ g \in Procs /\ making[g] = c /\ step'[g] = "return"
            BY <1>3, <3>2
        <3> QED
            BY <2>6, <3>1, <3>2
    <2> QED
        BY <2>2, <2>3, <2>4, <2>5, <2>6 DEF ReleaseInv
<1> QED
    BY <1>4, <1>9, <1>10, <1>11, <1>12, <1>13, <1>14 DEF IInv

\* A maker finds the parent ended before it is attached.
LEMMA ParentDoneCalls ==
    ASSUME IInv, TypeOK', NEW g \in Procs, ParentDone(g), step'[g] = "start"
    PROVE  IInv'
<1> DEFINE c == making[g]
<1>1. TypeOK /\ TreeInv /\ MakingInv /\ ChildrenInv
    BY Parts
<1>2. /\ step[g] = "done"
      /\ (parent[c] \in Ctxs /\ Closed(parent[c])) \/ (parent[c] \in Customs /\ err[parent[c]] # "nil")
      /\ Call(g, c, err[parent[c]], FALSE)
      /\ step' = [step EXCEPT ![g] = "start"]
      /\ UNCHANGED <<treeVars, err, done, mu, children, timer, expired, watch, making>>
    <2>1. step' = [step EXCEPT ![g] = "attach"] => step'[g] = "attach"
        BY <1>1 DEF TypeOK
    <2> QED
        BY <2>1 DEF ParentDone
<1>3. /\ c \in Ctxs /\ g \in Goroutines /\ NotCancelling(g) /\ parent[c] \in Nodes
      /\ err[parent[c]] \in Errs /\ parent[c] # None /\ Unattached(g)
    BY <1>1, <1>2, MakingCtx, ParentEnded, Names DEF MakingInv, Unattached
<1>4. \A h \in Procs : step'[h] = IF h = g THEN "start" ELSE step[h]
    BY <1>1, <1>2 DEF TypeOK
<1>5. \A h \in Procs : step'[h] \in {"done", "attach"} => h # g /\ making[h] # c
    BY <1>1, <1>3, <1>4, Names DEF MakingInv
<1>6. parent[c] \in Ctxs => c \notin children[parent[c]]
    BY <1>1, <1>3 DEF ChildrenInv
<1>7. \A d \in Ctxs : g # Timer(d) /\ g # Watcher(d)
    BY Names
<1>8. /\ \A d \in Ctxs : mu'[d] = mu[d] /\ timer'[d] = timer[d] /\ watch'[d] = watch[d]
      /\ expired' = expired
    BY <1>2
<1> HIDE DEF c
<1>9. UNCHANGED <<treeVars, err, done, children, making>> /\ c = making[g]
    BY <1>2 DEF c
<1>10. Reason(c, err[parent[c]])
    BY <1>3 DEF Reason
<1>11. MakerCalls(g, c)
    BY <1>2, <1>3, <1>4, <1>5, <1>8, <1>9 DEF MakerCalls
<1>12. OthersCall(g, c)
    BY <1>3, <1>7, <1>8 DEF OthersCall
<1> QED
    BY <1>2, <1>3, <1>6, <1>9, <1>10, <1>11, <1>12, CallKeeps

\* A maker finds the parent ended under its mutex.
LEMMA AttachCalls ==
    ASSUME IInv, TypeOK', NEW g \in Procs, Attach(g), step'[g] = "unlock"
    PROVE  IInv'
<1> DEFINE c == making[g]
<1>1. TypeOK /\ TreeInv /\ MakingInv /\ ChildrenInv
    BY Parts
<1>2. /\ step[g] = "attach" /\ parent[c] \in Ctxs /\ Free(parent[c]) /\ err[parent[c]] # "nil"
      /\ mu' = [mu EXCEPT ![parent[c]] = g]
      /\ Call(g, c, err[parent[c]], FALSE)
      /\ step' = [step EXCEPT ![g] = "unlock"]
      /\ UNCHANGED <<treeVars, err, done, children, timer, expired, watch, making>>
    <2>1. step' = [step EXCEPT ![g] = "start"] => step'[g] = "start"
        BY <1>1 DEF TypeOK
    <2>2. UNCHANGED <<treeVars, err, done, timer, expired, making>> /\ step[g] = "attach"
        BY DEF Attach
    <2>3. /\ parent[c] \in Ctxs /\ Free(parent[c]) /\ err[parent[c]] # "nil"
          /\ mu' = [mu EXCEPT ![parent[c]] = g]
          /\ Call(g, c, err[parent[c]], FALSE)
          /\ step' = [step EXCEPT ![g] = "unlock"]
          /\ UNCHANGED <<children, watch>>
        BY <2>1 DEF Attach
    <2> QED
        BY <2>2, <2>3
<1>3. /\ c \in Ctxs /\ g \in Goroutines /\ NotCancelling(g) /\ parent[c] \in Nodes
      /\ err[parent[c]] \in Errs /\ parent[c] # None /\ Unattached(g)
    BY <1>1, <1>2, MakingCtx, ParentEnded, Names DEF MakingInv, Unattached
<1>4. \A h \in Procs : step'[h] = IF h = g THEN "unlock" ELSE step[h]
    BY <1>1, <1>2 DEF TypeOK
<1>5. \A h \in Procs : step'[h] \in {"done", "attach"} => h # g /\ making[h] # c
    BY <1>1, <1>3, <1>4, Names DEF MakingInv
<1>6. parent[c] \in Ctxs => c \notin children[parent[c]]
    BY <1>1, <1>3 DEF ChildrenInv
<1>7. \A d \in Ctxs : g # Timer(d) /\ g # Watcher(d)
    BY Names
<1>8. /\ \A d \in Ctxs : mu'[d] = mu[d] \/ mu[d] = None
      /\ mu'[parent[c]] = g
      /\ \A d \in Ctxs : timer'[d] = timer[d] /\ watch'[d] = watch[d]
      /\ expired' = expired
    BY <1>1, <1>2 DEF Free, TypeOK
<1> HIDE DEF c
<1>9. UNCHANGED <<treeVars, err, done, children, making>> /\ c = making[g]
    BY <1>2 DEF c
<1>10. Reason(c, err[parent[c]])
    BY <1>3 DEF Reason
<1>11. MakerCalls(g, c)
    BY <1>2, <1>3, <1>4, <1>5, <1>8, <1>9 DEF MakerCalls
<1>12. OthersCall(g, c)
    BY <1>3, <1>7, <1>8 DEF OthersCall
<1> QED
    BY <1>2, <1>3, <1>6, <1>9, <1>10, <1>11, <1>12, CallKeeps

LEMMA DeadlinePassedCalls ==
    ASSUME IInv, TypeOK', NEW g \in Procs, DeadlinePassed(g) PROVE IInv'
<1> DEFINE c == making[g]
<1>1. TypeOK /\ TreeInv /\ MakingInv
    BY Parts
<1>2. /\ step[g] = "start" /\ NotCancelling(g) /\ c \in timed
      /\ expired' = expired \union {c}
      /\ Call(g, c, "DeadlineExceeded", TRUE)
      /\ step' = [step EXCEPT ![g] = "return"]
      /\ UNCHANGED <<treeVars, err, done, mu, children, timer, watch, making>>
    BY DEF DeadlinePassed
<1>3. c \in Ctxs /\ g \in Goroutines /\ parent[c] # None
    BY <1>1, <1>2, MakingCtx, Names DEF MakingInv
<1>4. \A h \in Procs : step'[h] = IF h = g THEN "return" ELSE step[h]
    BY <1>1, <1>2 DEF TypeOK
<1>5. \A h \in Procs : step'[h] \in {"done", "attach"} => h # g /\ making[h] # c
    BY <1>1, <1>3, <1>4, Names DEF MakingInv
<1>7. \A d \in Ctxs : g # Timer(d) /\ g # Watcher(d)
    BY Names
<1>8. \A d \in Ctxs : mu'[d] = mu[d] /\ timer'[d] = timer[d] /\ watch'[d] = watch[d]
    BY <1>2
<1> HIDE DEF c
<1>9. UNCHANGED <<treeVars, err, done, children, making>> /\ c = making[g]
    BY <1>2 DEF c
<1>10. Reason(c, "DeadlineExceeded") /\ "DeadlineExceeded" \in Errs
    BY <1>2 DEF Reason, Errs
<1>11. MakerCalls(g, c)
    BY <1>2, <1>3, <1>4, <1>5, <1>8, <1>9 DEF MakerCalls
<1>12. OthersCall(g, c)
    BY <1>2, <1>3, <1>4, <1>7, <1>8, <1>9 DEF OthersCall
<1> QED
    BY <1>2, <1>3, <1>9, <1>10, <1>11, <1>12, CallKeeps

LEMMA CancelFuncCalls ==
    ASSUME IInv, TypeOK', NEW g \in Procs, CancelFunc(g) PROVE IInv'
<1>1. TypeOK /\ TreeInv /\ MakingInv /\ \A d \in Ctxs : ReleaseInv(d)
    BY Parts
<1>2. PICK c \in known : Call(g, c, "Canceled", ~(c \in expired /\ timer[c] = "nil"))
    BY DEF CancelFunc
<1>3. NotCancelling(g) /\ UNCHANGED <<treeVars, ctxVars, watch, callVars>>
    BY DEF CancelFunc
<1>4. c \in Ctxs /\ g \in Goroutines /\ parent[c] # None
    BY <1>1, Names DEF TypeOK, TreeInv
<1>5. \A h \in Procs : making[h] # c
    BY <1>1, <1>4, Names DEF MakingInv
<1>6. \A h \in Procs : step'[h] \in {"done", "attach"} => h # g /\ making[h] # c
    BY <1>1, <1>3, <1>5 DEF CancelFunc, MakingInv, callVars
<1>7. err[c] = "nil" => ~(c \in expired /\ timer[c] = "nil")
    BY <1>1, <1>4, <1>5 DEF ReleaseInv
<1>8. /\ UNCHANGED <<treeVars, err, done, children, making>>
      /\ \A d \in Ctxs : mu'[d] = mu[d] /\ timer'[d] = timer[d] /\ watch'[d] = watch[d]
      /\ \A h \in Procs : step'[h] = step[h]
      /\ expired' = expired
    BY <1>3 DEF ctxVars, callVars
<1>9. \A d \in Ctxs : g # Timer(d) /\ g # Watcher(d)
    BY Names
<1>10. \A h \in Procs : step'[h] = "unlock" => h # g
    BY <1>1, <1>3, Names DEF CancelFunc, MakingInv, callVars
<1>11. Reason(c, "Canceled") /\ "Canceled" \in Errs
    BY DEF Reason, Errs
<1>12. MakerCalls(g, c)
    BY <1>6, <1>8, <1>10 DEF MakerCalls
<1>13. OthersCall(g, c)
    BY <1>4, <1>8, <1>9 DEF OthersCall
<1> QED
    BY <1>2, <1>3, <1>4, <1>7, <1>8, <1>11, <1>12, <1>13, CallKeeps

LEMMA TimerFiresCalls ==
    ASSUME IInv, TypeOK', NEW c \in Ctxs, TimerFires(c) PROVE IInv'
<1>1. TypeOK /\ TreeInv /\ MakingInv /\ OnceInv(c)
    BY Parts
<1>2. /\ timer[c] = "armed"
      /\ timer' = [timer EXCEPT ![c] = "fired"]
      /\ expired' = expired \union {c}
      /\ Call(Timer(c), c, "DeadlineExceeded", TRUE)
      /\ UNCHANGED <<treeVars, err, done, mu, children, watch, callVars>>
    BY DEF TimerFires
<1>3. /\ NotCancelling(Timer(c)) /\ c \in timed /\ Timer(c) \in Goroutines
      /\ Timer(c) \notin Procs /\ Timer(c) # Watcher(c)
    BY <1>1, <1>2, Names DEF OnceInv
<1>4. parent[c] # None
    BY <1>1, <1>2 DEF TreeInv
<1>5. \A d \in Ctxs : timer'[d] = IF d = c THEN "fired" ELSE timer[d]
    BY <1>1, <1>2 DEF TypeOK
<1>6. \A h \in Procs : step[h] \in {"done", "attach"} => making[h] # c
    BY <1>1, <1>2, Names DEF MakingInv
<1>7. /\ UNCHANGED <<treeVars, err, done, children, making>>
      /\ \A d \in Ctxs : mu'[d] = mu[d] /\ watch'[d] = watch[d]
      /\ \A h \in Procs : step'[h] = step[h]
    BY <1>2 DEF callVars
<1>8. Reason(c, "DeadlineExceeded") /\ "DeadlineExceeded" \in Errs
    BY <1>3 DEF Reason, Errs
<1>9. MakerCalls(Timer(c), c)
    BY <1>3, <1>6, <1>7 DEF MakerCalls
<1>10. OthersCall(Timer(c), c)
    BY <1>2, <1>3, <1>5, <1>7 DEF OthersCall
<1> QED
    BY <1>2, <1>3, <1>4, <1>7, <1>8, <1>9, <1>10, CallKeeps

LEMMA WatchParentCalls ==
    ASSUME IInv, TypeOK', NEW c \in Ctxs, WatchParent(c) PROVE IInv'
<1>1. TypeOK /\ TreeInv /\ MakingInv /\ OnceInv(c)
    BY Parts
<1>2. /\ watch[c] = "wait" /\ err[parent[c]] # "nil"
      /\ watch' = [watch EXCEPT ![c] = "off"]
      /\ Call(Watcher(c), c, err[parent[c]], FALSE)
      /\ UNCHANGED <<treeVars, ctxVars, callVars>>
    BY DEF WatchParent
<1>3. /\ NotCancelling(Watcher(c)) /\ parent[c] \in Customs /\ Watcher(c) \in Goroutines
      /\ Watcher(c) \notin Procs /\ Timer(c) # Watcher(c)
    BY <1>1, <1>2, Names DEF OnceInv
<1>4. parent[c] # None /\ parent[c] \in Nodes /\ parent[c] \notin Ctxs /\ err[parent[c]] \in Errs
    <2>1. parent[c] # None /\ parent[c] \in Nodes /\ parent[c] \notin Ctxs
        BY <1>3, Names
    <2> QED
        BY <1>1, <1>2, <2>1 DEF TypeOK
<1>5. \A d \in Ctxs : watch'[d] = IF d = c THEN "off" ELSE watch[d]
    BY <1>1, <1>2 DEF TypeOK
<1>6. \A h \in Procs : step[h] \in {"done", "attach"} => making[h] # c
    BY <1>1, <1>2, Names DEF MakingInv, Unattached
<1>7. /\ UNCHANGED <<treeVars, err, done, children, making>>
      /\ \A d \in Ctxs : mu'[d] = mu[d] /\ timer'[d] = timer[d]
      /\ \A h \in Procs : step'[h] = step[h]
      /\ expired' = expired
    BY <1>2 DEF callVars, ctxVars
<1>8. Reason(c, err[parent[c]])
    BY <1>4 DEF Reason
<1>9. MakerCalls(Watcher(c), c)
    BY <1>3, <1>6, <1>7 DEF MakerCalls
<1>10. OthersCall(Watcher(c), c)
    BY <1>3, <1>5, <1>7 DEF OthersCall
<1> QED
    BY <1>2, <1>3, <1>4, <1>7, <1>8, <1>9, <1>10, CallKeeps

-----------------------------------------------------------------------------
(* Steps that cancel nothing.                                              *)

(* Somebody asks for a Done channel, or a watcher goes on or ends.         *)
LEMMA ChannelsKeep ==
    ASSUME IInv, TypeOK', UNCHANGED <<treeVars, err, mu, children, timer, expired,
                                      making, cancelVars>>,
           \A g \in Procs : step'[g] = step[g] \/ (step[g] = "done" /\ step'[g] = "attach"),
           \A c \in Ctxs : /\ Closed(c)' => Closed(c)
                           /\ watch[c] = "off" => watch'[c] = "off"
    PROVE  IInv'
<1> USE DEF treeVars, cancelVars
<1>1. /\ TypeOK /\ TreeInv /\ MakingInv /\ LockInv /\ ChildrenInv
      /\ \A g \in Goroutines : PathInv(g)
      /\ \A c \in Ctxs : OnceInv(c) /\ ReleaseInv(c)
    BY Parts
<1>2. \A g \in Procs : /\ Unattached(g)' <=> Unattached(g)
                       /\ step'[g] = "off" <=> step[g] = "off"
                       /\ step'[g] = "unlock" <=> step[g] = "unlock"
                       /\ step'[g] = "return" <=> step[g] = "return"
    BY DEF Unattached
<1>3. /\ \A g \in Goroutines : NotCancelling(g)' <=> NotCancelling(g)
      /\ \A c \in Ctxs : Walking(c)' <=> Walking(c)
    BY DEF NotCancelling, Walking
<1>4. TreeInv'
    BY <1>1 DEF TreeInv
<1>5. MakingInv'
    <2>1. ASSUME NEW g \in Procs, Unattached(g)
          PROVE  /\ watch'[making[g]] = "off"
                 /\ NotCancelling(g)' /\ NotCancelling(Watcher(making[g]))'
        <3>1. making[g] \in Ctxs
            BY <1>1, <2>1, MakingCtx DEF Unattached
        <3>2. /\ watch[making[g]] = "off" /\ NotCancelling(g)
              /\ NotCancelling(Watcher(making[g]))
            BY <1>1, <2>1 DEF MakingInv
        <3> QED
            BY <1>3, <3>1, <3>2, Names
    <2> QED
        BY <1>1, <1>2, <2>1 DEF MakingInv
<1>6. \A g \in Goroutines : PathInv(g)'
    BY <1>1, PathFrame
<1>7. ASSUME NEW c \in Ctxs PROVE OnceInv(c)'
    BY <1>1, <1>3, Names DEF OnceInv
<1>8. LockInv'
    <2>1. ASSUME NEW g \in Goroutines, NEW c \in Ctxs PROVE PlaceInv(g, c)'
        BY <1>1, <1>3 DEF LockInv, PlaceInv
    <2> QED
        BY <1>1, <1>2, <2>1 DEF LockInv
<1>9. ChildrenInv'
    <2>1. ASSUME NEW d \in Ctxs, Attached(d) PROVE Attached(d)'
        BY <1>2, <1>3, <2>1 DEF Attached
    <2> QED
        BY <1>1, <1>2, <1>3, <2>1 DEF ChildrenInv
<1>10. ASSUME NEW c \in Ctxs PROVE ReleaseInv(c)'
    BY <1>1, <1>2 DEF ReleaseInv
<1> QED
    BY <1>4, <1>5, <1>6, <1>7, <1>8, <1>9, <1>10 DEF IInv

LEMMA DoneKeeps ==
    ASSUME IInv, TypeOK', NEW c \in Ctxs, Done(c) \/ WatchStart(c) \/ WatchChild(c)
    PROVE  IInv'
<1>1. TypeOK
    BY Parts
<1>2. UNCHANGED <<treeVars, err, mu, children, timer, expired, callVars, cancelVars>>
    BY DEF Done, WatchStart, WatchChild, ctxVars
<1>3. \A d \in Ctxs : Closed(d)' => Closed(d)
    BY <1>1 DEF Done, WatchStart, WatchChild, ctxVars, TypeOK, Closed
<1>4. \A d \in Ctxs : watch[d] = "off" => watch'[d] = "off"
    BY <1>1 DEF Done, WatchStart, WatchChild, TypeOK
<1>5. UNCHANGED <<treeVars, err, mu, children, timer, expired, making, cancelVars>>
      /\ \A g \in Procs : step'[g] = step[g]
    BY <1>2 DEF callVars
<1> QED
    BY <1>3, <1>4, <1>5, ChannelsKeep

LEMMA ParentDoneKeeps ==
    ASSUME IInv, TypeOK', NEW g \in Procs, ParentDone(g) PROVE IInv'
<1>1. TypeOK
    BY Parts
<1>2. CASE step'[g] = "start"
    BY <1>2, ParentDoneCalls
<1>3. CASE step'[g] # "start"
    <2>1. /\ step[g] = "done" /\ step' = [step EXCEPT ![g] = "attach"]
          /\ ~(parent[making[g]] \in Ctxs /\ Closed(parent[making[g]]))
          /\ done' = IF parent[making[g]] \in Ctxs
                       THEN [done EXCEPT ![parent[making[g]]] = "open"] ELSE done
          /\ UNCHANGED cancelVars
        <3>1. step' # [step EXCEPT ![g] = "start"]
            BY <1>1, <1>3 DEF TypeOK
        <3> QED
            BY <3>1 DEF ParentDone
    <2>2. UNCHANGED <<treeVars, err, mu, children, timer, expired, watch, making>>
        BY DEF ParentDone
    <2>3. \A h \in Procs : step'[h] = step[h] \/ (step[h] = "done" /\ step'[h] = "attach")
        BY <1>1, <2>1 DEF TypeOK
    <2>4. \A d \in Ctxs : Closed(d)' => Closed(d)
        BY <1>1, <2>1 DEF TypeOK, Closed
    <2>5. UNCHANGED <<treeVars, err, mu, children, timer, expired, making, cancelVars>>
          /\ \A d \in Ctxs : watch'[d] = watch[d]
        BY <2>1, <2>2
    <2> QED
        BY <2>3, <2>4, <2>5, ChannelsKeep
<1> QED
    BY <1>2, <1>3

(* A foreign parent ends.                                                  *)
LEMMA CustomEndsKeeps ==
    ASSUME IInv, TypeOK', NEW x \in Customs, CustomEnds(x) PROVE IInv'
<1> USE DEF treeVars, callVars, cancelVars
<1>1. /\ TypeOK /\ TreeInv /\ MakingInv /\ LockInv /\ ChildrenInv
      /\ \A g \in Goroutines : PathInv(g)
      /\ \A c \in Ctxs : OnceInv(c) /\ ReleaseInv(c)
    BY Parts
<1>2. /\ err[x] = "nil" /\ err' = [err EXCEPT ![x] = "Custom"]
      /\ UNCHANGED <<treeVars, done, mu, children, timer, expired, watch, callVars, cancelVars>>
    BY DEF CustomEnds
<1>3. \A c \in Nodes : c # x => err'[c] = err[c]
    BY <1>1, <1>2 DEF TypeOK
<1>4. \A c \in Ctxs : err'[c] = err[c]
    BY <1>3, Names
<1>5. TreeInv'
    BY <1>1, <1>2, <1>4 DEF TreeInv
<1>6. MakingInv'
    <2>1. \A g \in Procs : /\ Unattached(g)' <=> Unattached(g)
                           /\ Unattached(g) => making[g] \in Ctxs
        BY <1>2, MakingCtx DEF Unattached
    <2>2. \A g \in Goroutines : NotCancelling(g)' <=> NotCancelling(g)
        BY <1>2 DEF NotCancelling
    <2>3. \A g \in Procs : Unattached(g) => NotCancelling(Watcher(making[g]))'
        BY <1>1, <1>2, <2>1, <2>2, Names DEF MakingInv
    <2> QED
        BY <1>1, <1>2, <1>4, <2>1, <2>2, <2>3, Names DEF MakingInv
<1>7. \A g \in Goroutines : PathInv(g)'
    BY <1>1, <1>2, PathFrame
<1>8. \A c \in Ctxs : OnceInv(c)'
    BY <1>1, <1>2, OnceFrame
<1>9. \A c \in Ctxs : Walking(c)' <=> Walking(c)
    BY <1>2 DEF Walking
<1>10. LockInv'
    <2>1. ASSUME NEW g \in Goroutines, NEW c \in Ctxs PROVE PlaceInv(g, c)'
        <3>1. PlaceInv(g, c) /\ (at[g][c] # "off" => cause[g] # "nil")
            BY <1>1 DEF LockInv, PathInv
        <3>2. parent[c] \in Nodes /\ err[parent[c]] = cause[g] /\ cause[g] # "nil" =>
                  err'[parent[c]] = cause[g]
            BY <1>2, <1>3
        <3> QED
            BY <1>2, <1>4, <1>9, <3>1, <3>2 DEF PlaceInv
    <2> QED
        BY <1>1, <1>2, <2>1 DEF LockInv
<1>11. ChildrenInv'
    <2>1. \A g \in Procs : Unattached(g)' <=> Unattached(g)
        BY <1>2 DEF Unattached
    <2>2. ASSUME NEW d \in Ctxs, Attached(d) PROVE Attached(d)'
        BY <1>2, <1>4, <1>9, <2>1, <2>2 DEF Attached
    <2> QED
        BY <1>1, <1>2, <1>4, <1>9, <2>1, <2>2 DEF ChildrenInv
<1>12. ASSUME NEW c \in Ctxs PROVE ReleaseInv(c)'
    BY <1>1, <1>2, <1>4 DEF ReleaseInv, Closed
<1> QED
    BY <1>5, <1>6, <1>7, <1>8, <1>10, <1>11, <1>12 DEF IInv

(* A child is added to the list of its parent, or gets a watcher.          *)
LEMMA AttachKeeps ==
    ASSUME IInv, TypeOK', NEW g \in Procs, Attach(g) PROVE IInv'
<1> USE DEF treeVars, cancelVars
<1> DEFINE c == making[g]
<1>1. /\ TypeOK /\ TreeInv /\ MakingInv /\ LockInv /\ ChildrenInv
      /\ \A h \in Goroutines : PathInv(h)
      /\ \A d \in Ctxs : OnceInv(d) /\ ReleaseInv(d)
    BY Parts
<1>2. CASE step'[g] = "unlock"
    BY <1>2, AttachCalls
<1>3. CASE step'[g] # "unlock"
    <2>1. /\ step[g] = "attach" /\ step' = [step EXCEPT ![g] = "start"]
          /\ UNCHANGED <<treeVars, err, done, mu, timer, expired, making, cancelVars>>
          /\ \/ /\ parent[c] \in Ctxs /\ err[parent[c]] = "nil" /\ watch' = watch
                /\ children' = [children EXCEPT ![parent[c]] = @ \union {c}]
             \/ /\ parent[c] \in Customs /\ children' = children
                /\ watch' = [watch EXCEPT ![c] = "start"]
        <3>1. step' # [step EXCEPT ![g] = "unlock"]
            BY <1>1, <1>3 DEF TypeOK
        <3> QED
            BY <3>1 DEF Attach
    <2>2. /\ c \in Ctxs /\ parent[c] # None /\ Unattached(g) /\ err[c] = "nil"
          /\ NotCancelling(Watcher(c))
          /\ \A h \in Goroutines : at[h][c] = "off"
          /\ \A h \in Procs : making[h] = c => h = g
        BY <1>1, <2>1, MakingCtx, Names DEF MakingInv, Unattached
    <2>3. \A h \in Procs : /\ step'[h] = IF h = g THEN "start" ELSE step[h]
                           /\ step'[h] = "off" <=> step[h] = "off"
                           /\ step'[h] = "unlock" <=> step[h] = "unlock"
                           /\ step'[h] = "return" <=> step[h] = "return"
        BY <1>1, <2>1 DEF TypeOK
    <2>4. \A h \in Procs : Unattached(h)' <=> Unattached(h) /\ h # g
        BY <2>3 DEF Unattached
    <2>5. /\ \A h \in Goroutines : NotCancelling(h)' <=> NotCancelling(h)
          /\ \A d \in Ctxs : Walking(d)' <=> Walking(d)
        BY <2>1 DEF NotCancelling, Walking
    <2>6. \A d \in Ctxs : watch'[d] = watch[d] \/ (d = c /\ parent[c] \in Customs)
        BY <1>1, <2>1 DEF TypeOK
    <2>7. \A d, e \in Ctxs :
              /\ e \in children'[d] => e \in children[d]
                    \/ (d = parent[c] /\ e = c /\ err[d] = "nil")
              /\ e \in children[d] => e \in children'[d]
        BY <1>1, <2>1 DEF TypeOK
    <2>8. parent[c] \in Ctxs => c \in children'[parent[c]]
        <3>1. ASSUME parent[c] \in Ctxs
              PROVE  children' = [children EXCEPT ![parent[c]] = @ \union {c}]
            BY <2>1, <3>1, Names
        <3> QED
            BY <1>1, <3>1 DEF TypeOK
    <2>9. UNCHANGED <<treeVars, err, done, mu, timer, expired, making, cancelVars>>
          /\ \A d \in Ctxs : children'[d] \subseteq Ctxs /\ children[d] \subseteq Ctxs
        BY <1>1, <2>1 DEF TypeOK
    <2>10. making[g] = c
        OBVIOUS
    <2> HIDE DEF c
    <2>11. TreeInv'
        BY <1>1, <2>2, <2>6, <2>9 DEF TreeInv
    <2>12. MakingInv'
        <3>1. ASSUME NEW h \in Procs, Unattached(h), h # g
              PROVE  /\ watch'[making[h]] = "off"
                     /\ NotCancelling(h)' /\ NotCancelling(Watcher(making[h]))'
            <4>1. making[h] \in Ctxs /\ making[h] # c
                BY <1>1, <2>2, <3>1, MakingCtx DEF Unattached
            <4>2. /\ watch[making[h]] = "off" /\ NotCancelling(h)
                  /\ NotCancelling(Watcher(making[h]))
                BY <1>1, <3>1 DEF MakingInv
            <4> QED
                BY <2>5, <2>6, <2>9, <4>1, <4>2, Names
        <3> QED
            BY <1>1, <2>3, <2>4, <2>9, <3>1 DEF MakingInv
    <2>13. \A h \in Goroutines : PathInv(h)'
        BY <1>1, <2>9, PathFrame
    <2>14. ASSUME NEW d \in Ctxs PROVE OnceInv(d)'
        BY <1>1, <2>2, <2>5, <2>6, <2>9, Names DEF OnceInv
    <2>15. LockInv'
        <3>1. ASSUME NEW h \in Goroutines, NEW d \in Ctxs PROVE PlaceInv(h, d)'
            BY <1>1, <2>5, <2>9 DEF LockInv, PlaceInv
        <3> QED
            BY <1>1, <2>3, <2>9, <3>1 DEF LockInv
    <2>16. ChildrenInv'
        <3>1. ASSUME NEW d \in Ctxs, parent[d] \in Ctxs PROVE Attached(d)'
            <4>1. CASE d = c
                BY <2>8, <2>9, <3>1, <4>1 DEF Attached
            <4>2. CASE d # c
                <5>1. Attached(d)
                    BY <1>1, <3>1 DEF ChildrenInv
                <5>2. (\E h \in Procs : making[h] = d /\ Unattached(h)) =>
                          \E h \in Procs : making[h] = d /\ Unattached(h)'
                    BY <2>4, <2>10, <4>2
                <5> QED
                    BY <2>5, <2>7, <2>9, <3>1, <5>1, <5>2 DEF Attached
            <4> QED
                BY <4>1, <4>2
        <3>2. ASSUME NEW e \in Ctxs, NEW d \in children'[e]
              PROVE  parent[d] = e /\ \A h \in Procs : making[h] = d => ~Unattached(h)'
            <4>1. d \in Ctxs
                BY <2>9
            <4>2. CASE d \in children[e]
                BY <1>1, <2>4, <4>2 DEF ChildrenInv
            <4>3. CASE e = parent[c] /\ d = c
                BY <2>2, <2>4, <4>3
            <4> QED
                BY <2>7, <4>1, <4>2, <4>3
        <3>3. \A d \in Ctxs : err'[d] # "nil" /\ ~Walking(d)' => children'[d] = {}
            BY <1>1, <2>5, <2>7, <2>9 DEF ChildrenInv
        <3> QED
            BY <2>9, <3>1, <3>2, <3>3 DEF ChildrenInv
    <2>17. ASSUME NEW d \in Ctxs PROVE ReleaseInv(d)'
        <3>1. ReleaseInv(d)
            BY <1>1
        <3>2. d # c /\ parent[d] \in Ctxs =>
                  (d \in children'[parent[d]] <=> d \in children[parent[d]])
            BY <2>7
        <3> QED
            BY <2>2, <2>3, <2>9, <3>1, <3>2 DEF ReleaseInv, Closed
    <2> QED
        BY <2>11, <2>12, <2>13, <2>14, <2>15, <2>16, <2>17 DEF IInv
<1> QED
    BY <1>2, <1>3

LEMMA UnlockKeeps ==
    ASSUME IInv, TypeOK', NEW g \in Procs, Unlock(g) PROVE IInv'
<1> USE DEF treeVars, cancelVars
<1>1. /\ TypeOK /\ TreeInv /\ MakingInv /\ LockInv /\ ChildrenInv
      /\ \A h \in Goroutines : PathInv(h)
      /\ \A d \in Ctxs : OnceInv(d) /\ ReleaseInv(d)
    BY Parts
<1>2. /\ step[g] = "unlock" /\ NotCancelling(g)
      /\ mu' = [mu EXCEPT ![parent[making[g]]] = None]
      /\ step' = [step EXCEPT ![g] = "start"]
      /\ UNCHANGED <<treeVars, err, done, children, timer, expired, watch, making, cancelVars>>
    BY DEF Unlock
<1>3. mu[parent[making[g]]] = g /\ g \in Goroutines
    BY <1>1, <1>2, Names DEF LockInv
<1>4. \A d \in Ctxs : mu'[d] = mu[d] \/ mu[d] = g
    BY <1>1, <1>2, <1>3 DEF TypeOK
<1>5. \A h \in Procs : /\ step'[h] = IF h = g THEN "start" ELSE step[h]
                       /\ step'[h] = "off" <=> step[h] = "off"
                       /\ step'[h] = "unlock" <=> step[h] = "unlock" /\ h # g
                       /\ step'[h] = "return" <=> step[h] = "return"
    BY <1>1, <1>2 DEF TypeOK
<1>6. \A h \in Procs : Unattached(h)' <=> Unattached(h)
    BY <1>2, <1>5 DEF Unattached
<1>7. /\ \A h \in Goroutines : NotCancelling(h)' <=> NotCancelling(h)
      /\ \A d \in Ctxs : Walking(d)' <=> Walking(d)
    BY <1>2 DEF NotCancelling, Walking
<1>8. TreeInv'
    BY <1>1, <1>2, TreeFrame
<1>9. MakingInv'
    <2>1. ASSUME NEW h \in Procs, Unattached(h)
          PROVE  NotCancelling(h)' /\ NotCancelling(Watcher(making[h]))'
        <3>1. making[h] \in Ctxs
            BY <2>1, MakingCtx DEF Unattached
        <3> QED
            BY <1>1, <1>2, <1>7, <2>1, <3>1, Names DEF MakingInv
    <2> QED
        BY <1>1, <1>2, <1>5, <1>6, <2>1 DEF MakingInv
<1>10. \A h \in Goroutines : PathInv(h)'
    BY <1>1, <1>2, PathFrame
<1>11. \A d \in Ctxs : OnceInv(d)'
    BY <1>1, <1>2, OnceFrame
<1>12. LockInv'
    <2>1. ASSUME NEW h \in Goroutines, NEW d \in Ctxs PROVE PlaceInv(h, d)'
        <3>1. at[h][d] = "children" => h # g
            BY <1>2 DEF NotCancelling
        <3>2. PlaceInv(h, d)
            BY <1>1 DEF LockInv
        <3> QED
            BY <1>2, <1>4, <1>7, <3>1, <3>2 DEF PlaceInv
    <2>2. ASSUME NEW h \in Procs, step'[h] = "unlock" PROVE mu'[parent[making[h]]] = h
        BY <1>1, <1>4, <1>5, <2>2 DEF LockInv, MakingInv
    <2> QED
        BY <1>2, <2>1, <2>2 DEF LockInv
<1>13. ChildrenInv'
    <2>1. ASSUME NEW d \in Ctxs, Attached(d) PROVE Attached(d)'
        BY <1>2, <1>6, <1>7, <2>1 DEF Attached
    <2> QED
        BY <1>1, <1>2, <1>6, <1>7, <2>1 DEF ChildrenInv
<1>14. ASSUME NEW d \in Ctxs PROVE ReleaseInv(d)'
    BY <1>1, <1>2, <1>5 DEF ReleaseInv, Closed
<1> QED
    BY <1>8, <1>9, <1>10, <1>11, <1>12, <1>13, <1>14 DEF IInv

(* WithCancel and WithDeadline return; a timer is set on a context that    *)
(* has not ended.                                                          *)
LEMMA StartKeeps ==
    ASSUME IInv, TypeOK', NEW g \in Procs, Start(g) PROVE IInv'
<1> USE DEF cancelVars
<1> DEFINE c == making[g]
<1>1. /\ TypeOK /\ TreeInv /\ MakingInv /\ LockInv /\ ChildrenInv
      /\ \A h \in Goroutines : PathInv(h)
      /\ \A d \in Ctxs : OnceInv(d) /\ ReleaseInv(d)
    BY Parts
<1>2. /\ step[g] \in {"start", "return"} /\ NotCancelling(g)
      /\ known' = known \union {c}
      /\ making' = [making EXCEPT ![g] = None]
      /\ step' = [step EXCEPT ![g] = "off"]
      /\ UNCHANGED <<parent, timed, err, done, mu, children, expired, watch, cancelVars>>
      /\ \/ timer' = timer
         \/ c \in timed /\ err[c] = "nil" /\ timer' = [timer EXCEPT ![c] = "armed"]
    BY DEF Start
<1>3. /\ c \in Ctxs /\ parent[c] # None /\ c \notin known /\ timer[c] = "nil"
      /\ \A h \in Procs : making[h] = c => h = g
      /\ g \in Goroutines
    BY <1>1, <1>2, MakingCtx, Names DEF MakingInv
<1>4. \A h \in Procs : /\ step'[h] = IF h = g THEN "off" ELSE step[h]
                       /\ making'[h] = IF h = g THEN None ELSE making[h]
    BY <1>1, <1>2 DEF TypeOK
<1>5. \A d \in Ctxs : \/ timer'[d] = timer[d]
                      \/ d = c /\ c \in timed /\ err[c] = "nil" /\ timer'[d] = "armed"
    BY <1>1, <1>2 DEF TypeOK
<1>6. \A h \in Procs : /\ Unattached(h)' <=> Unattached(h)
                       /\ Unattached(h) => h # g
    BY <1>2, <1>4 DEF Unattached
<1>7. /\ \A h \in Goroutines : NotCancelling(h)' <=> NotCancelling(h)
      /\ \A d \in Ctxs : Walking(d)' <=> Walking(d)
      /\ \A d \in Ctxs : at[g][d] = "off"
    BY <1>2 DEF NotCancelling, Walking
<1>8. /\ UNCHANGED <<parent, timed, err, done, mu, children, expired, watch, cancelVars>>
      /\ known' = known \union {c} /\ making[g] = c
    BY <1>2
<1> HIDE DEF c
<1>9. TreeInv'
    BY <1>1, <1>3, <1>5, <1>8 DEF TreeInv
<1>10. MakingInv'
    <2>1. ASSUME NEW h \in Procs, h # g, making[h] # None
          PROVE  making[h] \in Ctxs /\ making[h] # c /\ timer'[making[h]] = "nil"
        BY <1>1, <1>3, <1>5, <2>1 DEF TypeOK, MakingInv
    <2>2. ASSUME NEW h \in Procs, h # g, Unattached(h)
          PROVE  NotCancelling(h)' /\ NotCancelling(Watcher(making[h]))'
                 /\ making'[h] = making[h]
        <3>1. making[h] \in Ctxs /\ making'[h] = making[h]
            BY <1>4, <2>2, MakingCtx DEF Unattached
        <3>2. NotCancelling(h) /\ NotCancelling(Watcher(making[h]))
            BY <1>1, <2>2 DEF MakingInv
        <3> QED
            BY <1>7, <1>8, <2>2, <3>1, <3>2, Names DEF NotCancelling
    <2>3. ASSUME NEW h \in Procs
          PROVE  /\ step'[h] = "off" <=> making'[h] = None
                 /\ making'[h] # None =>
                       parent[making'[h]] # None /\ making'[h] \notin known'
                       /\ timer'[making'[h]] = "nil"
                 /\ Unattached(h)' =>
                       /\ NotCancelling(h)' /\ parent[making'[h]] \in Nodes
                       /\ err[making'[h]] = "nil" /\ watch[making'[h]] = "off"
                       /\ \A k \in Goroutines : at[k][making'[h]] = "off"
                       /\ NotCancelling(Watcher(making[h]))' /\ making'[h] = making[h]
                 /\ step'[h] = "unlock" =>
                       /\ parent[making'[h]] \in Ctxs
                       /\ \A d \in Ctxs : at[h][d] # "off" => making'[h] <= d
        <3>1. CASE h = g
            BY <1>4, <1>6, <3>1
        <3>2. CASE h # g
            BY <1>1, <1>4, <1>6, <1>8, <2>1, <2>2, <3>2 DEF MakingInv
        <3> QED
            BY <3>1, <3>2
    <2>4. \A h, k \in Procs : making'[h] = making'[k] /\ making'[h] # None => h = k
        BY <1>1, <1>4 DEF MakingInv
    <2> QED
        BY <1>8, <2>3, <2>4 DEF MakingInv
<1>11. \A h \in Goroutines : PathInv(h)'
    BY <1>1, <1>8, PathFrame
<1>12. ASSUME NEW d \in Ctxs PROVE OnceInv(d)'
    BY <1>1, <1>3, <1>5, <1>7, <1>8, Names DEF OnceInv
<1>13. LockInv'
    <2>1. ASSUME NEW h \in Goroutines, NEW d \in Ctxs PROVE PlaceInv(h, d)'
        BY <1>1, <1>7, <1>8 DEF LockInv, PlaceInv
    <2>2. ASSUME NEW h \in Procs, step'[h] = "unlock" PROVE mu'[parent'[making'[h]]] = h
        BY <1>1, <1>4, <1>8, <2>2 DEF LockInv
    <2> QED
        BY <2>1, <2>2 DEF LockInv
<1>14. ChildrenInv'
    <2>1. ASSUME NEW d \in Ctxs, Attached(d) PROVE Attached(d)'
        <3>1. CASE \E h \in Procs : making[h] = d /\ Unattached(h)
            BY <1>4, <1>6, <3>1 DEF Attached
        <3>2. CASE d \in children[parent[d]]
            BY <1>8, <3>2 DEF Attached
        <3>3. CASE err[d] # "nil" /\ ~Walking(d)
            BY <1>7, <1>8, <3>3 DEF Attached
        <3>4. ASSUME NEW h \in Goroutines, at[h][d] \in {"lock", "children"},
                     at[h][parent[d]] = "children" \/ (h \in Procs /\ making[h] = d)
              PROVE  Attached(d)'
            <4>1. h # g
                BY <1>7, <3>4
            <4>2. at'[h][d] \in {"lock", "children"}
                  /\ (at'[h][parent'[d]] = "children" \/ (h \in Procs /\ making'[h] = d))
                BY <1>4, <1>8, <3>4, <4>1
            <4> QED
                BY <4>2 DEF Attached
        <3> QED
            BY <2>1, <3>1, <3>2, <3>3, <3>4 DEF Attached
    <2>2. \A d \in Ctxs : \A e \in children'[d] :
              parent'[e] = d /\ \A h \in Procs : making'[h] = e => ~Unattached(h)'
        BY <1>1, <1>4, <1>6, <1>8 DEF ChildrenInv
    <2> QED
        BY <1>1, <1>7, <1>8, <2>1, <2>2 DEF ChildrenInv
<1>15. ASSUME NEW d \in Ctxs PROVE ReleaseInv(d)'
    <2>1. ReleaseInv(d)
        BY <1>1
    <2>2. d \in expired' /\ timer'[d] = "nil" /\ err'[d] = "nil" =>
              \E h \in Procs : making'[h] = d /\ step'[h] = "return" /\ at'[h][d] = "lock"
        <3> SUFFICES ASSUME d \in expired, timer[d] = "nil", err[d] = "nil"
                     PROVE  \E h \in Procs : making'[h] = d /\ step'[h] = "return"
                                             /\ at'[h][d] = "lock"
            BY <1>5, <1>8
        <3>1. PICK h \in Procs : making[h] = d /\ step[h] = "return" /\ at[h][d] = "lock"
            BY <2>1 DEF ReleaseInv
        <3>2. h # g
            BY <1>7, <3>1
        <3> QED
            BY <1>4, <1>8, <3>1, <3>2
    <2>3. timer'[d] = "armed" /\ err'[d] # "nil" => timer[d] = "armed" /\ err[d] # "nil"
        BY <1>5, <1>8
    <2> QED
        BY <1>8, <2>1, <2>2, <2>3 DEF ReleaseInv, Closed
<1> QED
    BY <1>9, <1>10, <1>11, <1>12, <1>13, <1>14, <1>15 DEF IInv

(* A new context: the next number, below a context that is known.          *)
LEMMA DeriveKeeps ==
    ASSUME IInv, TypeOK', NEW g \in Procs, Derive(g) PROVE IInv'
<1> USE DEF cancelVars, ctxVars
<1>1. /\ TypeOK /\ TreeInv /\ MakingInv /\ LockInv /\ ChildrenInv
      /\ \A h \in Goroutines : PathInv(h)
      /\ \A d \in Ctxs : OnceInv(d) /\ ReleaseInv(d)
    BY Parts
<1>2. making[g] = None /\ NotCancelling(g) /\ UNCHANGED <<known, ctxVars, watch, cancelVars>>
    BY DEF Derive
<1>3. PICK c \in Ctxs, p \in known \union Customs \union {Background} :
          /\ parent[c] = None /\ \A d \in 1..(c - 1) : parent[d] # None
          /\ parent' = [parent EXCEPT ![c] = p]
          /\ timed' \in {timed, timed \union {c}}
          /\ making' = [making EXCEPT ![g] = c]
          /\ step' = [step EXCEPT ![g] = IF p = Background THEN "start" ELSE "done"]
    BY DEF Derive
<1>4. p \in Ctxs => p \in known /\ p < c
    <2>1. p \in Ctxs => p \in known /\ parent[p] # None
        BY <1>1, Names DEF TreeInv
    <2>2. ASSUME p \in Ctxs, c < p PROVE FALSE
        BY <1>1, <1>3, <2>1, <2>2 DEF TreeInv
    <2> QED
        BY <1>3, <2>1, <2>2 DEF Ctxs
<1>5. /\ p # None /\ (p # Background => p \in Nodes) /\ (p = Background => p \notin Ctxs)
      /\ g \in Goroutines
    BY <1>1, Names, CtxsAssumption DEF TypeOK, Nodes
<1>6. \A d \in Ctxs : parent'[d] = IF d = c THEN p ELSE parent[d]
    BY <1>1, <1>3 DEF TypeOK
<1>7. /\ \A h \in Procs : making'[h] = IF h = g THEN c ELSE making[h]
      /\ \A h \in Procs : h # g => step'[h] = step[h]
      /\ step'[g] = IF p = Background THEN "start" ELSE "done"
    BY <1>1, <1>3 DEF TypeOK
<1>8. /\ err[c] = "nil" /\ timer[c] = "nil" /\ watch[c] = "off" /\ c \notin known
      /\ NotCancelling(Watcher(c)) /\ \A h \in Goroutines : at[h][c] = "off"
      /\ \A h \in Procs : making[h] # c
    BY <1>1, <1>3, Names DEF TreeInv, MakingInv, PathInv, OnceInv
<1>9. /\ \A d \in Ctxs : \A e \in children[d] : e # c
      /\ \A d \in Ctxs : parent[d] # c
    <2>1. \A d \in Ctxs : parent[d] # c
        BY <1>1, <1>8 DEF TreeInv
    <2> QED
        BY <1>1, <1>3, <2>1, Names DEF ChildrenInv
<1>10. /\ \A h \in Procs : Unattached(h)' <=> Unattached(h) \/ (h = g /\ p # Background)
       /\ ~Unattached(g)
    BY <1>1, <1>2, <1>7 DEF Unattached, MakingInv
<1>11. /\ \A h \in Goroutines : NotCancelling(h)' <=> NotCancelling(h)
       /\ \A d \in Ctxs : Walking(d)' <=> Walking(d)
       /\ \A d \in Ctxs : at[g][d] = "off"
    BY <1>2 DEF NotCancelling, Walking
<1>12. timed \subseteq timed'
    BY <1>3
<1>13. TreeInv'
    <2>1. \A d \in Ctxs : parent'[d] \in Ctxs => parent'[d] < d /\ parent'[d] \in known'
        BY <1>1, <1>2, <1>4, <1>6 DEF TreeInv
    <2>2. ASSUME NEW d \in Ctxs, NEW e \in Ctxs, d < e, parent'[e] # None
          PROVE  parent'[d] # None
        <3>1. CASE e = c
            BY <1>3, <1>6, <2>2, <3>1 DEF Ctxs
        <3>2. CASE e # c
            BY <1>1, <1>5, <1>6, <2>2, <3>2 DEF TreeInv
        <3> QED
            BY <3>1, <3>2
    <2>3. /\ \A d \in known' : parent'[d] # None
          /\ \A d \in Ctxs : parent'[d] = None =>
                err'[d] = "nil" /\ timer'[d] = "nil" /\ watch'[d] = "off"
        BY <1>1, <1>2, <1>5, <1>6 DEF TreeInv, TypeOK
    <2> QED
        BY <2>1, <2>2, <2>3 DEF TreeInv
<1>14. MakingInv'
    <2>1. ASSUME NEW h \in Procs, h # g, Unattached(h)
          PROVE  NotCancelling(h)' /\ NotCancelling(Watcher(making[h]))'
                 /\ making[h] \in Ctxs /\ making'[h] = making[h]
        <3>1. making[h] \in Ctxs /\ making'[h] = making[h]
            BY <1>7, <2>1, MakingCtx DEF Unattached
        <3>2. NotCancelling(h) /\ NotCancelling(Watcher(making[h]))
            BY <1>1, <2>1 DEF MakingInv
        <3> QED
            BY <1>2, <1>11, <2>1, <3>1, <3>2, Names DEF NotCancelling
    <2>2. ASSUME NEW h \in Procs
          PROVE  /\ step'[h] = "off" <=> making'[h] = None
                 /\ making'[h] # None =>
                       parent'[making'[h]] # None /\ making'[h] \notin known
                       /\ timer[making'[h]] = "nil"
                 /\ Unattached(h)' =>
                       /\ NotCancelling(h)' /\ parent'[making'[h]] \in Nodes
                       /\ err[making'[h]] = "nil" /\ watch[making'[h]] = "off"
                       /\ \A k \in Goroutines : at[k][making'[h]] = "off"
                       /\ NotCancelling(Watcher(making[h]))' \/ h = g
                       /\ h # g => making'[h] = making[h]
                 /\ step'[h] = "unlock" =>
                       /\ parent'[making'[h]] \in Ctxs
                       /\ \A d \in Ctxs : at[h][d] # "off" => making'[h] <= d
        <3>1. CASE h = g
            BY <1>2, <1>5, <1>6, <1>7, <1>8, <1>10, <1>11, <3>1, Names
        <3>2. CASE h # g
            <4>1. making[h] # None => making[h] \in Ctxs /\ making[h] # c
                BY <1>1, <1>8 DEF TypeOK
            <4>2. making'[h] = making[h] /\ step'[h] = step[h]
                  /\ (Unattached(h)' <=> Unattached(h))
                BY <1>7, <1>10, <3>2
            <4>3. making[h] # None => parent'[making[h]] = parent[making[h]]
                BY <1>6, <4>1
            <4>4. Unattached(h) \/ step[h] = "unlock" => making[h] # None
                BY <1>1 DEF MakingInv, Unattached
            <4> QED
                BY <1>1, <2>1, <3>2, <4>1, <4>2, <4>3, <4>4 DEF MakingInv
        <3> QED
            BY <3>1, <3>2
    <2>3. \A h, k \in Procs : making'[h] = making'[k] /\ making'[h] # None => h = k
        BY <1>1, <1>7, <1>8 DEF MakingInv
    <2>4. NotCancelling(Watcher(c))'
        BY <1>8, <1>11, <1>2, Names DEF NotCancelling
    <2> QED
        BY <1>2, <1>7, <2>2, <2>3, <2>4 DEF MakingInv, NotCancelling
<1>15. ASSUME NEW h \in Goroutines PROVE PathInv(h)'
    <2>1. \A d \in Ctxs : at[h][d] # "off" => parent'[d] = parent[d]
        BY <1>6, <1>8
    <2>2. \A a, b \in Ctxs : (a + 1)..b \subseteq Ctxs
        BY CtxsAssumption DEF Ctxs
    <2> QED
        BY <1>1, <1>2, <2>1, <2>2 DEF PathInv
<1>16. ASSUME NEW d \in Ctxs PROVE OnceInv(d)'
    <2>1. CASE d = c
        BY <1>1, <1>2, <1>5, <1>6, <1>8, <1>11, <2>1, Names DEF OnceInv
    <2>2. CASE d # c
        BY <1>1, <1>2, <1>6, <1>11, <1>12, <2>2, Names DEF OnceInv
    <2> QED
        BY <2>1, <2>2
<1>17. LockInv'
    <2>1. ASSUME NEW h \in Goroutines, NEW d \in Ctxs PROVE PlaceInv(h, d)'
        <3>1. PlaceInv(h, d) /\ (at[h][d] # "off" => d # c)
            BY <1>1, <1>8 DEF LockInv
        <3> QED
            BY <1>2, <1>6, <1>11, <1>12, <3>1 DEF PlaceInv
    <2>2. ASSUME NEW h \in Procs, step'[h] = "unlock" PROVE mu'[parent'[making'[h]]] = h
        <3>1. h # g /\ step[h] = "unlock" /\ making[h] \in Ctxs /\ making[h] # c
            BY <1>1, <1>7, <1>8, <2>2, MakingCtx
        <3> QED
            BY <1>1, <1>2, <1>6, <1>7, <3>1 DEF LockInv
    <2> QED
        BY <2>1, <2>2 DEF LockInv
<1>18. ChildrenInv'
    <2>1. ASSUME NEW d \in Ctxs, parent'[d] \in Ctxs PROVE Attached(d)'
        <3>1. CASE d = c
            BY <1>5, <1>6, <1>7, <1>10, <2>1, <3>1 DEF Attached
        <3>2. CASE d # c
            <4>1. Attached(d) /\ parent'[d] = parent[d]
                BY <1>1, <1>6, <2>1, <3>2 DEF ChildrenInv
            <4>2. CASE \E h \in Procs : making[h] = d /\ Unattached(h)
                <5>1. PICK h \in Procs : making[h] = d /\ Unattached(h)
                    BY <4>2
                <5>2. making'[h] = d /\ Unattached(h)'
                    BY <1>7, <1>10, <5>1
                <5> QED
                    BY <5>2 DEF Attached
            <4>3. CASE d \in children[parent[d]]
                BY <1>2, <4>1, <4>3 DEF Attached
            <4>4. CASE err[d] # "nil" /\ ~Walking(d)
                BY <1>2, <1>11, <4>4 DEF Attached
            <4>5. ASSUME NEW h \in Goroutines, at[h][d] \in {"lock", "children"},
                         at[h][parent[d]] = "children" \/ (h \in Procs /\ making[h] = d)
                  PROVE  Attached(d)'
                <5>1. h # g
                    BY <1>11, <4>5
                <5>2. at'[h][d] \in {"lock", "children"}
                      /\ (at'[h][parent'[d]] = "children" \/ (h \in Procs /\ making'[h] = d))
                    BY <1>2, <1>7, <4>1, <4>5, <5>1
                <5> QED
                    BY <5>2 DEF Attached
            <4> QED
                BY <4>1, <4>2, <4>3, <4>4, <4>5 DEF Attached
        <3> QED
            BY <3>1, <3>2
    <2>2. ASSUME NEW d \in Ctxs, NEW e \in children[d]
          PROVE  parent'[e] = d /\ \A h \in Procs : making'[h] = e => ~Unattached(h)'
        <3>1. e \in Ctxs /\ e # c
            BY <1>1, <1>9 DEF TypeOK
        <3>2. parent[e] = d /\ \A h \in Procs : making[h] = e => ~Unattached(h)
            BY <1>1 DEF ChildrenInv
        <3> QED
            BY <1>6, <1>7, <1>10, <3>1, <3>2
    <2>3. \A d \in Ctxs : err'[d] # "nil" /\ ~Walking(d)' => children'[d] = {}
        BY <1>1, <1>2, <1>11 DEF ChildrenInv
    <2> QED
        BY <1>2, <2>1, <2>2, <2>3 DEF ChildrenInv
<1>19. ASSUME NEW d \in Ctxs PROVE ReleaseInv(d)'
    <2>1. ReleaseInv(d)
        BY <1>1
    <2>2. parent'[d] \in Ctxs /\ d \in children[parent'[d]] => parent'[d] = parent[d] /\ d # c
        BY <1>6, <1>9
    <2>3. d \in expired' /\ timer'[d] = "nil" /\ err'[d] = "nil" =>
              \E h \in Procs : making'[h] = d /\ step'[h] = "return" /\ at'[h][d] = "lock"
        <3> SUFFICES ASSUME d \in expired, timer[d] = "nil", err[d] = "nil"
                     PROVE  \E h \in Procs : making'[h] = d /\ step'[h] = "return"
                                             /\ at[h][d] = "lock"
            BY <1>2
        <3>1. PICK h \in Procs : making[h] = d /\ step[h] = "return" /\ at[h][d] = "lock"
            BY <2>1 DEF ReleaseInv
        <3>2. h # g
            BY <1>11, <3>1
        <3> QED
            BY <1>7, <3>1, <3>2
    <2> QED
        BY <1>2, <2>1, <2>2, <2>3 DEF ReleaseInv, Closed
<1> QED
    BY <1>13, <1>14, <1>15, <1>16, <1>17, <1>18, <1>19 DEF IInv

-----------------------------------------------------------------------------
(* The theorems.                                                           *)

LEMMA InitInv == Init => IInv
<1> SUFFICES ASSUME Init PROVE IInv
    OBVIOUS
<1>1. TypeOK
    BY DEF Init, TypeOK
<1>2. TreeInv
    BY Names DEF Init, TreeInv
<1>3. MakingInv
    BY DEF Init, MakingInv, Unattached
<1>4. LockInv
    BY DEF Init, LockInv, PlaceInv
<1>5. ChildrenInv
    BY Names DEF Init, ChildrenInv
<1>6. \A g \in Goroutines : PathInv(g)
    BY DEF Init, PathInv
<1>7. ASSUME NEW c \in Ctxs PROVE OnceInv(c)
    BY Names DEF Init, OnceInv, NotCancelling
<1>8. ASSUME NEW c \in Ctxs PROVE ReleaseInv(c)
    BY DEF Init, ReleaseInv, Closed
<1> QED
    BY <1>1, <1>2, <1>3, <1>4, <1>5, <1>6, <1>7, <1>8 DEF IInv

LEMMA Step == IInv /\ [Next]_vars => IInv'
<1> SUFFICES ASSUME IInv, [Next]_vars PROVE IInv'
    OBVIOUS
<1>1. TypeOK' /\ TypeOK
    BY TypeStep, Parts
<1>2. ASSUME NEW g \in Procs,
             Derive(g) \/ CancelFunc(g) \/ Making(g) \/ DeadlinePassed(g)
      PROVE  IInv'
    BY <1>1, <1>2, DeriveKeeps, CancelFuncCalls, ParentDoneKeeps, AttachKeeps, UnlockKeeps,
       StartKeeps, DeadlinePassedCalls DEF Making
<1>3. ASSUME NEW g \in Goroutines, NEW c \in Ctxs,
             \/ Lock(g, c) \/ CancelChild(g, c) \/ ChildrenDone(g, c) \/ removeChild(g, c)
             \/ StopTimer(g, c)
      PROVE  IInv'
    BY <1>1, <1>3, LockKeeps, CancelChildKeeps, ChildrenDoneKeeps, RemoveChildKeeps,
       StopTimerKeeps
<1>4. ASSUME NEW c \in Ctxs, TimerFires(c) \/ Watching(c) \/ Done(c) PROVE IInv'
    BY <1>1, <1>4, TimerFiresCalls, WatchParentCalls, DoneKeeps DEF Watching
<1>5. ASSUME NEW x \in Customs, CustomEnds(x) PROVE IInv'
    BY <1>1, <1>5, CustomEndsKeeps
<1>6. CASE UNCHANGED vars
    <2>1. UNCHANGED <<treeVars, err, mu, children, timer, expired, making, cancelVars>>
          /\ UNCHANGED <<step, done, watch>>
        BY <1>6 DEF vars, ctxVars, callVars
    <2>2. \A c \in Ctxs : /\ Closed(c)' => Closed(c)
                          /\ watch[c] = "off" => watch'[c] = "off"
        BY <2>1 DEF Closed
    <2> QED
        BY <1>1, <2>1, <2>2, ChannelsKeep
<1>7. known \subseteq Ctxs
    BY <1>1 DEF TypeOK
<1> QED
    BY <1>2, <1>3, <1>4, <1>5, <1>6, <1>7 DEF Next, Cancelling

(* The inductive invariant: cancel goes down one path whose mutexes it     *)
(* holds, and every child is in its parent's list, ended or being ended.   *)
THEOREM Invariant == Spec => []IInv
<1> QED
    BY InitInv, Step, PTL DEF Spec

(* The variables have their types.                                         *)
THEOREM TypeCorrect == Spec => []TypeOK
<1>1. IInv => TypeOK
    BY DEF IInv
<1> QED
    BY <1>1, Invariant, PTL

(* When cancel of a context has let go of its mutex, all that is derived   *)
(* from it has ended too, however many goroutines derive and cancel.       *)
THEOREM DerivedEndToo == Spec => []CancelledTogether
<1>1. IInv => CancelledTogether
    <2> SUFFICES ASSUME IInv, NEW c \in Ctxs, NEW d \in known, parent[d] = c,
                        err[c] # "nil", ~Walking(c)
                 PROVE  err[d] # "nil" /\ ~Walking(d)
        BY DEF CancelledTogether
    <2>1. TypeOK /\ TreeInv /\ MakingInv /\ ChildrenInv
        BY Parts
    <2>2. d \in Ctxs /\ \A g \in Procs : making[g] # d
        BY <2>1, Names DEF TypeOK, MakingInv
    <2>3. children[c] = {} /\ Attached(d)
        BY <2>1, <2>2 DEF ChildrenInv
    <2> QED
        BY <2>2, <2>3 DEF Attached, Walking
<1> QED
    BY <1>1, Invariant, PTL

(* An ended context that no cancel is busy with holds no timer and no      *)
(* place in the list of its parent.                                        *)
THEOREM NothingHeld == Spec => []Released
<1>1. IInv => Released
    <2> SUFFICES ASSUME IInv, NEW c \in known, err[c] # "nil",
                        \A g \in Goroutines :
                           at[g][c] = "off" /\ (parent[c] \in Ctxs => at[g][parent[c]] = "off")
                 PROVE  timer[c] # "armed" /\ (parent[c] \in Ctxs => c \notin children[parent[c]])
        BY DEF Released
    <2>1. TypeOK /\ ChildrenInv /\ \A d \in Ctxs : ReleaseInv(d)
        BY Parts
    <2>2. c \in Ctxs
        BY <2>1 DEF TypeOK
    <2>3. timer[c] # "armed"
        BY <2>1, <2>2 DEF ReleaseInv
    <2>4. parent[c] \in Ctxs => c \notin children[parent[c]]
        <3>1. CASE parent[c] \in Ctxs /\ err[parent[c]] = "nil"
            BY <2>1, <2>2, <3>1 DEF ReleaseInv
        <3>2. CASE parent[c] \in Ctxs /\ err[parent[c]] # "nil"
            BY <2>1, <3>2 DEF ChildrenInv, Walking
        <3> QED
            BY <3>1, <3>2
    <2> QED
        BY <2>3, <2>4
<1> QED
    BY <1>1, Invariant, PTL

-----------------------------------------------------------------------------
(* The tree.                                                               *)

\* The step that ends a context ends it for one of the reasons of the tree.
LEMMA EndsAsTree ==
    ASSUME IInv, NEW g \in Goroutines, NEW c \in Ctxs, Lock(g, c)
    PROVE  [Tree!Next]_(Tree!vars)
<1>1. TypeOK /\ PathInv(g) /\ LockInv
    BY Parts
<1>2. CASE err[c] # "nil"
    BY <1>2 DEF Lock, treeVars, Tree!vars
<1>3. CASE err[c] = "nil"
    <2>1. /\ at[g][c] = "lock" /\ err' = [err EXCEPT ![c] = cause[g]]
          /\ UNCHANGED <<parent, timed>>
        BY <1>3 DEF Lock, treeVars
    <2>2. parent[c] # None /\ cause[g] # "nil" /\ PlaceInv(g, c)
        BY <1>1, <2>1 DEF PathInv, LockInv
    <2>3. Tree!Cancel(c) \/ Tree!Expire(c) \/ Tree!Inherit(c)
        BY <1>3, <2>1, <2>2
           DEF PlaceInv, Tree!Cancel, Tree!Expire, Tree!Inherit, Tree!End, Tree!Ctxs, Nodes, Ctxs
    <2> QED
        BY <2>3 DEF Tree!Next, Tree!Ctxs, Ctxs
<1> QED
    BY <1>2, <1>3

\* WithCancel and WithDeadline derive from a context that is in the tree.
LEMMA DerivesAsTree ==
    ASSUME IInv, NEW g \in Procs, Derive(g)
    PROVE  [Tree!Next]_(Tree!vars)
<1>1. TypeOK /\ TreeInv
    BY Parts
<1>2. PICK c \in Ctxs, p \in known \union Customs \union {Background} :
          /\ parent[c] = None /\ parent' = [parent EXCEPT ![c] = p]
          /\ timed' \in {timed, timed \union {c}}
    BY DEF Derive
<1>3. err' = err
    BY DEF Derive, ctxVars
<1>4. p \in Ctxs \union Customs \union {Background} /\ (p \in Ctxs => parent[p] # None) /\ p # c
    BY <1>1, <1>2, Names DEF TypeOK, TreeInv
<1>5. Tree!Derive(c, p)
    BY <1>2, <1>3, <1>4 DEF Tree!Derive, Tree!Made, Tree!Ctxs, Ctxs
<1> QED
    BY <1>4, <1>5 DEF Tree!Next, Tree!Ctxs, Ctxs

(* The safety part of Implements: every step derives or ends one context   *)
(* as ContextTree says, or changes nothing it speaks of.                   *)
THEOREM StepsOfTree == Spec => Tree!Init /\ [][Tree!Next]_(Tree!vars)
<1>1. Init => Tree!Init
    BY DEF Init, Tree!Init, Tree!Ctxs, Ctxs, Nodes
<1>2. IInv /\ [Next]_vars => [Tree!Next]_(Tree!vars)
    <2> SUFFICES ASSUME IInv, [Next]_vars PROVE [Tree!Next]_(Tree!vars)
        OBVIOUS
    <2>1. ASSUME NEW g \in Procs,
                 CancelFunc(g) \/ Making(g) \/ DeadlinePassed(g)
          PROVE  UNCHANGED <<parent, timed, err>>
        BY <2>1 DEF CancelFunc, Making, ParentDone, Attach, Unlock, Start, DeadlinePassed,
                    treeVars, ctxVars
    <2>2. ASSUME NEW g \in Goroutines, NEW c \in Ctxs,
                 \/ CancelChild(g, c) \/ ChildrenDone(g, c) \/ removeChild(g, c)
                 \/ StopTimer(g, c)
          PROVE  UNCHANGED <<parent, timed, err>>
        BY <2>2 DEF CancelChild, ChildrenDone, removeChild, StopTimer, treeVars
    <2>3. ASSUME NEW c, TimerFires(c) \/ Watching(c) \/ Done(c)
          PROVE  UNCHANGED <<parent, timed, err>>
        BY <2>3 DEF TimerFires, Watching, WatchStart, WatchParent, WatchChild, Done,
                    treeVars, ctxVars
    <2>4. ASSUME NEW x \in Customs, CustomEnds(x) PROVE Tree!Next
        BY <2>4 DEF CustomEnds, treeVars, Tree!Next, Tree!End
    <2>5. CASE UNCHANGED vars
        BY <2>5 DEF vars, treeVars, ctxVars, Tree!vars
    <2>6. UNCHANGED <<parent, timed, err>> => UNCHANGED Tree!vars
        BY DEF Tree!vars
    <2> QED
        BY <2>1, <2>2, <2>3, <2>4, <2>5, <2>6, EndsAsTree, DerivesAsTree DEF Next, Cancelling
<1> QED
    BY <1>1, <1>2, Invariant, PTL DEF Spec
=============================================================================
