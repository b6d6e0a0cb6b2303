----------------------------- MODULE CancelCtx -----------------------------
(***************************************************************************)
(* Package context: cancelCtx and timerCtx, the tree they form, and the    *)
(* goroutines that derive contexts, cancel them, run their timers, and     *)
(* watch a parent of a foreign type.                                       *)
(*                                                                         *)
(* cancel walks down the tree holding the mutex of every context on its    *)
(* way, so a step that takes a mutex is a step of its own; what one does   *)
(* under a single mutex is one step.  A valueCtx only forwards to the      *)
(* context it wraps and is left out: parent[c] is the nearest context      *)
(* above c with a Done channel.  Ctxs are numbered in the order they are   *)
(* made, so a child is greater than its parent.  A deadline may pass at    *)
(* any time.                                                               *)
(***************************************************************************)
EXTENDS Naturals, FiniteSets

CONSTANTS
    NumCtxs, MaxTimed,    \* how many contexts, and timerCtxs, there are at most
    Procs,                \* goroutines that derive and cancel contexts
    Customs,              \* Contexts of other types, with their own Done
    Background, None

ASSUME CtxsAssumption ==
    /\ NumCtxs \in Nat /\ MaxTimed \in Nat
    /\ Background # None
    /\ {Background, None} \intersect (Procs \union Customs \union 1..NumCtxs) = {}
    /\ Customs \intersect 1..NumCtxs = {}

VARIABLES
    parent, timed,        \* the tree; which contexts are timerCtxs
    err,                  \* c.err, and what Err of a custom context returns
    done,                 \* c.done: nil, open, closed, or closedchan
    mu,                   \* who holds c.mu: a goroutine or None
    children,             \* c.children
    timer,                \* c.timer: nil, armed, fired (running) or stopped
    expired,              \* contexts whose deadline has passed
    known,                \* contexts that WithCancel or WithDeadline returned
    watch,                \* the goroutine of propagateCancel: off, start, wait
    making, step,         \* what a goroutine is deriving, and where it is
    at,                   \* where g is in cancel of c
    cause, top            \* the err of g's cancel; the context it removes

treeVars   == <<parent, timed, known>>
callVars   == <<making, step>>
cancelVars == <<at, cause, top>>
ctxVars    == <<err, done, mu, children, timer, expired>>
vars == <<treeVars, ctxVars, watch, callVars, cancelVars>>

Ctxs  == 1..NumCtxs
Nodes == Ctxs \union Customs
Errs  == {"Canceled", "DeadlineExceeded", "Custom"}

\* The function of AfterFunc and the goroutine of propagateCancel.
Timer(c)   == <<"timer", c>>
Watcher(c) == <<"watch", c>>
Goroutines == Procs \union {Timer(c) : c \in Ctxs} \union {Watcher(c) : c \in Ctxs}

ASSUME GoroutinesAssumption ==
    None \notin Goroutines /\ \A c \in Ctxs : Timer(c) \notin Procs /\ Watcher(c) \notin Procs

TypeOK ==
    /\ parent \in [Ctxs -> Nodes \union {Background, None}]
    /\ timed \subseteq Ctxs /\ known \subseteq Ctxs /\ expired \subseteq timed
    /\ err \in [Nodes -> Errs \union {"nil"}]
    /\ done \in [Ctxs -> {"nil", "open", "closed", "closedchan"}]
    /\ mu \in [Ctxs -> Goroutines \union {None}]
    /\ children \in [Ctxs -> SUBSET Ctxs]
    /\ timer \in [Ctxs -> {"nil", "armed", "fired", "stopped"}]
    /\ watch \in [Ctxs -> {"off", "start", "wait"}]
    /\ making \in [Procs -> Ctxs \union {None}]
    /\ step \in [Procs -> {"off", "done", "attach", "unlock", "start", "return"}]
    /\ at \in [Goroutines -> [Ctxs -> {"off", "lock", "children", "remove", "stop"}]]
    /\ cause \in [Goroutines -> Errs \union {"nil"}]
    /\ top \in [Goroutines -> Ctxs \union {None}]

Init ==
    /\ parent = [c \in Ctxs |-> None] /\ timed = {} /\ known = {}
    /\ err = [c \in Nodes |-> "nil"]
    /\ done = [c \in Ctxs |-> "nil"]
    /\ mu = [c \in Ctxs |-> None]
    /\ children = [c \in Ctxs |-> {}]
    /\ timer = [c \in Ctxs |-> "nil"] /\ expired = {}
    /\ watch = [c \in Ctxs |-> "off"]
    /\ making = [g \in Procs |-> None] /\ step = [g \in Procs |-> "off"]
    /\ at = [g \in Goroutines |-> [c \in Ctxs |-> "off"]]
    /\ cause = [g \in Goroutines |-> "nil"]
    /\ top = [g \in Goroutines |-> None]

Closed(c) == done[c] \in {"closed", "closedchan"}
Free(c)   == mu[c] = None

\* g is in no cancel; in none below c.
NotCancelling(g) == \A c \in Ctxs : at[g][c] = "off"
InnermostAt(g, c, where) ==
    at[g][c] = where /\ \A d \in Ctxs : parent[d] = c => at[g][d] = "off"

\* g calls child.cancel(remove, why).
Call(g, c, why, remove) ==
    /\ at' = [at EXCEPT ![g][c] = "lock"]
    /\ cause' = [cause EXCEPT ![g] = why]
    /\ top' = [top EXCEPT ![g] = IF remove THEN c ELSE None]

\* g goes on in cancel of c, or returns from it; the outermost call ends.
Go(g, c, where) ==
    LET over == where = "off" /\ (parent[c] \in Ctxs => at[g][parent[c]] = "off") IN
    /\ at' = [at EXCEPT ![g][c] = where]
    /\ cause' = [cause EXCEPT ![g] = IF over THEN "nil" ELSE @]
    /\ top' = [top EXCEPT ![g] = IF over THEN None ELSE @]

-----------------------------------------------------------------------------
(* WithCancel and WithDeadline.                                            *)

(* newCancelCtx.  A parent whose deadline comes first makes WithDeadline a *)
(* WithCancel; the parent is never cancelled when its Done is nil.         *)
Derive(g) ==
    /\ making[g] = None /\ NotCancelling(g)
    /\ \E c \in Ctxs, p \in known \union Customs \union {Background} :
          /\ parent[c] = None /\ \A d \in 1..(c - 1) : parent[d] # None
          /\ parent' = [parent EXCEPT ![c] = p]
          /\ timed' \in {timed, timed \union {c}} /\ Cardinality(timed') <= MaxTimed
          /\ making' = [making EXCEPT ![g] = c]
          /\ step' = [step EXCEPT ![g] = IF p = Background THEN "start" ELSE "done"]
    /\ UNCHANGED <<known, ctxVars, watch, cancelVars>>

(* parent.Done(), which makes the channel when there is none, and the      *)
(* first select of propagateCancel.  parent.Err() waits for the mutex.     *)
ParentDone(g) ==
    LET c == making[g]  p == parent[c] IN
    /\ step[g] = "done"
    /\ p \in Ctxs => done[p] = "open" \/ Free(p)
    /\ IF (p \in Ctxs /\ Closed(p)) \/ (p \in Customs /\ err[p] # "nil")
         THEN /\ Call(g, c, err[p], FALSE)
              /\ step' = [step EXCEPT ![g] = "start"]
              /\ UNCHANGED done
         ELSE /\ step' = [step EXCEPT ![g] = "attach"]
              /\ done' = IF p \in Ctxs THEN [done EXCEPT ![p] = "open"] ELSE done
              /\ UNCHANGED cancelVars
    /\ UNCHANGED <<treeVars, err, mu, children, timer, expired, watch, making>>

\* Mutant of Attach: p.err is not looked at again under p.mu.
AttachUnchecked(g) ==
    LET c == making[g]  p == parent[c] IN
    /\ step[g] = "attach" /\ (p \in Ctxs => Free(p))
    /\ step' = [step EXCEPT ![g] = "start"]
    /\ IF p \in Ctxs
         THEN children' = [children EXCEPT ![p] = @ \union {c}] /\ UNCHANGED watch
         ELSE watch' = [watch EXCEPT ![c] = "start"] /\ UNCHANGED children
    /\ UNCHANGED <<treeVars, err, done, mu, timer, expired, making, cancelVars>>

(* The rest of propagateCancel: under p.mu when parentCancelCtx finds a    *)
(* cancelCtx, else a goroutine that watches both Done channels.            *)
Attach(g) ==
    LET c == making[g]  p == parent[c] IN
    /\ step[g] = "attach"
    /\ \/ /\ p \in Ctxs /\ Free(p) /\ err[p] # "nil"
          /\ mu' = [mu EXCEPT ![p] = g]
          /\ Call(g, c, err[p], FALSE)
          /\ step' = [step EXCEPT ![g] = "unlock"]
          /\ UNCHANGED <<children, watch>>
       \/ /\ p \in Ctxs /\ Free(p) /\ err[p] = "nil"
          /\ children' = [children EXCEPT ![p] = @ \union {c}]
          /\ step' = [step EXCEPT ![g] = "start"]
          /\ UNCHANGED <<mu, watch, cancelVars>>
       \/ /\ p \in Customs
          /\ watch' = [watch EXCEPT ![c] = "start"]
          /\ step' = [step EXCEPT ![g] = "start"]
          /\ UNCHANGED <<mu, children, cancelVars>>
    /\ UNCHANGED <<treeVars, err, done, timer, expired, making>>

Unlock(g) ==
    /\ step[g] = "unlock" /\ NotCancelling(g)
    /\ mu' = [mu EXCEPT ![parent[making[g]]] = None]
    /\ step' = [step EXCEPT ![g] = "start"]
    /\ UNCHANGED <<treeVars, err, done, children, timer, expired, watch, making,
                   cancelVars>>

(* WithDeadline after propagateCancel, when the deadline has passed.       *)
DeadlinePassed(g) ==
    LET c == making[g] IN
    /\ step[g] = "start" /\ NotCancelling(g) /\ c \in timed
    /\ expired' = expired \union {c}
    /\ Call(g, c, "DeadlineExceeded", TRUE)
    /\ step' = [step EXCEPT ![g] = "return"]
    /\ UNCHANGED <<treeVars, err, done, mu, children, timer, watch, making>>

\* Mutant of Start: c.err is not tested.
StartAlways(g) ==
    LET c == making[g] IN
    /\ \/ step[g] = "start" \/ step[g] = "return"
    /\ NotCancelling(g)
    /\ IF step[g] = "start" /\ c \in timed
         THEN Free(c) /\ timer' = [timer EXCEPT ![c] = "armed"]
         ELSE UNCHANGED timer
    /\ known' = known \union {c}
    /\ making' = [making EXCEPT ![g] = None]
    /\ step' = [step EXCEPT ![g] = "off"]
    /\ UNCHANGED <<parent, timed, err, done, mu, children, expired, watch, cancelVars>>

(* The timer is set under c.mu, unless c has been cancelled by its parent. *)
Start(g) ==
    LET c == making[g] IN
    /\ \/ step[g] = "start" \/ step[g] = "return"
    /\ NotCancelling(g)
    /\ IF step[g] = "start" /\ c \in timed
         THEN /\ Free(c)
              /\ timer' = IF err[c] = "nil" THEN [timer EXCEPT ![c] = "armed"]
                                            ELSE timer
         ELSE UNCHANGED timer
    /\ known' = known \union {c}
    /\ making' = [making EXCEPT ![g] = None]
    /\ step' = [step EXCEPT ![g] = "off"]
    /\ UNCHANGED <<parent, timed, err, done, mu, children, expired, watch, cancelVars>>

-----------------------------------------------------------------------------
(* cancel.                                                                 *)

(* A CancelFunc.  The one WithDeadline returned for a deadline in the past *)
(* does not remove the context again.                                      *)
CancelFunc(g) ==
    /\ making[g] = None /\ NotCancelling(g)
    /\ \E c \in known : Call(g, c, "Canceled", ~(c \in expired /\ timer[c] = "nil"))
    /\ UNCHANGED <<treeVars, ctxVars, watch, callVars>>

TimerFires(c) ==
    /\ timer[c] = "armed"
    /\ timer' = [timer EXCEPT ![c] = "fired"]
    /\ expired' = expired \union {c}
    /\ Call(Timer(c), c, "DeadlineExceeded", TRUE)
    /\ UNCHANGED <<treeVars, err, done, mu, children, watch, callVars>>

\* Where cancel of c goes when cancelCtx.cancel has let go of c.mu.
AfterWalk(g, c) ==
    IF top[g] = c THEN "remove" ELSE IF c \in timed THEN "stop" ELSE "off"

\* Mutant of Lock: c.err is not tested.
LockAgain(g, c) ==
    /\ at[g][c] = "lock" /\ Free(c)
    /\ err' = [err EXCEPT ![c] = cause[g]]
    /\ done' = [done EXCEPT ![c] = IF @ = "nil" THEN "closedchan" ELSE "closed"]
    /\ mu' = [mu EXCEPT ![c] = g]
    /\ Go(g, c, "children")
    /\ UNCHANGED <<treeVars, children, timer, expired, watch, callVars>>

(* c.mu.Lock, and the first cancel sets err and closes done.               *)
Lock(g, c) ==
    /\ at[g][c] = "lock" /\ Free(c)
    /\ IF err[c] # "nil"
         THEN /\ Go(g, c, IF c \in timed THEN AfterWalk(g, c) ELSE "off")
              /\ UNCHANGED <<err, done, mu>>
         ELSE /\ err' = [err EXCEPT ![c] = cause[g]]
              /\ done' = [done EXCEPT ![c] = IF @ = "nil" THEN "closedchan" ELSE "closed"]
              /\ mu' = [mu EXCEPT ![c] = g]
              /\ Go(g, c, "children")
    /\ UNCHANGED <<treeVars, children, timer, expired, watch, callVars>>

(* The loop over c.children, in any order, under c.mu: nobody else sees    *)
(* which are left.                                                         *)
CancelChild(g, c) ==
    /\ InnermostAt(g, c, "children")
    /\ \E d \in children[c] :
          /\ children' = [children EXCEPT ![c] = @ \ {d}]
          /\ at' = [at EXCEPT ![g][d] = "lock"]
    /\ UNCHANGED <<treeVars, err, done, mu, timer, expired, watch, callVars,
                   cause, top>>

\* Mutant of ChildrenDone: removeChild before c.mu is unlocked.
ChildrenDoneLocked(g, c) ==
    /\ InnermostAt(g, c, "children") /\ children[c] = {}
    /\ (top[g] = c /\ parent[c] \in Ctxs) => Free(parent[c])
    /\ mu' = [mu EXCEPT ![c] = None]
    /\ Go(g, c, AfterWalk(g, c))
    /\ UNCHANGED <<treeVars, err, done, children, timer, expired, watch, callVars>>

\* c.children = nil; c.mu.Unlock().
ChildrenDone(g, c) ==
    /\ InnermostAt(g, c, "children") /\ children[c] = {}
    /\ mu' = [mu EXCEPT ![c] = None]
    /\ Go(g, c, AfterWalk(g, c))
    /\ UNCHANGED <<treeVars, err, done, children, timer, expired, watch, callVars>>

\* Mutant of removeChild: the parent keeps the child.
removeNoChild(g, c) ==
    /\ at[g][c] = "remove"
    /\ Go(g, c, IF c \in timed THEN "stop" ELSE "off")
    /\ UNCHANGED <<treeVars, ctxVars, watch, callVars>>

(* removeChild, under the mutex of the parent when parentCancelCtx finds   *)
(* one: it does not when the parent's done is closedchan.                  *)
removeChild(g, c) ==
    LET p == parent[c] IN
    /\ at[g][c] = "remove"
    /\ IF p \in Ctxs /\ done[p] # "closedchan"
         THEN Free(p) /\ children' = [children EXCEPT ![p] = @ \ {c}]
         ELSE UNCHANGED children
    /\ Go(g, c, IF c \in timed THEN "stop" ELSE "off")
    /\ UNCHANGED <<treeVars, err, done, mu, timer, expired, watch, callVars>>

(* The end of timerCtx.cancel.                                             *)
StopTimer(g, c) ==
    /\ at[g][c] = "stop" /\ Free(c)
    /\ timer' = [timer EXCEPT ![c] = IF @ = "nil" THEN "nil" ELSE "stopped"]
    /\ Go(g, c, "off")
    /\ UNCHANGED <<treeVars, err, done, mu, children, expired, watch, callVars>>

-----------------------------------------------------------------------------
(* The goroutine of propagateCancel for a parent of another type, whose    *)
(* select first asks for child.Done().                                     *)

WatchStart(c) ==
    /\ watch[c] = "start" /\ (done[c] = "nil" => Free(c))
    /\ done' = [done EXCEPT ![c] = IF @ = "nil" THEN "open" ELSE @]
    /\ watch' = [watch EXCEPT ![c] = "wait"]
    /\ UNCHANGED <<treeVars, err, mu, children, timer, expired, callVars, cancelVars>>

WatchParent(c) ==
    /\ watch[c] = "wait" /\ err[parent[c]] # "nil"
    /\ watch' = [watch EXCEPT ![c] = "off"]
    /\ Call(Watcher(c), c, err[parent[c]], FALSE)
    /\ UNCHANGED <<treeVars, ctxVars, callVars>>

\* Mutant of WatchChild: the child's Done is not selected on.
WatchChildNot(c) == watch[c] = "wait" /\ UNCHANGED vars

WatchChild(c) ==
    /\ watch[c] = "wait" /\ Closed(c)
    /\ watch' = [watch EXCEPT ![c] = "off"]
    /\ UNCHANGED <<treeVars, ctxVars, callVars, cancelVars>>

(* A user asks for Done; a custom context ends when it likes.              *)
Done(c) ==
    /\ done[c] = "nil" /\ Free(c)
    /\ done' = [done EXCEPT ![c] = "open"]
    /\ UNCHANGED <<treeVars, err, mu, children, timer, expired, watch, callVars,
                   cancelVars>>

CustomEnds(x) ==
    /\ err[x] = "nil" /\ err' = [err EXCEPT ![x] = "Custom"]
    /\ UNCHANGED <<treeVars, done, mu, children, timer, expired, watch, callVars,
                   cancelVars>>

-----------------------------------------------------------------------------
Cancelling(g) == \E c \in Ctxs :
    \/ Lock(g, c) \/ CancelChild(g, c) \/ ChildrenDone(g, c) \/ removeChild(g, c)
    \/ StopTimer(g, c)

Making(g) == ParentDone(g) \/ Attach(g) \/ Unlock(g) \/ Start(g)

Watching(c) == WatchStart(c) \/ WatchParent(c) \/ WatchChild(c)

Next ==
    \/ \E g \in Procs : Derive(g) \/ CancelFunc(g) \/ Making(g) \/ DeadlinePassed(g)
    \/ \E g \in Goroutines : Cancelling(g)
    \/ \E c \in Ctxs : TimerFires(c) \/ Watching(c)
    \/ \E c \in known : Done(c)
    \/ \E x \in Customs : CustomEnds(x)

(* Goroutines that can run do.  Nobody has to derive or cancel a context,  *)
(* and a deadline may lie far away.                                        *)
Spec ==
    /\ Init /\ [][Next]_vars
    /\ \A g \in Procs : WF_vars(Making(g))
    /\ \A g \in Goroutines : WF_vars(Cancelling(g))
    /\ \A c \in Ctxs : WF_vars(Watching(c))

-----------------------------------------------------------------------------
(* Properties.                                                             *)

(* The tree keeps the promise of ContextTree: reasons never change, a      *)
(* context that ends because of its parent takes over its reason, and what *)
(* is derived from a context that ended ends.                              *)
Tree == INSTANCE ContextTree

Implements == Tree!Spec

(* When the mutex of an ended context is free again, so that a CancelFunc  *)
(* has returned or is about to, every context derived from it by           *)
(* propagateCancel has ended too, and so has everything below: no child    *)
(* slips in between the check of the parent and the walk.                  *)
Walking(c) == \E g \in Goroutines : at[g][c] = "children"

CancelledTogether ==
    \A c \in Ctxs, d \in known :
        parent[d] = c /\ err[c] # "nil" /\ ~Walking(c)
          => err[d] # "nil" /\ ~Walking(d)

(* An ended context that nobody is working on any more holds nothing: its  *)
(* parent does not list it and no timer of it is pending.                  *)
Released ==
    \A c \in known :
        (/\ err[c] # "nil"
         /\ \A g \in Goroutines :
               at[g][c] = "off" /\ (parent[c] \in Ctxs => at[g][parent[c]] = "off"))
          => /\ timer[c] # "armed"
             /\ parent[c] \in Ctxs => c \notin children[parent[c]]

(* Every call of cancel returns: the walk down, which holds the mutexes of *)
(* the parents, and the removal from a parent never wait for each other.   *)
CancelReturns == \A g \in Goroutines : ~NotCancelling(g) ~> NotCancelling(g)

(* The goroutine that watches a foreign parent ends with its child.        *)
WatchersEnd == \A c \in Ctxs : Closed(c) ~> (watch[c] = "off")

-----------------------------------------------------------------------------
(* An inductive invariant for CancelledTogether and Released, and for the  *)
(* safety part of Implements.                                              *)

Unattached(g) == step[g] \in {"done", "attach"}

\* A parent is older than its child, and is made before it.
TreeInv ==
    /\ \A c \in Ctxs : parent[c] \in Ctxs => parent[c] < c /\ parent[c] \in known
    /\ \A c, d \in Ctxs : c < d /\ parent[d] # None => parent[c] # None
    /\ \A c \in known : parent[c] # None
    /\ \A c \in Ctxs : parent[c] = None =>
          err[c] = "nil" /\ timer[c] = "nil" /\ watch[c] = "off"

\* Nobody knows a context that is being made; not even its parent before it
\* is attached.
MakingInv ==
    /\ \A g \in Procs :
          /\ step[g] = "off" <=> making[g] = None
          /\ making[g] # None =>
                parent[making[g]] # None /\ making[g] \notin known /\ timer[making[g]] = "nil"
          /\ Unattached(g) =>
                /\ NotCancelling(g) /\ parent[making[g]] \in Nodes
                /\ err[making[g]] = "nil" /\ watch[making[g]] = "off"
                /\ \A h \in Goroutines : at[h][making[g]] = "off"
                /\ NotCancelling(Watcher(making[g]))
          /\ step[g] = "unlock" =>
                parent[making[g]] \in Ctxs /\ \A c \in Ctxs : at[g][c] # "off" => making[g] <= c
    /\ \A g, h \in Procs : making[g] = making[h] /\ making[g] # None => g = h

\* The places of a goroutine in cancel are a path down the tree.
PathInv(g) ==
    /\ \A c, d \in Ctxs : c < d /\ at[g][c] # "off" /\ at[g][d] # "off" =>
          /\ at[g][c] = "children"
          /\ \E e \in (c + 1)..d : parent[e] = c /\ at[g][e] # "off"
          /\ parent[d] \in Ctxs /\ at[g][parent[d]] # "off"
    /\ \A c \in Ctxs : at[g][c] # "off" => parent[c] # None /\ cause[g] # "nil"

\* Timers and watchers cancel once.
OnceInv(c) ==
    /\ timer[c] \in {"nil", "armed"} => NotCancelling(Timer(c))
    /\ timer[c] = "armed" => c \in timed
    /\ watch[c] # "off" => NotCancelling(Watcher(c)) /\ parent[c] \in Customs
    /\ ~NotCancelling(Watcher(c)) => parent[c] # None

\* Who is in a loop over children holds the mutex, and nobody cancels twice.
PlaceInv(g, c) ==
    /\ at[g][c] = "children" => mu[c] = g /\ err[c] = cause[g]
    /\ at[g][c] \in {"remove", "stop"} => err[c] # "nil" /\ ~Walking(c)
    /\ at[g][c] = "lock" =>
          \/ cause[g] = "Canceled"
          \/ cause[g] = "DeadlineExceeded" /\ c \in timed
          \/ parent[c] \in Nodes /\ err[parent[c]] = cause[g]

LockInv ==
    /\ \A g \in Goroutines, c \in Ctxs : PlaceInv(g, c)
    /\ \A g \in Procs : step[g] = "unlock" => mu[parent[making[g]]] = g

\* A context is on its way to its parent's list, in it, ended, or about to be.
Attached(d) ==
    \/ \E g \in Procs : making[g] = d /\ Unattached(g)
    \/ d \in children[parent[d]]
    \/ err[d] # "nil" /\ ~Walking(d)
    \/ \E g \in Goroutines :
          /\ at[g][d] \in {"lock", "children"}
          /\ at[g][parent[d]] = "children" \/ (g \in Procs /\ making[g] = d)

ChildrenInv ==
    /\ \A c \in Ctxs : \A d \in children[c] :
          parent[d] = c /\ \A g \in Procs : making[g] = d => ~Unattached(g)
    /\ \A c \in Ctxs : err[c] # "nil" /\ ~Walking(c) => children[c] = {}
    /\ \A d \in Ctxs : parent[d] \in Ctxs => Attached(d)

\* What an ended context still holds, somebody is about to take from it.
ReleaseInv(c) ==
    /\ \A g \in Goroutines :
          (/\ at[g][c] = "lock" /\ err[c] = "nil" /\ parent[c] \in Ctxs
           /\ c \in children[parent[c]]) => top[g] = c
    /\ (/\ parent[c] \in Ctxs /\ c \in children[parent[c]]
        /\ err[c] # "nil" /\ err[parent[c]] = "nil") =>
          \E g \in Goroutines :
             (at[g][c] = "children" /\ top[g] = c) \/ at[g][c] = "remove"
    /\ timer[c] = "armed" /\ err[c] # "nil" =>
          \E g \in Goroutines : at[g][c] \in {"children", "remove", "stop"}
    /\ Closed(c) => err[c] # "nil"
    /\ c \in expired /\ timer[c] = "nil" /\ err[c] = "nil" =>
          \E g \in Procs : making[g] = c /\ step[g] = "return" /\ at[g][c] = "lock"

IInv ==
    /\ TypeOK /\ TreeInv /\ MakingInv /\ LockInv /\ ChildrenInv
    /\ \A g \in Goroutines : PathInv(g)
    /\ \A c \in Ctxs : OnceInv(c) /\ ReleaseInv(c)
=============================================================================
