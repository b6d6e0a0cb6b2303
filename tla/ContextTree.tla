---------------------------- MODULE ContextTree ----------------------------
(***************************************************************************)
(* What package context promises: contexts form a tree; one ends once, for *)
(* a reason that never changes; and when one ends, everything derived from *)
(* it ends too, for the same reason unless it already had one of its own.  *)
(*                                                                         *)
(* Ctxs are the contexts WithCancel and WithDeadline make; Customs are     *)
(* Contexts of somebody else's type, with a Done channel of their own.     *)
(***************************************************************************)
EXTENDS Naturals

CONSTANTS NumCtxs,      \* how many contexts are derived at most
          Customs, Background, None

VARIABLES
    parent,    \* the context each was derived from; None: not made yet
    timed,     \* those made with a deadline
    err        \* what Err returns, "nil" until the context ends

vars == <<parent, timed, err>>

Ctxs == 1..NumCtxs

Init ==
    /\ parent = [c \in Ctxs |-> None]
    /\ timed = {}
    /\ err = [c \in Ctxs \union Customs |-> "nil"]

Made(p) == p \in Ctxs => parent[p] # None

Derive(c, p) ==
    /\ parent[c] = None /\ Made(p) /\ p # c
    /\ parent' = [parent EXCEPT ![c] = p]
    /\ timed' \in {timed, timed \union {c}}
    /\ UNCHANGED err

End(c, why) ==
    /\ err[c] = "nil" /\ err' = [err EXCEPT ![c] = why]
    /\ UNCHANGED <<parent, timed>>

Cancel(c)  == parent[c] # None /\ End(c, "Canceled")
Expire(c)  == c \in timed /\ End(c, "DeadlineExceeded")
Inherit(c) == /\ parent[c] \in Ctxs \union Customs /\ err[parent[c]] # "nil"
              /\ End(c, err[parent[c]])

Next ==
    \/ \E c \in Ctxs, p \in Ctxs \union Customs \union {Background} : Derive(c, p)
    \/ \E c \in Ctxs : Cancel(c) \/ Expire(c) \/ Inherit(c)
    \/ \E x \in Customs : End(x, "Custom")

Spec == Init /\ [][Next]_vars /\ \A c \in Ctxs : WF_vars(Inherit(c))
=============================================================================
