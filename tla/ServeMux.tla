------------------------------ MODULE ServeMux ------------------------------
(***************************************************************************)
(* http.ServeMux: patterns being registered while a client sends a request *)
(* and follows the redirects it gets.  mux.mu makes each registration and  *)
(* each lookup one step; a request makes two lookups.  A path is a sequence*)
(* of slashes and names, a pattern a path that may begin with a host.      *)
(***************************************************************************)
EXTENDS Naturals, Sequences, SequencesExt

CONSTANTS Patterns,   \* the patterns registered
          Requests    \* the requests: method, host, port and path

VARIABLES
    m, es, hosts,   \* ServeMux: the patterns, those that end in "/" in order, any host
    req,            \* the request
    at,             \* "redirectToPathSlash", "handler", "moved" or "answered"
    answer,         \* the pattern found, NotFound or BadRequest; where it is moved to
    hops, slashed   \* the redirects followed; which one only added a "/", or 0

\* What the constants have to be: Handle panics on an empty pattern.
MuxAssumption ==
    /\ Patterns \subseteq Seq(STRING) \ {<<>>}
    /\ Requests \subseteq [method : STRING, host : STRING, port : BOOLEAN, path : Seq(STRING)]
    /\ \A q \in Requests : q.host # "/"

vars == <<m, es, hosts, req, at, answer, hops, slashed>>
requestVars == <<req, at, answer, hops, slashed>>

Slash == <<"/">>
NotFound == <<>>
BadRequest == <<"bad request">>
EndsInSlash(p) == p # <<>> /\ p[Len(p)] = "/"

Init ==
    /\ m = {} /\ es = <<>> /\ hosts = FALSE
    /\ req \in Requests
    /\ at = "redirectToPathSlash" /\ answer = NotFound /\ hops = 0 /\ slashed = 0
-----------------------------------------------------------------------------
(* Paths. *)

\* path.Clean of a rooted path: the directories entered, name by name.
Enter(dir, name) ==
    CASE name \in {"/", "."} -> dir
      [] name = ".."         -> IF dir = <<>> THEN dir ELSE Front(dir)
      [] OTHER               -> Append(dir, name)
Entered(p) == LET f[i \in 0..Len(p)] == IF i = 0 THEN <<>> ELSE Enter(f[i - 1], p[i]) IN f
Rooted(names) == [k \in 1..(2 * Len(names)) |-> IF k % 2 = 1 THEN "/" ELSE names[k \div 2]]
Clean(p) == LET names == Entered(p)[Len(p)] IN IF names = <<>> THEN Slash ELSE Rooted(names)

\* Mutant of cleanPath: the trailing slash is not put back.
cleanPathNoSlash(p) == IF p = <<>> THEN Slash ELSE Clean(p)

cleanPath(p) ==
    LET np == Clean(p)
    IN  IF p # <<>> /\ EndsInSlash(p) /\ np # Slash THEN np \o Slash ELSE np

\* Redirect cleans the path it is given, in the same way.
Location(p) == cleanPath(p)

\* Of a CONNECT the host and the path are used as they are.  One with a path
\* has no host in its URL.
isConnect == req.method = "CONNECT"
host == IF isConnect /\ req.port THEN "host:port" ELSE req.host
urlHost == IF isConnect THEN <<>> ELSE <<host>>
path == IF isConnect THEN req.path ELSE cleanPath(req.path)
-----------------------------------------------------------------------------
(* Registration. *)

\* Mutant of appendSorted: the slice is sorted from the shortest on.
appendSortedShort(s, p) ==
    LET i == SelectInSeq(s, LAMBDA q : Len(q) > Len(p))
    IN  IF i = 0 THEN Append(s, p) ELSE InsertAt(s, i, p)

\* appendSorted keeps the longest first: p comes before the first that is
\* shorter.
appendSorted(s, p) ==
    LET i == SelectInSeq(s, LAMBDA q : Len(q) < Len(p))
    IN  IF i = 0 THEN Append(s, p) ELSE InsertAt(s, i, p)

\* A pattern registered twice panics and changes nothing.
Handle(p) ==
    /\ p \notin m
    /\ m' = m \cup {p}
    /\ es' = IF EndsInSlash(p) THEN appendSorted(es, p) ELSE es
    /\ hosts' = (hosts \/ p[1] # "/")
    /\ UNCHANGED requestVars
-----------------------------------------------------------------------------
(* Lookup. *)

match(p) ==
    IF p \in m THEN p
    ELSE LET i == SelectInSeq(es, LAMBDA e : IsPrefix(e, p)) IN IF i = 0 THEN NotFound ELSE es[i]

handler(p) ==
    LET h == IF hosts THEN match(<<host>> \o p) ELSE NotFound
    IN  IF h # NotFound THEN h ELSE match(p)

shouldRedirect ==
    LET ps == {path, urlHost \o path}
    IN  ps \cap m = {} /\ path # <<>> /\ ~EndsInSlash(path) /\ \E p \in ps : p \o Slash \in m

\* The reply to "*" comes before any lookup.
Asterisk ==
    /\ at = "redirectToPathSlash" /\ req.path = <<"*">>
    /\ at' = "answered" /\ answer' = BadRequest
    /\ UNCHANGED <<m, es, hosts, req, hops, slashed>>

redirectToPathSlash ==
    /\ at = "redirectToPathSlash" /\ req.path # <<"*">>
    /\ slashed' = IF shouldRedirect THEN hops + 1 ELSE slashed
    /\ IF shouldRedirect THEN at' = "moved" /\ answer' = Location(path \o Slash)
       ELSE at' = "handler" /\ UNCHANGED answer
    /\ UNCHANGED <<m, es, hosts, req, hops>>

\* The second lookup, for a path that is clean: else the client is sent there.
Find ==
    /\ at = "handler"
    /\ IF path = req.path THEN at' = "answered" /\ answer' = handler(path)
       ELSE at' = "moved" /\ answer' = Location(path)
    /\ UNCHANGED <<m, es, hosts, req, hops, slashed>>

\* The client repeats the request where it has been sent.
Follow ==
    /\ at = "moved"
    /\ at' = "redirectToPathSlash" /\ req' = [req EXCEPT !.path = answer]
    /\ answer' = NotFound /\ hops' = hops + 1
    /\ UNCHANGED <<m, es, hosts, slashed>>

Next ==
    \/ \E p \in Patterns : Handle(p)
    \/ Asterisk \/ redirectToPathSlash \/ Find \/ Follow

Spec == Init /\ [][Next]_vars
-----------------------------------------------------------------------------
\* The patterns for a path: the path itself, or a subtree it is in.
Matching(p) == {q \in m : q = p \/ (EndsInSlash(q) /\ IsPrefix(q, p))}
Longest(S) == CHOOSE q \in S : \A o \in S : Len(o) <= Len(q)
Best ==
    LET ofHost == Matching(<<host>> \o path)
    IN  IF ofHost # {} THEN Longest(ofHost)
        ELSE IF Matching(path) # {} THEN Longest(Matching(path)) ELSE NotFound

\* In whatever order patterns have been registered, before the request or
\* between its two lookups, the handler found is the one of the longest
\* pattern, and one for the host comes before all others.
Choice == at = "handler" /\ at' = "answered" => answer' = Best

\* A client is redirected at most twice, however patterns are registered in
\* between, always to a clean path other than the one it asked for; one sent
\* on by a slash is not redirected again and finds a handler.
RedirectsEnd ==
    /\ hops <= 2
    /\ at = "moved" => cleanPath(answer) = answer /\ answer # req.path
    /\ slashed # 0 /\ hops = slashed => at # "moved" /\ (at = "answered" => answer # NotFound)
=============================================================================
