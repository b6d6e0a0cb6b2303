------------------------------- MODULE Syslog -------------------------------
(***************************************************************************)
(* syslog.Writer: a connection to the log daemon that its callers share.   *)
(*                                                                         *)
(* w.mu is held from the first attempt to send to the last, so that there  *)
(* is one call at a time inside writeAndRetry, whose steps are those of    *)
(* the variable call.  The daemon may restart at any time: an attempt to   *)
(* send fails, and a connection is made or refused.  An attempt without an *)
(* error says that the kernel took the message and no more; what becomes   *)
(* of it then, lost or not, the Writer does not learn.                     *)
(***************************************************************************)
EXTENDS Integers, Sequences

CONSTANTS Procs,      \* the goroutines
          Priority,   \* the priority passed to New
          MaxCalls,   \* bound on the calls made
          MaxDials    \* bound on the connections made

\* LOG_LOCAL7|LOG_DEBUG is the greatest; Dial refuses any other.
SyslogAssumption == Priority \in 0..191 /\ MaxCalls \in Nat /\ MaxDials \in Nat \ {0}

VARIABLES
    conn,       \* w.conn, a number, or NoConn
    open,       \* the connections that are open
    dials,      \* how many there have been
    call,       \* the call that holds w.mu, with where it is, or NoCall
    attempts,   \* the attempts to send, over which connection, and their errors
    returned    \* what each goroutine's calls have returned: a set

syslogVars == <<conn, open, dials, call, attempts, returned>>

NoConn == 0
NoCall == [at |-> "none"]
LOG_CRIT == 2
severityMask == 8       \* the severities are the numbers below
Severity(p) == p % severityMask
Facility(p) == (p \div severityMask) * severityMask

\* New: the Writer exists when the connection has been made.
SyslogInit ==
    /\ conn = 1 /\ open = {1} /\ dials = 1
    /\ call = NoCall /\ attempts = <<>> /\ returned = [p \in Procs |-> {}]

\* write: a message ends in one newline, added unless it has one.
Newline == <<"newline">>
EndLine(msg) == IF msg # <<>> /\ msg[Len(msg)] = Newline THEN msg ELSE Append(msg, Newline)

\* writeAndRetry takes w.mu: the facility is the Writer's, the severity the
\* caller's.
Enter(p, priority, msg) ==
    /\ call = NoCall
    /\ call' = [at |-> IF conn = NoConn THEN "connect" ELSE "write",
                proc |-> p, pr |-> Facility(Priority) + Severity(priority), msg |-> msg]
    /\ UNCHANGED <<conn, open, dials, attempts, returned>>

\* netConn.writeString, over the connection there is.
Attempt(err) ==
    /\ call.at \in {"write", "rewrite"}
    /\ attempts' = Append(attempts, [pr |-> call.pr, line |-> EndLine(call.msg), err |-> err, over |-> conn])
    /\ UNCHANGED <<conn, open, dials>>
Leave(err) ==
    /\ call' = NoCall
    /\ returned' = [returned EXCEPT ![call.proc] = @ \cup {[msg |-> call.msg, err |-> err]}]

\* The attempt succeeds, and is the last.
Sent == Attempt(FALSE) /\ Leave(FALSE)

\* Mutant of SendFails: the error of an attempt is lost.
SendFailsAtOnce == Attempt(TRUE) /\ Leave(FALSE)

\* It fails: the first time there is another, and the connection is kept
\* after the second.
SendFails ==
    /\ Attempt(TRUE)
    /\ IF call.at = "write" THEN call' = [call EXCEPT !.at = "connect"] /\ UNCHANGED returned
       ELSE Leave(TRUE)

\* connect closes the connection there is, then dials the address, or each
\* of the local daemon's sockets in turn.
Connect ==
    /\ call.at = "connect" /\ dials < MaxDials
    /\ conn' = dials + 1 /\ dials' = dials + 1 /\ open' = (open \ {conn}) \cup {dials + 1}
    /\ call' = [call EXCEPT !.at = "rewrite"]
    /\ UNCHANGED <<attempts, returned>>

ConnectFails ==
    /\ call.at = "connect"
    /\ conn' = NoConn /\ open' = open \ {conn}
    /\ Leave(TRUE)
    /\ UNCHANGED <<dials, attempts>>

\* Writer.Close; a later call connects again.
CloseWriter ==
    /\ call = NoCall
    /\ conn' = NoConn /\ open' = open \ {conn}
    /\ UNCHANGED <<dials, call, attempts, returned>>

SyslogStep == Sent \/ SendFails \/ Connect \/ ConnectFails
-----------------------------------------------------------------------------
Written(msg) == \E i \in DOMAIN attempts : attempts[i].line = EndLine(msg) /\ ~attempts[i].err

\* A call returns nil if and only if an attempt to send its message went
\* without an error.  A message is sent again only at once, after an attempt
\* that failed, over a connection of its own, and never a third time.  Each
\* keeps the facility given to New.  At most one connection is open, w.conn.
SyslogKeeps ==
    /\ \A p \in Procs : \A r \in returned[p] : r.err <=> ~Written(r.msg)
    /\ \A i, j \in DOMAIN attempts : i < j /\ attempts[i].line = attempts[j].line =>
            j = i + 1 /\ attempts[i].err /\ attempts[i].over # attempts[j].over
    /\ \A i \in DOMAIN attempts : Facility(attempts[i].pr) = Facility(Priority)
    /\ open = {conn} \ {NoConn}
=============================================================================
