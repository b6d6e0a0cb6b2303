------------------------------- MODULE Logger -------------------------------
(***************************************************************************)
(* log.Logger, writing to stderr or to a syslog.Writer (NewLogger), which  *)
(* other goroutines use directly.                                          *)
(*                                                                         *)
(* l.mu guards the flags, the prefix, the destination and the one buffer   *)
(* in which every line is put together; Output gives it up while it looks  *)
(* for its caller.  A line is a sequence of parts.                         *)
(***************************************************************************)
EXTENDS Syslog

CONSTANTS FlagSets,   \* the flags passed to SetFlags: sets of "time", "file", "msgprefix"
          Prefixes,   \* the prefixes passed to SetPrefix
          None

LoggerAssumption == SyslogAssumption /\ None \notin Procs

VARIABLES
    mu,         \* who holds l.mu, or None
    flag, prefix, out, buf,     \* the fields of the Logger
    pc,         \* where each goroutine is in Output
    job,        \* the call it is in, with its number
    calls,      \* how many calls there have been
    stderr,     \* the lines written there
    exited      \* os.Exit has been called

loggerVars == <<mu, flag, prefix, out, buf, pc, job, calls, stderr, exited>>
vars == <<loggerVars, syslogVars>>

NoJob == [verb |-> "none", n |-> 0]

Init ==
    /\ SyslogInit
    /\ mu = None /\ flag \in FlagSets /\ prefix \in Prefixes /\ out \in {"stderr", "syslog"}
    /\ buf = <<>> /\ stderr = <<>> /\ exited = FALSE
    /\ pc = [p \in Procs |-> "idle"] /\ job = [p \in Procs |-> NoJob] /\ calls = 0

Text(p, n) == <<"text", p, n>>
File(p) == <<"file", p>>

\* formatHeader
formatHeader(fl, pre, file) ==
    (IF "msgprefix" \in fl THEN <<>> ELSE <<<<"prefix", pre>>>>)
    \o (IF "time" \in fl THEN <<<<"time">>>> ELSE <<>>)
    \o (IF "file" \in fl THEN <<file>> ELSE <<>>)
    \o (IF "msgprefix" \in fl THEN <<<<"prefix", pre>>>> ELSE <<>>)

Formatted(p, file) ==
    EndLine(Append(formatHeader(flag, prefix, file), Text(p, job[p].n)))

Start(p, verb) ==
    /\ pc[p] = "idle" /\ calls < MaxCalls
    /\ calls' = calls + 1
    /\ job' = [job EXCEPT ![p] = [verb |-> verb, n |-> calls + 1]]

\* Print and Panic, or Fatal, call Output, which takes l.mu and gives it up
\* again if the caller is to be named.  (A panic comes after the line.)
Begin(p, verb) ==
    /\ Start(p, verb) /\ mu = None
    /\ IF "file" \in flag THEN pc' = [pc EXCEPT ![p] = "caller"] /\ UNCHANGED mu
       ELSE pc' = [pc EXCEPT ![p] = "format"] /\ mu' = p
    /\ UNCHANGED <<flag, prefix, out, buf, stderr, exited, syslogVars>>

\* runtime.Caller has returned: take l.mu again.
Relock(p) ==
    /\ pc[p] = "caller" /\ mu = None
    /\ pc' = [pc EXCEPT ![p] = "formatCaller"] /\ mu' = p
    /\ UNCHANGED <<flag, prefix, out, buf, job, calls, stderr, exited, syslogVars>>

\* Mutant of Format: the buffer was reset before the lock was given up.
FormatKeeps(p) ==
    /\ pc[p] \in {"format", "formatCaller"}
    /\ buf' = (IF pc[p] = "format" THEN <<>> ELSE buf)
              \o Formatted(p, IF pc[p] = "format" THEN <<"file", None>> ELSE File(p))
    /\ pc' = [pc EXCEPT ![p] = "write"]
    /\ UNCHANGED <<mu, flag, prefix, out, job, calls, stderr, exited, syslogVars>>

Format(p) ==
    /\ pc[p] \in {"format", "formatCaller"}
    /\ buf' = Formatted(p, IF pc[p] = "format" THEN <<"file", None>> ELSE File(p))
    /\ pc' = [pc EXCEPT ![p] = "write"]
    /\ UNCHANGED <<mu, flag, prefix, out, job, calls, stderr, exited, syslogVars>>

\* Output returns: Fatal exits.
Done(p) == pc' = [pc EXCEPT ![p] = "idle"] /\ job' = [job EXCEPT ![p] = NoJob]
Return(p) == Done(p) /\ mu' = None /\ exited' = (job[p].verb = "Fatal")

WriteStderr(p) ==
    /\ pc[p] = "write" /\ out = "stderr"
    /\ stderr' = Append(stderr, buf)
    /\ Return(p)
    /\ UNCHANGED <<flag, prefix, out, buf, calls, syslogVars>>

WriteSyslog(p) ==
    /\ pc[p] = "write" /\ out = "syslog"
    /\ Enter(p, Priority, buf)
    /\ pc' = [pc EXCEPT ![p] = "syslog"]
    /\ UNCHANGED <<mu, flag, prefix, out, buf, job, calls, stderr, exited>>

\* A goroutine calls Crit, say, on the Writer itself, which waits for w.mu only.
Crit(p) ==
    /\ Start(p, "Crit")
    /\ Enter(p, LOG_CRIT, <<Text(p, calls')>>)
    /\ pc' = [pc EXCEPT ![p] = "crit"]
    /\ UNCHANGED <<mu, flag, prefix, out, buf, stderr, exited>>

\* The Writer's steps, and the return to the caller with the last of them.
Syslogs(p) ==
    /\ call # NoCall /\ call.proc = p
    /\ SyslogStep
    /\ IF call' # NoCall THEN UNCHANGED <<mu, pc, job, exited>>
       ELSE IF pc[p] = "syslog" THEN Return(p)
       ELSE Done(p) /\ UNCHANGED <<mu, exited>>
    /\ UNCHANGED <<flag, prefix, out, buf, calls, stderr>>

\* SetFlags, SetPrefix, SetOutput.
Set ==
    /\ mu = None
    /\ \/ flag' \in FlagSets /\ UNCHANGED <<prefix, out>>
       \/ prefix' \in Prefixes /\ UNCHANGED <<flag, out>>
       \/ out' \in {"stderr", "syslog"} /\ UNCHANGED <<flag, prefix>>
    /\ UNCHANGED <<mu, buf, pc, job, calls, stderr, exited, syslogVars>>

Next ==
    /\ ~exited
    /\ \/ Set
       \/ CloseWriter /\ UNCHANGED loggerVars
       \/ \E p \in Procs :
            \/ \E verb \in {"Print", "Fatal"} : Begin(p, verb)
            \/ Relock(p) \/ Format(p) \/ WriteStderr(p) \/ WriteSyslog(p)
            \/ Crit(p) \/ Syslogs(p)

Spec == Init /\ [][Next]_vars
-----------------------------------------------------------------------------
\* The line of one call, by the flags and the prefix of one moment.
Whole(line) ==
    \E p \in Procs, n \in 1..MaxCalls, fl \in FlagSets, pre \in Prefixes :
        line = formatHeader(fl, pre, File(p)) \o <<Text(p, n), Newline>>

\* The message of a call of Crit.
Message(line) == \E p \in Procs, n \in 1..MaxCalls : line = <<Text(p, n), Newline>>

\* Each call writes one whole line, by the settings of one moment and with
\* its own severity: lines of two goroutines never mix and none names
\* another's caller, although the flags may change and others log while l.mu
\* is given up for runtime.Caller; and none is written twice to stderr.
WholeLines ==
    /\ \A i \in DOMAIN stderr : Whole(stderr[i])
    /\ \A i \in DOMAIN attempts :
            \/ Severity(attempts[i].pr) = Severity(Priority) /\ Whole(attempts[i].line)
            \/ Severity(attempts[i].pr) = LOG_CRIT /\ Message(attempts[i].line)
    /\ \A i, j \in DOMAIN stderr : i # j => stderr[i][Len(stderr[i]) - 1] # stderr[j][Len(stderr[j]) - 1]
=============================================================================
