---------------------------- MODULE Logger_proofs ----------------------------
(***************************************************************************)
(* Proofs that a Logger writes whole lines and that a syslog.Writer says   *)
(* of every message whether it was written, and writes none twice, for any *)
(* number of goroutines, calls and connections and any flags and prefixes. *)
(*                                                                         *)
(* The argument: every call has a number of its own, and its line carries  *)
(* it.  l.mu and w.mu say which calls may be at work on a line; the lines  *)
(* that are out belong to calls that are over, or that are in              *)
(* writeAndRetry, which sends its message a second time only on its way    *)
(* out.                                                                    *)
(***************************************************************************)
EXTENDS Logger, SequenceTheorems, TLAPS

\* What lines are made of.
Files == {<<"file", p>> : p \in Procs \cup {None}}
Parts == {Newline, <<"time">>} \cup {<<"prefix", pre>> : pre \in Prefixes} \cup Files
         \cup {Text(p, n) : p \in Procs, n \in Nat}

\* A line that ends in the text of call n, of goroutine p, and a newline.
Lined(l, p, n) ==
    /\ l \in Seq(Parts) /\ Len(l) >= 2
    /\ l[Len(l)] = Newline /\ l[Len(l) - 1] = Text(p, n)

Places == {"idle", "caller", "format", "formatCaller", "write", "syslog", "crit"}
Attempts == [pr : Nat, line : Seq(Parts), err : BOOLEAN, over : Nat]
Calls == [at : {"write", "connect", "rewrite"}, proc : Procs, pr : Nat, msg : Seq(Parts)]

TypeOK ==
    /\ mu \in Procs \cup {None}
    /\ flag \in FlagSets /\ prefix \in Prefixes /\ out \in {"stderr", "syslog"}
    /\ buf \in Seq(Parts)
    /\ pc \in [Procs -> Places]
    /\ job \in [Procs -> [verb : {"none", "Print", "Fatal", "Crit"}, n : Nat]]
    /\ calls \in 0..MaxCalls /\ exited \in BOOLEAN
    /\ stderr \in Seq(Seq(Parts))
    /\ conn \in Nat /\ dials \in Nat /\ open \subseteq Nat
    /\ call \in Calls \cup {NoCall}
    /\ attempts \in Seq(Attempts)
    /\ returned \in [Procs -> SUBSET [msg : Seq(Parts), err : BOOLEAN]]

-----------------------------------------------------------------------------
(* Lines.                                                                  *)

LEMMA PartTypes ==
    /\ Newline \in Parts /\ <<"time">> \in Parts
    /\ \A pre \in Prefixes : <<"prefix", pre>> \in Parts
    /\ \A p \in Procs : File(p) \in Files
    /\ \A f \in Files : f \in Parts
    /\ \A p \in Procs, n \in Nat : Text(p, n) \in Parts /\ Text(p, n) # Newline
    /\ \A p, q \in Procs, m, n \in Nat : Text(p, m) = Text(q, n) => p = q /\ m = n
BY DEF Parts, Files, File, Text, Newline

LEMMA HeaderType ==
    ASSUME NEW fl, NEW pre \in Prefixes, NEW file \in Files
    PROVE  formatHeader(fl, pre, file) \in Seq(Parts)
<1> DEFINE a == IF "msgprefix" \in fl THEN <<>> ELSE <<<<"prefix", pre>>>>
           b == IF "time" \in fl THEN <<<<"time">>>> ELSE <<>>
           c == IF "file" \in fl THEN <<file>> ELSE <<>>
           d == IF "msgprefix" \in fl THEN <<<<"prefix", pre>>>> ELSE <<>>
<1>1. a \in Seq(Parts) /\ b \in Seq(Parts) /\ c \in Seq(Parts) /\ d \in Seq(Parts)
    BY PartTypes
<1>2. formatHeader(fl, pre, file) = a \o b \o c \o d
    BY DEF formatHeader
<1> HIDE DEF a, b, c, d
<1> QED
    BY <1>1, <1>2

\* The file does not show when it is not asked for.
LEMMA HeaderFile ==
    ASSUME NEW fl, NEW pre, NEW f, NEW g, "file" \notin fl
    PROVE  formatHeader(fl, pre, f) = formatHeader(fl, pre, g)
BY DEF formatHeader

LEMMA LineOf ==
    ASSUME NEW h \in Seq(Parts), NEW p \in Procs, NEW n \in Nat
    PROVE  /\ EndLine(Append(h, Text(p, n))) = h \o <<Text(p, n), Newline>>
           /\ Lined(h \o <<Text(p, n), Newline>>, p, n)
<1> DEFINE t == Text(p, n)
<1>1. t \in Parts /\ t # Newline /\ Newline \in Parts
    BY PartTypes
<1> HIDE DEF t
<1>2. /\ Append(h, t) \in Seq(Parts) /\ Append(h, t) # <<>>
      /\ Append(h, t)[Len(Append(h, t))] = t
    BY <1>1, AppendProperties
<1>3. EndLine(Append(h, t)) = Append(Append(h, t), Newline)
    BY <1>1, <1>2 DEF EndLine
<1>4. Append(Append(h, t), Newline) = h \o <<t, Newline>>
    BY <1>1
<1>5. /\ h \o <<t, Newline>> \in Seq(Parts) /\ Len(h \o <<t, Newline>>) = Len(h) + 2
      /\ (h \o <<t, Newline>>)[Len(h) + 2] = Newline /\ (h \o <<t, Newline>>)[Len(h) + 1] = t
    BY <1>1
<1>6. Len(h) \in Nat
    OBVIOUS
<1> QED
    BY <1>3, <1>4, <1>5, <1>6 DEF t, Lined

LEMMA Ended ==
    ASSUME NEW l, NEW p \in Procs, NEW n \in Nat, Lined(l, p, n)
    PROVE  EndLine(l) = l
BY DEF Lined, EndLine

LEMMA CritLine ==
    ASSUME NEW p \in Procs, NEW n \in Nat
    PROVE  /\ EndLine(<<Text(p, n)>>) = <<Text(p, n), Newline>>
           /\ Lined(<<Text(p, n), Newline>>, p, n)
<1> DEFINE t == Text(p, n)
<1>1. t \in Parts /\ t # Newline /\ Newline \in Parts
    BY PartTypes
<1> HIDE DEF t
<1>2. Append(<<t>>, Newline) = <<t, Newline>>
    <2>1. <<t>> \in Seq(Parts) /\ Len(<<t>>) = 1 /\ <<t>>[1] = t
        BY <1>1
    <2>2. /\ Append(<<t>>, Newline) \in Seq(Parts) /\ Len(Append(<<t>>, Newline)) = 2
          /\ Append(<<t>>, Newline)[1] = t /\ Append(<<t>>, Newline)[2] = Newline
        BY <1>1, <2>1, AppendProperties
    <2>3. <<t, Newline>> \in Seq(Parts) /\ Len(<<t, Newline>>) = 2
          /\ <<t, Newline>>[1] = t /\ <<t, Newline>>[2] = Newline
        BY <1>1
    <2> DEFINE u == Append(<<t>>, Newline)
               v == <<t, Newline>>
    <2>4. u \in Seq(Parts) /\ v \in Seq(Parts) /\ Len(u) = 2 /\ Len(v) = 2
          /\ u[1] = v[1] /\ u[2] = v[2]
        BY <2>2, <2>3
    <2> HIDE DEF u, v
    <2>5. \A i \in 1..Len(u) : u[i] = v[i]
        BY <2>4
    <2>6. u = v
        BY <2>4, <2>5, SeqEqual
    <2> QED
        BY <2>6 DEF u, v
<1>3. EndLine(<<t>>) = Append(<<t>>, Newline)
    BY <1>1 DEF EndLine
<1>4. <<t, Newline>> \in Seq(Parts)
    BY <1>1
<1> QED
    BY <1>2, <1>3, <1>4 DEF t, Lined

\* Facility and severity make up a priority.
LEMMA PriorityParts ==
    ASSUME Priority \in 0..191, NEW s \in Nat
    PROVE  /\ Facility(Priority) + Severity(s) \in Nat
           /\ Facility(Facility(Priority) + Severity(s)) = Facility(Priority)
           /\ Severity(Facility(Priority) + Severity(s)) = Severity(s)
BY DEF Facility, Severity, severityMask

-----------------------------------------------------------------------------
(* Attempts.                                                               *)

LEMMA Appended ==
    ASSUME TypeOK, NEW e \in Attempts, attempts' = Append(attempts, e)
    PROVE  /\ Len(attempts) \in Nat /\ Len(attempts') = Len(attempts) + 1 /\ attempts' \in Seq(Attempts)
           /\ DOMAIN attempts = 1..Len(attempts) /\ DOMAIN attempts' = 1..(Len(attempts) + 1)
           /\ attempts'[Len(attempts) + 1] = e
           /\ \A i \in DOMAIN attempts : attempts'[i] = attempts[i]
BY AppendProperties DEF TypeOK

-----------------------------------------------------------------------------
(* The invariant.                                                          *)

Locked == {"format", "formatCaller", "write", "syslog"}
Sending(p) == pc[p] \in {"syslog", "crit"}

\* l.mu; and that a line without its caller is not asked for it.
MutexInv == \A p \in Procs :
    /\ mu = p <=> pc[p] \in Locked
    /\ pc[p] = "format" => "file" \notin flag

\* Every call has a number of its own.
NumberInv ==
    /\ \A p \in Procs : pc[p] # "idle" => job[p].n \in 1..calls
    /\ \A p, q \in Procs : pc[p] # "idle" /\ pc[q] # "idle" /\ job[p].n = job[q].n => p = q

WholeOf(l, p, n) ==
    \E fl \in FlagSets, pre \in Prefixes :
        l = formatHeader(fl, pre, File(p)) \o <<Text(p, n), Newline>>

BufInv == \A p \in Procs : pc[p] \in {"write", "syslog"} => WholeOf(buf, p, job[p].n)

\* w.mu: who is in writeAndRetry, and with which message.
CallInv ==
    /\ \A p \in Procs : Sending(p) <=> call # NoCall /\ call.proc = p
    /\ \A p \in Procs : call # NoCall /\ call.proc = p =>
          /\ pc[p] = "syslog" => /\ call.msg = buf
                                 /\ call.pr = Facility(Priority) + Severity(Priority)
          /\ pc[p] = "crit" => /\ call.msg = <<Text(p, job[p].n)>>
                               /\ call.pr = Facility(Priority) + Severity(LOG_CRIT)

\* What that call has sent: nothing, or an attempt that failed, the last of all.
PendingInv == call # NoCall =>
    \A i \in DOMAIN attempts : attempts[i].line = EndLine(call.msg) =>
        /\ call.at # "write" /\ i = Len(attempts) /\ attempts[i].err
        /\ call.at = "rewrite" => attempts[i].over # conn

\* A line of a call that is over, or of one that sends.
OfPast(l) ==
    \E q \in Procs, n \in 1..calls :
        /\ Lined(l, q, n)
        /\ \A p \in Procs : pc[p] # "idle" => job[p].n # n
SentBy(l) ==
    \E q \in Procs, n \in 1..calls :
        /\ Lined(l, q, n)
        /\ \A p \in Procs : pc[p] # "idle" /\ job[p].n = n => Sending(p)

Accepted(e) ==
    /\ Facility(e.pr) = Facility(Priority)
    /\ \/ Severity(e.pr) = Severity(Priority) /\ Whole(e.line)
       \/ Severity(e.pr) = LOG_CRIT /\ Message(e.line)

SentInv == \A i \in DOMAIN attempts :
    Accepted(attempts[i]) /\ SentBy(attempts[i].line) /\ attempts[i].over <= dials

\* A second attempt follows the first at once.
RetryInv == \A i, j \in DOMAIN attempts : i < j /\ attempts[i].line = attempts[j].line =>
    j = i + 1 /\ attempts[i].err /\ attempts[i].over # attempts[j].over

StderrInv ==
    /\ \A i \in DOMAIN stderr : Whole(stderr[i]) /\ OfPast(stderr[i])
    /\ \A i, j \in DOMAIN stderr :
          i # j => stderr[i][Len(stderr[i]) - 1] # stderr[j][Len(stderr[j]) - 1]

Kept(r) == OfPast(EndLine(r.msg)) /\ (r.err <=> ~Written(r.msg))
ReturnedInv == \A p \in Procs : \A r \in returned[p] : Kept(r)

ConnInv == open = {conn} \ {NoConn} /\ conn <= dials

IInv == /\ TypeOK /\ MutexInv /\ NumberInv /\ BufInv /\ CallInv /\ PendingInv
        /\ SentInv /\ RetryInv /\ StderrInv /\ ReturnedInv /\ ConnInv

-----------------------------------------------------------------------------
(* What a step leaves alone.                                               *)

\* Lines of calls that are over stay so, and those of calls that send, when
\* calls only begin, with a number that is new, or end.
LEMMA LinesStay ==
    ASSUME TypeOK, calls' \in {calls, calls + 1},
           \A p \in Procs : pc'[p] # "idle" =>
               (pc[p] # "idle" /\ job'[p].n = job[p].n) \/ job'[p].n = calls + 1,
           \A p \in Procs : Sending(p) => Sending(p)' \/ pc'[p] = "idle"
    PROVE  \A l : (OfPast(l) => OfPast(l)') /\ (SentBy(l) => SentBy(l)')
<1> SUFFICES ASSUME NEW l
             PROVE  (OfPast(l) => OfPast(l)') /\ (SentBy(l) => SentBy(l)')
    OBVIOUS
<1>0. calls \in Nat /\ 1..calls \subseteq 1..calls' /\ \A n \in 1..calls : n # calls + 1
    BY DEF TypeOK
<1>1. ASSUME OfPast(l) PROVE OfPast(l)'
    <2>1. PICK q \in Procs, n \in 1..calls :
              Lined(l, q, n) /\ \A p \in Procs : pc[p] # "idle" => job[p].n # n
        BY <1>1 DEF OfPast
    <2>2. \A p \in Procs : pc'[p] # "idle" => job'[p].n # n
        BY <1>0, <2>1
    <2> QED
        BY <1>0, <2>1, <2>2 DEF OfPast
<1>2. ASSUME SentBy(l) PROVE SentBy(l)'
    <2>1. PICK q \in Procs, n \in 1..calls :
              Lined(l, q, n) /\ \A p \in Procs : pc[p] # "idle" /\ job[p].n = n => Sending(p)
        BY <1>2 DEF SentBy
    <2>2. \A p \in Procs : pc'[p] # "idle" /\ job'[p].n = n => Sending(p)'
        BY <1>0, <2>1
    <2> QED
        BY <1>0, <2>1, <2>2 DEF SentBy
<1> QED
    BY <1>1, <1>2

\* What has been written and returned stays true as long as it is the same.
LEMMA OutStays ==
    ASSUME IInv, \A l : (OfPast(l) => OfPast(l)') /\ (SentBy(l) => SentBy(l)'),
           UNCHANGED <<attempts, returned, dials>>
    PROVE  /\ SentInv' /\ RetryInv' /\ ReturnedInv'
           /\ stderr' = stderr => StderrInv'
           /\ UNCHANGED <<call, conn>> \/ call' = NoCall => PendingInv'
<1>1. SentInv'
    BY DEF IInv, SentInv, Accepted, Whole, Message
<1>2. ReturnedInv'
    BY DEF IInv, ReturnedInv, Kept, Written
<1>3. RetryInv'
    BY DEF IInv, RetryInv
<1>4. ASSUME stderr' = stderr PROVE StderrInv'
    BY <1>4 DEF IInv, StderrInv
<1>5. ASSUME UNCHANGED <<call, conn>> \/ call' = NoCall PROVE PendingInv'
    BY <1>5 DEF IInv, PendingInv
<1> QED
    BY <1>1, <1>2, <1>3, <1>4, <1>5

\* The line of a call that sends.
LEMMA CallLine ==
    ASSUME IInv, LoggerAssumption, call # NoCall
    PROVE  /\ call \in Calls /\ call.proc \in Procs /\ Sending(call.proc)
           /\ pc[call.proc] # "idle" /\ job[call.proc].n \in 1..calls
           /\ Lined(EndLine(call.msg), call.proc, job[call.proc].n)
           /\ Accepted([pr |-> call.pr, line |-> EndLine(call.msg)])
<1> DEFINE p == call.proc
           n == job[p].n
<1>1. call \in Calls /\ p \in Procs /\ call.msg \in Seq(Parts)
    BY DEF IInv, TypeOK, Calls
<1>2. Sending(p) /\ pc[p] # "idle"
    BY <1>1 DEF IInv, CallInv, Sending
<1>3. n \in 1..calls /\ n \in Nat /\ n \in 1..MaxCalls
    BY <1>1, <1>2 DEF IInv, NumberInv, TypeOK, LoggerAssumption, SyslogAssumption
<1>4. CASE pc[p] = "syslog"
    <2>1. call.msg = buf /\ call.pr = Facility(Priority) + Severity(Priority)
          /\ WholeOf(buf, p, n)
        BY <1>1, <1>2, <1>4 DEF IInv, CallInv, BufInv
    <2>2. PICK fl \in FlagSets, pre \in Prefixes :
              buf = formatHeader(fl, pre, File(p)) \o <<Text(p, n), Newline>>
        BY <2>1 DEF WholeOf
    <2>3. Lined(buf, p, n)
        BY <1>1, <1>3, <2>2, HeaderType, PartTypes, LineOf
    <2>4. EndLine(call.msg) = buf
        BY <1>1, <1>3, <2>1, <2>3, Ended
    <2>5. Whole(buf)
        BY <1>1, <1>3, <2>2 DEF Whole
    <2>6. Accepted([pr |-> call.pr, line |-> EndLine(call.msg)])
        BY <2>1, <2>4, <2>5, PriorityParts DEF Accepted, LoggerAssumption, SyslogAssumption
    <2> QED
        BY <1>1, <1>2, <1>3, <2>3, <2>4, <2>6
<1>5. CASE pc[p] = "crit"
    <2>1. call.msg = <<Text(p, n)>> /\ call.pr = Facility(Priority) + Severity(LOG_CRIT)
        BY <1>1, <1>2, <1>5 DEF IInv, CallInv
    <2>2. EndLine(call.msg) = <<Text(p, n), Newline>> /\ Lined(<<Text(p, n), Newline>>, p, n)
        BY <1>1, <1>3, <2>1, CritLine
    <2>3. Message(EndLine(call.msg))
        BY <1>1, <1>3, <2>2 DEF Message
    <2>4. Severity(LOG_CRIT) = LOG_CRIT /\ LOG_CRIT \in Nat
        BY DEF Severity, LOG_CRIT, severityMask
    <2>5. Accepted([pr |-> call.pr, line |-> EndLine(call.msg)])
        BY <2>1, <2>3, <2>4, PriorityParts DEF Accepted, LoggerAssumption, SyslogAssumption
    <2> QED
        BY <1>1, <1>2, <1>3, <2>2, <2>5
<1> QED
    BY <1>2, <1>4, <1>5 DEF Sending

-----------------------------------------------------------------------------
(* The invariant holds at first, and every step keeps it.                  *)

LEMMA InitInv ==
    ASSUME LoggerAssumption, Init
    PROVE  IInv
<1> USE DEF Init, SyslogInit
<1>1. TypeOK
    <2>1. /\ pc \in [Procs -> Places]
          /\ returned \in [Procs -> SUBSET [msg : Seq(Parts), err : BOOLEAN]]
        BY DEF Places
    <2>2. job \in [Procs -> [verb : {"none", "Print", "Fatal", "Crit"}, n : Nat]]
        BY DEF NoJob
    <2>3. mu \in Procs \cup {None} /\ calls \in 0..MaxCalls
        BY DEF LoggerAssumption, SyslogAssumption
    <2>4. buf \in Seq(Parts) /\ stderr \in Seq(Seq(Parts))
          /\ attempts \in Seq(Attempts)
        OBVIOUS
    <2>5. /\ flag \in FlagSets /\ prefix \in Prefixes /\ out \in {"stderr", "syslog"}
          /\ exited \in BOOLEAN /\ call \in Calls \cup {NoCall}
        OBVIOUS
    <2>6. conn \in Nat /\ dials \in Nat /\ open \subseteq Nat
        OBVIOUS
    <2> HIDE DEF Init, SyslogInit
    <2> QED
        BY <2>1, <2>2, <2>3, <2>4, <2>5, <2>6 DEF TypeOK
<1>2. MutexInv /\ NumberInv /\ BufInv
    BY DEF MutexInv, NumberInv, BufInv, Locked, LoggerAssumption
<1>3. CallInv /\ PendingInv
    BY DEF CallInv, PendingInv, Sending
<1>4. SentInv /\ RetryInv /\ StderrInv /\ ReturnedInv
    BY DEF SentInv, RetryInv, StderrInv, ReturnedInv
<1>5. ConnInv
    BY DEF ConnInv, NoConn
<1> QED
    BY <1>1, <1>2, <1>3, <1>4, <1>5 DEF IInv

\* A step that leaves the calls where they are.
LEMMA SetInv ==
    ASSUME IInv, LoggerAssumption, Set
    PROVE  IInv'
<1> USE DEF Set, syslogVars
<1>1. TypeOK'
    BY DEF IInv, TypeOK
<1>2. MutexInv'
    <2>1. \A p \in Procs : pc[p] \notin Locked
        BY DEF IInv, MutexInv, LoggerAssumption
    <2> QED
        BY <2>1 DEF IInv, MutexInv, Locked
<1>3. NumberInv' /\ BufInv' /\ ConnInv'
    BY DEF IInv, NumberInv, BufInv, WholeOf, ConnInv
<1>4. CallInv'
    BY DEF IInv, CallInv, Sending
<1>5. SentInv' /\ RetryInv' /\ StderrInv' /\ ReturnedInv' /\ PendingInv'
    <2>1. \A l : (OfPast(l) => OfPast(l)') /\ (SentBy(l) => SentBy(l)')
        BY DEF OfPast, SentBy, Sending
    <2> QED
        BY <2>1, OutStays
<1> QED
    BY <1>1, <1>2, <1>3, <1>4, <1>5 DEF IInv

LEMMA CloseInv ==
    ASSUME IInv, LoggerAssumption, CloseWriter, UNCHANGED loggerVars
    PROVE  IInv'
<1> USE DEF CloseWriter, loggerVars
<1>1. TypeOK'
    BY DEF IInv, TypeOK, NoConn
<1>2. MutexInv' /\ NumberInv' /\ BufInv'
    BY DEF IInv, MutexInv, NumberInv, BufInv, WholeOf
<1>3. ConnInv'
    BY DEF IInv, TypeOK, ConnInv, NoConn
<1>4. CallInv'
    BY DEF IInv, CallInv, Sending
<1>5. SentInv' /\ RetryInv' /\ StderrInv' /\ ReturnedInv' /\ PendingInv'
    <2>1. \A l : (OfPast(l) => OfPast(l)') /\ (SentBy(l) => SentBy(l)')
        BY DEF OfPast, SentBy, Sending
    <2> QED
        BY <2>1, OutStays
<1> QED
    BY <1>1, <1>2, <1>3, <1>4, <1>5 DEF IInv

LEMMA BeginInv ==
    ASSUME IInv, LoggerAssumption, NEW p \in Procs, NEW verb \in {"Print", "Fatal"}, Begin(p, verb)
    PROVE  IInv'
<1> USE DEF Begin, syslogVars
<1>1. /\ pc[p] = "idle" /\ calls' = calls + 1 /\ calls' \in 0..MaxCalls /\ calls \in Nat
      /\ job' = [job EXCEPT ![p] = [verb |-> verb, n |-> calls + 1]]
    BY DEF Start, IInv, TypeOK, LoggerAssumption, SyslogAssumption
<1>2. /\ pc'[p] \in {"caller", "format"} /\ job'[p].n = calls + 1
      /\ pc'[p] = "format" => "file" \notin flag /\ mu' = p
      /\ pc'[p] = "caller" => mu' = None
      /\ \A q \in Procs : q # p => pc'[q] = pc[q] /\ job'[q] = job[q]
      /\ pc' \in [Procs -> Places]
    BY <1>1 DEF IInv, TypeOK, Places
<1>3. \A q \in Procs : pc[q] \notin Locked
    BY DEF IInv, MutexInv, LoggerAssumption
<1>4. TypeOK'
    <2>1. job' \in [Procs -> [verb : {"none", "Print", "Fatal", "Crit"}, n : Nat]]
        BY <1>1 DEF IInv, TypeOK
    <2>2. mu' \in Procs \cup {None}
        BY <1>2
    <2> QED
        BY <1>1, <1>2, <2>1, <2>2 DEF IInv, TypeOK
<1>5. MutexInv'
    BY <1>2, <1>3 DEF MutexInv, Locked, LoggerAssumption
<1>6. NumberInv'
    BY <1>1, <1>2 DEF IInv, NumberInv
<1>7. BufInv'
    BY <1>2, <1>3 DEF BufInv, Locked
<1>8. CallInv'
    BY <1>1, <1>2 DEF IInv, CallInv, Sending
<1>9. SentInv' /\ RetryInv' /\ StderrInv' /\ ReturnedInv' /\ PendingInv'
    <2>1. \A l : (OfPast(l) => OfPast(l)') /\ (SentBy(l) => SentBy(l)')
        <3>1. \A q \in Procs : pc'[q] # "idle" =>
                  (pc[q] # "idle" /\ job'[q].n = job[q].n) \/ job'[q].n = calls + 1
            BY <1>2
        <3>2. \A q \in Procs : Sending(q) => Sending(q)' \/ pc'[q] = "idle"
            BY <1>1, <1>2 DEF Sending
        <3> QED
            BY <1>1, <3>1, <3>2, LinesStay DEF IInv
    <2> QED
        BY <2>1, OutStays
<1>10. ConnInv'
    BY DEF IInv, ConnInv
<1> QED
    BY <1>4, <1>5, <1>6, <1>7, <1>8, <1>9, <1>10 DEF IInv

LEMMA RelockInv ==
    ASSUME IInv, LoggerAssumption, NEW p \in Procs, Relock(p)
    PROVE  IInv'
<1> USE DEF Relock, syslogVars
<1>1. /\ pc[p] = "caller" /\ pc'[p] = "formatCaller" /\ pc' \in [Procs -> Places]
      /\ \A q \in Procs : q # p => pc'[q] = pc[q]
    BY DEF IInv, TypeOK, Places
<1>2. \A q \in Procs : pc[q] \notin Locked
    BY DEF IInv, MutexInv, LoggerAssumption
<1>3. TypeOK'
    BY <1>1 DEF IInv, TypeOK
<1>4. MutexInv'
    BY <1>1, <1>2 DEF MutexInv, Locked
<1>5. NumberInv' /\ BufInv' /\ ConnInv'
    BY <1>1, <1>2 DEF IInv, NumberInv, BufInv, ConnInv, Locked
<1>6. CallInv'
    BY <1>1 DEF IInv, CallInv, Sending
<1>7. SentInv' /\ RetryInv' /\ StderrInv' /\ ReturnedInv' /\ PendingInv'
    <2>1. \A l : (OfPast(l) => OfPast(l)') /\ (SentBy(l) => SentBy(l)')
        BY <1>1 DEF OfPast, SentBy, Sending
    <2> QED
        BY <2>1, OutStays
<1> QED
    BY <1>3, <1>4, <1>5, <1>6, <1>7 DEF IInv

LEMMA FormatInv ==
    ASSUME IInv, LoggerAssumption, NEW p \in Procs, Format(p)
    PROVE  IInv'
<1> USE DEF Format, syslogVars
<1> DEFINE n == job[p].n
<1>1. /\ pc[p] \in {"format", "formatCaller"} /\ pc'[p] = "write" /\ pc' \in [Procs -> Places]
      /\ \A q \in Procs : q # p => pc'[q] = pc[q]
    BY DEF IInv, TypeOK, Places
<1>2. mu = p /\ \A q \in Procs : q # p => pc[q] \notin Locked
    BY <1>1 DEF IInv, MutexInv, Locked
<1>3. n \in Nat
    BY DEF IInv, TypeOK
<1>4. flag \in FlagSets /\ prefix \in Prefixes
    BY DEF IInv, TypeOK
<1>5. formatHeader(flag, prefix, File(p)) \in Seq(Parts)
    BY <1>4, HeaderType, PartTypes
<1>6. buf' = formatHeader(flag, prefix, File(p)) \o <<Text(p, n), Newline>>
    <2>1. CASE pc[p] = "format"
        <3>1. buf' = EndLine(Append(formatHeader(flag, prefix, <<"file", None>>), Text(p, n)))
            BY <2>1 DEF Formatted
        <3>2. formatHeader(flag, prefix, <<"file", None>>) = formatHeader(flag, prefix, File(p))
            BY <2>1, HeaderFile DEF IInv, MutexInv
        <3> QED
            BY <1>3, <1>5, <3>1, <3>2, LineOf
    <2>2. CASE pc[p] = "formatCaller"
        <3>1. buf' = EndLine(Append(formatHeader(flag, prefix, File(p)), Text(p, n)))
            BY <2>2 DEF Formatted
        <3> QED
            BY <1>3, <1>5, <3>1, LineOf
    <2> QED
        BY <1>1, <2>1, <2>2
<1>7. TypeOK'
    <2>1. buf' \in Seq(Parts)
        <3>1. Lined(buf', p, n)
            BY <1>3, <1>5, <1>6, LineOf
        <3> QED
            BY <3>1 DEF Lined
    <2> QED
        BY <1>1, <2>1 DEF IInv, TypeOK
<1>8. MutexInv'
    BY <1>1, <1>2 DEF MutexInv, Locked
<1>9. NumberInv' /\ ConnInv'
    BY <1>1 DEF IInv, NumberInv, ConnInv
<1>10. BufInv'
    <2>1. WholeOf(buf', p, n)
        BY <1>4, <1>6 DEF WholeOf
    <2>2. \A q \in Procs : pc'[q] \in {"write", "syslog"} => q = p
        BY <1>1, <1>2 DEF Locked
    <2> QED
        BY <2>1, <2>2 DEF BufInv, WholeOf
<1>11. CallInv'
    <2>1. \A q \in Procs : q # p => pc[q] # "syslog"
        BY <1>2 DEF Locked
    <2> QED
        BY <1>1, <2>1 DEF IInv, CallInv, Sending
<1>12. SentInv' /\ RetryInv' /\ StderrInv' /\ ReturnedInv' /\ PendingInv'
    <2>1. \A l : (OfPast(l) => OfPast(l)') /\ (SentBy(l) => SentBy(l)')
        BY <1>1 DEF OfPast, SentBy, Sending
    <2> QED
        BY <2>1, OutStays
<1> QED
    BY <1>7, <1>8, <1>9, <1>10, <1>11, <1>12 DEF IInv

\* A call that is over leaves its line behind, which no other call has.
LEMMA Over ==
    ASSUME IInv, NEW p \in Procs, pc[p] # "idle", calls' = calls,
           pc' = [pc EXCEPT ![p] = "idle"], job' = [job EXCEPT ![p] = NoJob]
    PROVE  /\ pc' \in [Procs -> Places]
           /\ job' \in [Procs -> [verb : {"none", "Print", "Fatal", "Crit"}, n : Nat]]
           /\ pc'[p] = "idle" /\ \A q \in Procs : q # p => pc'[q] = pc[q] /\ job'[q] = job[q]
           /\ NumberInv'
           /\ \A l : (OfPast(l) => OfPast(l)') /\ (SentBy(l) => SentBy(l)')
           /\ \A l : Lined(l, p, job[p].n) => OfPast(l)'
<1>1. /\ pc' \in [Procs -> Places] /\ pc'[p] = "idle"
      /\ \A q \in Procs : q # p => pc'[q] = pc[q] /\ job'[q] = job[q]
    BY DEF IInv, TypeOK, Places
<1>2. job' \in [Procs -> [verb : {"none", "Print", "Fatal", "Crit"}, n : Nat]]
    BY DEF IInv, TypeOK, NoJob
<1>3. NumberInv'
    BY <1>1 DEF IInv, NumberInv
<1>4. \A l : (OfPast(l) => OfPast(l)') /\ (SentBy(l) => SentBy(l)')
    <2>1. \A q \in Procs : pc'[q] # "idle" =>
              (pc[q] # "idle" /\ job'[q].n = job[q].n) \/ job'[q].n = calls + 1
        BY <1>1
    <2>2. \A q \in Procs : Sending(q) => Sending(q)' \/ pc'[q] = "idle"
        BY <1>1 DEF Sending
    <2> QED
        BY <2>1, <2>2, LinesStay DEF IInv
<1>5. ASSUME NEW l, Lined(l, p, job[p].n) PROVE OfPast(l)'
    <2>1. job[p].n \in 1..calls'
        BY DEF IInv, NumberInv
    <2>2. \A q \in Procs : pc'[q] # "idle" => job'[q].n # job[p].n
        BY <1>1 DEF IInv, NumberInv
    <2> QED
        BY <1>5, <2>1, <2>2 DEF OfPast
<1> QED
    BY <1>1, <1>2, <1>3, <1>4, <1>5

LEMMA WriteStderrInv ==
    ASSUME IInv, LoggerAssumption, NEW p \in Procs, WriteStderr(p)
    PROVE  IInv'
<1> USE DEF WriteStderr, Return, Done, syslogVars
<1> DEFINE n == job[p].n
<1>1. pc[p] = "write" /\ pc[p] # "idle" /\ mu = p /\ n \in 1..calls /\ n \in 1..MaxCalls /\ n \in Nat
    BY DEF IInv, MutexInv, Locked, NumberInv, TypeOK, LoggerAssumption, SyslogAssumption
<1>2. /\ pc' \in [Procs -> Places] /\ pc'[p] = "idle"
      /\ job' \in [Procs -> [verb : {"none", "Print", "Fatal", "Crit"}, n : Nat]]
      /\ \A q \in Procs : q # p => pc'[q] = pc[q] /\ job'[q] = job[q]
      /\ NumberInv'
      /\ \A l : (OfPast(l) => OfPast(l)') /\ (SentBy(l) => SentBy(l)')
      /\ \A l : Lined(l, p, n) => OfPast(l)'
    BY <1>1, Over
<1>3. \A q \in Procs : q # p => pc[q] \notin Locked
    BY <1>1 DEF IInv, MutexInv
<1>4. Lined(buf, p, n) /\ Whole(buf) /\ buf \in Seq(Parts)
    <2>1. PICK fl \in FlagSets, pre \in Prefixes :
              buf = formatHeader(fl, pre, File(p)) \o <<Text(p, n), Newline>>
        BY <1>1 DEF IInv, BufInv, WholeOf
    <2>2. formatHeader(fl, pre, File(p)) \in Seq(Parts)
        BY HeaderType, PartTypes
    <2> QED
        BY <1>1, <2>1, <2>2, LineOf DEF Whole, Lined
<1>5. TypeOK'
    <2>1. stderr' \in Seq(Seq(Parts)) /\ exited' \in BOOLEAN
        BY <1>4 DEF IInv, TypeOK
    <2> QED
        BY <1>2, <2>1 DEF IInv, TypeOK
<1>6. MutexInv'
    BY <1>2, <1>3 DEF MutexInv, Locked, LoggerAssumption
<1>7. BufInv' /\ ConnInv'
    BY <1>2, <1>3 DEF BufInv, IInv, ConnInv, Locked
<1>8. CallInv'
    BY <1>1, <1>2 DEF IInv, CallInv, Sending
<1>9. SentInv' /\ RetryInv' /\ ReturnedInv' /\ PendingInv'
    BY <1>2, OutStays
<1>10. StderrInv'
    <2> DEFINE k == Len(stderr) + 1
    <2>1. /\ Len(stderr) \in Nat /\ DOMAIN stderr = 1..Len(stderr) /\ DOMAIN stderr' = 1..k
          /\ stderr'[k] = buf /\ \A i \in DOMAIN stderr : stderr'[i] = stderr[i]
        BY <1>4, AppendProperties DEF IInv, TypeOK
    <2>2. \A l : (\E i \in DOMAIN stderr' : l = stderr'[i]) => Whole(l) /\ OfPast(l)'
        <3>1. TAKE l
        <3>2. HAVE \E i \in DOMAIN stderr' : l = stderr'[i]
        <3>3. CASE l = buf
            BY <1>2, <1>4, <3>3
        <3>4. CASE \E i \in DOMAIN stderr : l = stderr[i]
            BY <1>2, <3>4 DEF IInv, StderrInv
        <3> QED
            BY <2>1, <3>2, <3>3, <3>4
    <2>3. \A i \in DOMAIN stderr : stderr[i][Len(stderr[i]) - 1] # buf[Len(buf) - 1]
        <3>1. TAKE i \in DOMAIN stderr
        <3>2. PICK q \in Procs, m \in 1..calls :
                  Lined(stderr[i], q, m) /\ \A r \in Procs : pc[r] # "idle" => job[r].n # m
            BY DEF IInv, StderrInv, OfPast
        <3>3. m # n /\ m \in Nat
            BY <1>1, <3>2 DEF IInv, TypeOK
        <3> QED
            BY <1>1, <1>4, <3>2, <3>3, PartTypes DEF Lined
    <2>4. \A i, j \in DOMAIN stderr :
              i # j => stderr[i][Len(stderr[i]) - 1] # stderr[j][Len(stderr[j]) - 1]
        BY DEF IInv, StderrInv
    <2>5. \A i, j \in DOMAIN stderr' :
              i # j => stderr'[i][Len(stderr'[i]) - 1] # stderr'[j][Len(stderr'[j]) - 1]
        <3>1. TAKE i, j \in DOMAIN stderr'
        <3>2. CASE i = k /\ j = k
            BY <3>2
        <3>3. CASE i = k /\ j # k
            BY <2>1, <2>3, <3>3
        <3>4. CASE i # k /\ j = k
            BY <2>1, <2>3, <3>4
        <3>5. CASE i # k /\ j # k
            BY <2>1, <2>4, <3>5
        <3> QED
            BY <3>2, <3>3, <3>4, <3>5
    <2> QED
        BY <2>2, <2>5 DEF StderrInv, Whole, OfPast
<1> QED
    BY <1>2, <1>5, <1>6, <1>7, <1>8, <1>9, <1>10 DEF IInv

\* Nothing has been sent yet by a call that does not send.
LEMMA NothingSent ==
    ASSUME IInv, NEW p \in Procs, NEW n \in Nat, NEW l, Lined(l, p, n),
           n = calls + 1 \/ (pc[p] # "idle" /\ job[p].n = n /\ ~Sending(p))
    PROVE  \A i \in DOMAIN attempts : attempts[i].line # l
<1> SUFFICES ASSUME NEW i \in DOMAIN attempts PROVE attempts[i].line # l
    OBVIOUS
<1>1. PICK q \in Procs, k \in 1..calls :
          /\ Lined(attempts[i].line, q, k)
          /\ \A r \in Procs : pc[r] # "idle" /\ job[r].n = k => Sending(r)
    BY DEF IInv, SentInv, SentBy
<1>2. k # n /\ k \in Nat
    BY <1>1 DEF IInv, TypeOK
<1> QED
    BY <1>1, <1>2, PartTypes DEF Lined

LEMMA WriteSyslogInv ==
    ASSUME IInv, LoggerAssumption, NEW p \in Procs, WriteSyslog(p)
    PROVE  IInv'
<1> USE DEF WriteSyslog, Enter
<1> DEFINE n == job[p].n
<1>1. /\ pc[p] = "write" /\ pc'[p] = "syslog" /\ pc' \in [Procs -> Places]
      /\ \A q \in Procs : q # p => pc'[q] = pc[q]
    BY DEF IInv, TypeOK, Places
<1>2. mu = p /\ (\A q \in Procs : q # p => pc[q] \notin Locked) /\ n \in 1..calls /\ n \in Nat
    BY <1>1 DEF IInv, MutexInv, Locked, NumberInv, TypeOK
<1>3. /\ call = NoCall /\ call'.proc = p /\ call'.msg = buf
      /\ call'.pr = Facility(Priority) + Severity(Priority)
      /\ call'.at \in {"write", "connect"} /\ call' # NoCall
    BY DEF NoCall
<1>4. \A q \in Procs : ~Sending(q)
    BY <1>3 DEF IInv, CallInv
<1>5. Lined(buf, p, n) /\ EndLine(buf) = buf
    <2>1. PICK fl \in FlagSets, pre \in Prefixes :
              buf = formatHeader(fl, pre, File(p)) \o <<Text(p, n), Newline>>
        BY <1>1 DEF IInv, BufInv, WholeOf
    <2>2. formatHeader(fl, pre, File(p)) \in Seq(Parts)
        BY HeaderType, PartTypes
    <2>3. Lined(buf, p, n)
        BY <1>2, <2>1, <2>2, LineOf
    <2> QED
        BY <1>2, <2>3, Ended
<1>6. \A i \in DOMAIN attempts : attempts[i].line # EndLine(buf)
    BY <1>1, <1>2, <1>4, <1>5, NothingSent
<1>7. TypeOK'
    <2>1. Facility(Priority) + Severity(Priority) \in Nat
        BY PriorityParts DEF LoggerAssumption, SyslogAssumption
    <2>2. call' \in Calls
        BY <2>1 DEF IInv, TypeOK, Calls
    <2> QED
        BY <1>1, <2>2 DEF IInv, TypeOK
<1>8. MutexInv' /\ NumberInv' /\ BufInv' /\ ConnInv'
    <2>1. MutexInv' /\ NumberInv'
        BY <1>1, <1>2 DEF IInv, MutexInv, NumberInv, Locked
    <2>2. BufInv' /\ ConnInv'
        BY <1>1 DEF IInv, BufInv, ConnInv, WholeOf
    <2> QED
        BY <2>1, <2>2
<1>9. CallInv'
    <2>1. \A q \in Procs : Sending(q)' <=> q = p
        BY <1>1, <1>4 DEF Sending
    <2> QED
        BY <1>1, <1>3, <2>1 DEF CallInv
<1>10. SentInv' /\ RetryInv' /\ StderrInv' /\ ReturnedInv' /\ PendingInv'
    <2>1. \A l : (OfPast(l) => OfPast(l)') /\ (SentBy(l) => SentBy(l)')
        BY <1>1, <1>4 DEF OfPast, SentBy, Sending
    <2>2. PendingInv'
        BY <1>3, <1>6 DEF PendingInv
    <2> QED
        BY <2>1, <2>2, OutStays
<1> QED
    BY <1>7, <1>8, <1>9, <1>10 DEF IInv

LEMMA CritInv ==
    ASSUME IInv, LoggerAssumption, NEW p \in Procs, Crit(p)
    PROVE  IInv'
<1> USE DEF Crit, Enter
<1> DEFINE n == calls + 1
           t == <<Text(p, n)>>
<1>1. /\ pc[p] = "idle" /\ calls' = n /\ n \in 0..MaxCalls /\ calls \in Nat /\ n \in Nat
      /\ job' = [job EXCEPT ![p] = [verb |-> "Crit", n |-> n]]
    BY DEF Start, IInv, TypeOK, LoggerAssumption, SyslogAssumption
<1>2. /\ pc'[p] = "crit" /\ job'[p].n = n /\ pc' \in [Procs -> Places]
      /\ \A q \in Procs : q # p => pc'[q] = pc[q] /\ job'[q] = job[q]
    BY <1>1 DEF IInv, TypeOK, Places
<1>3. /\ call = NoCall /\ call'.proc = p /\ call'.msg = t
      /\ call'.pr = Facility(Priority) + Severity(LOG_CRIT)
      /\ call'.at \in {"write", "connect"} /\ call' # NoCall
    BY <1>1 DEF NoCall
<1>4. \A q \in Procs : ~Sending(q)
    BY <1>3 DEF IInv, CallInv
<1>5. \A m : \A i \in DOMAIN attempts : m = t => attempts[i].line # EndLine(m)
    <2>1. Lined(EndLine(t), p, n)
        BY <1>1, CritLine
    <2> HIDE DEF t
    <2> QED
        BY <1>1, <2>1, NothingSent
<1>6. TypeOK'
    <2>1. Facility(Priority) + Severity(LOG_CRIT) \in Nat
        BY PriorityParts DEF LoggerAssumption, SyslogAssumption, LOG_CRIT
    <2>2. t \in Seq(Parts)
        BY <1>1, PartTypes
    <2>3. call' \in Calls
        BY <1>1, <2>1, <2>2 DEF IInv, TypeOK, Calls
    <2>4. job' \in [Procs -> [verb : {"none", "Print", "Fatal", "Crit"}, n : Nat]]
        BY <1>1 DEF IInv, TypeOK
    <2> QED
        BY <1>1, <1>2, <2>3, <2>4 DEF IInv, TypeOK
<1>7. MutexInv' /\ NumberInv'
    <2>1. MutexInv'
        BY <1>1, <1>2 DEF IInv, MutexInv, Locked
    <2>2. NumberInv'
        BY <1>1, <1>2 DEF IInv, NumberInv
    <2> QED
        BY <2>1, <2>2
<1>8. BufInv' /\ ConnInv'
    <2>1. \A q \in Procs : pc'[q] \in {"write", "syslog"} =>
              pc[q] \in {"write", "syslog"} /\ job'[q].n = job[q].n
        BY <1>2
    <2>2. BufInv'
        BY <2>1 DEF IInv, BufInv, WholeOf
    <2>3. ConnInv'
        BY DEF IInv, ConnInv
    <2> QED
        BY <2>2, <2>3
<1>9. CallInv'
    <2>1. \A q \in Procs : Sending(q)' <=> q = p
        BY <1>2, <1>4 DEF Sending
    <2>2. job'[p].n = n /\ calls' = n
        BY <1>1, <1>2
    <2> QED
        BY <1>2, <1>3, <2>1, <2>2 DEF CallInv
<1>10. SentInv' /\ RetryInv' /\ StderrInv' /\ ReturnedInv' /\ PendingInv'
    <2>1. \A q \in Procs : pc'[q] # "idle" =>
              (pc[q] # "idle" /\ job'[q].n = job[q].n) \/ job'[q].n = calls + 1
        BY <1>2
    <2>2. \A l : (OfPast(l) => OfPast(l)') /\ (SentBy(l) => SentBy(l)')
        BY <1>1, <1>4, <2>1, LinesStay DEF IInv
    <2>3. PendingInv'
        BY <1>3, <1>5 DEF PendingInv
    <2> QED
        BY <2>2, <2>3, OutStays
<1> QED
    BY <1>6, <1>7, <1>8, <1>9, <1>10 DEF IInv

\* An attempt to send, or none.
LEMMA Attempted ==
    ASSUME IInv, LoggerAssumption, call # NoCall,
           NEW err \in BOOLEAN, Attempt(err) \/ UNCHANGED attempts,
           dials' \in Nat, dials <= dials',
           \A l : SentBy(l) => SentBy(l)',
           \A l : l = EndLine(call.msg) => SentBy(l)'
    PROVE  /\ attempts' \in Seq(Attempts) /\ SentInv' /\ RetryInv'
           /\ \A m : OfPast(EndLine(m)) => (Written(m)' <=> Written(m))
           /\ \A m : m = call.msg => /\ Attempt(err) => (Written(m)' <=> ~err)
                                     /\ UNCHANGED attempts => ~Written(m)'
           /\ err /\ (call.at = "write" \/ UNCHANGED attempts) =>
                 \A m : \A i \in DOMAIN attempts' : m = call.msg /\ attempts'[i].line = EndLine(m) =>
                     i = Len(attempts') /\ attempts'[i].err
<1> DEFINE p == call.proc
           n == job[p].n
           e == [pr |-> call.pr, line |-> EndLine(call.msg), err |-> err, over |-> conn]
<1>1. /\ call \in Calls /\ p \in Procs /\ Sending(p) /\ pc[p] # "idle" /\ n \in 1..calls
      /\ Lined(EndLine(call.msg), p, n)
      /\ Accepted([pr |-> call.pr, line |-> EndLine(call.msg)])
    BY CallLine
<1>2. Accepted(e) /\ e.line = EndLine(call.msg) /\ e.err = err /\ e.over = conn
    BY <1>1 DEF Accepted
<1>3. e \in Attempts /\ n \in Nat /\ conn <= dials /\ conn \in Nat /\ dials \in Nat
    BY <1>1 DEF Attempts, Calls, Lined, IInv, TypeOK, ConnInv
<1>10. \A i \in DOMAIN attempts : attempts[i].over <= dials'
    <2>1. \A i \in DOMAIN attempts : attempts[i] \in Attempts /\ attempts[i].over <= dials
        BY DEF IInv, TypeOK, SentInv
    <2>2. \A a \in Attempts : a.over \in Nat
        BY DEF Attempts
    <2> QED
        BY <1>3, <2>1, <2>2
<1>4. \A i \in DOMAIN attempts : attempts[i].line = e.line =>
          /\ call.at # "write" /\ i = Len(attempts) /\ attempts[i].err
          /\ call.at = "rewrite" => attempts[i].over # conn
    BY DEF IInv, PendingInv
<1>5. CASE attempts' = Append(attempts, e) /\ call.at \in {"write", "rewrite"}
    <2> DEFINE k == Len(attempts) + 1
    <2>1. /\ Len(attempts) \in Nat /\ Len(attempts') = k /\ attempts' \in Seq(Attempts)
          /\ DOMAIN attempts = 1..Len(attempts) /\ DOMAIN attempts' = 1..k
          /\ attempts'[k] = e /\ \A i \in DOMAIN attempts : attempts'[i] = attempts[i]
        <3> HIDE DEF e
        <3> QED
            BY <1>3, <1>5, Appended DEF IInv
    <2>2. k \in DOMAIN attempts' /\ k \notin DOMAIN attempts /\ \A i \in DOMAIN attempts' : i = k \/ i \in DOMAIN attempts
        BY <2>1
    <2> HIDE DEF e, k
    <2>3. SentInv'
        <3>0. \A i \in DOMAIN attempts : Accepted(attempts[i]) /\ SentBy(attempts[i].line)
            BY DEF IInv, SentInv
        <3>1. \A i \in DOMAIN attempts : /\ Accepted(attempts[i]) /\ (\A l : l = attempts[i].line => SentBy(l)')
                                     /\ attempts[i].over <= dials'
            BY <1>10, <3>0
        <3>2. e.over <= dials' /\ \A l : l = e.line => SentBy(l)'
            BY <1>2, <1>3
        <3>3. ASSUME NEW i \in DOMAIN attempts', NEW d, d = attempts'[i]
              PROVE  Accepted(d) /\ d.over <= dials' /\ \A l : l = d.line => SentBy(l)'
            BY <1>2, <2>1, <2>2, <3>1, <3>2, <3>3
        <3>4. \A i \in DOMAIN attempts' : Accepted(attempts[i])' /\ (attempts[i].over <= dials)'
            BY <3>3 DEF Accepted, Whole, Message
        <3>5. \A i \in DOMAIN attempts' : SentBy(attempts[i].line)'
            BY <3>3 DEF SentBy
        <3> QED
            BY <3>4, <3>5 DEF SentInv
    <2>4. RetryInv'
        <3>1. ASSUME NEW i \in DOMAIN attempts', NEW j \in DOMAIN attempts', i < j, attempts'[i].line = attempts'[j].line
              PROVE  j = i + 1 /\ attempts'[i].err /\ attempts'[i].over # attempts'[j].over
            <4>1. i \in DOMAIN attempts
                BY <2>1, <2>2, <3>1 DEF k
            <4>2. CASE j \in DOMAIN attempts
                BY <2>1, <3>1, <4>1, <4>2 DEF IInv, RetryInv
            <4>3. CASE j = k
                <5>1. attempts[i].line = e.line
                    BY <2>1, <3>1, <4>1, <4>3
                <5>2. i = Len(attempts) /\ attempts[i].err /\ attempts[i].over # conn
                    BY <1>4, <1>5, <4>1, <5>1
                <5> QED
                    BY <1>2, <2>1, <4>1, <4>3, <5>2 DEF k
            <4> QED
                BY <2>2, <4>2, <4>3
        <3> QED
            BY <3>1 DEF RetryInv
    <2>5. ASSUME NEW m, OfPast(EndLine(m)) PROVE Written(m)' <=> Written(m)
        <3>1. PICK q \in Procs, h \in 1..calls :
                  Lined(EndLine(m), q, h) /\ \A r \in Procs : pc[r] # "idle" => job[r].n # h
            BY <2>5 DEF OfPast
        <3>2. h # n /\ h \in Nat
            BY <1>1, <3>1 DEF IInv, TypeOK
        <3>3. e.line # EndLine(m)
            <4>1. e.line[Len(e.line) - 1] = Text(p, n)
                BY <1>1, <1>2 DEF Lined
            <4>2. EndLine(m)[Len(EndLine(m)) - 1] = Text(q, h)
                BY <3>1 DEF Lined
            <4>3. Text(p, n) # Text(q, h)
                BY <1>1, <1>3, <3>2, PartTypes
            <4> QED
                BY <4>1, <4>2, <4>3
        <3> QED
            BY <2>1, <2>2, <3>3 DEF Written
    <2>6. ASSUME NEW m, m = call.msg PROVE Written(m)' <=> ~err
        <3>1. \A i \in DOMAIN attempts : attempts[i].line = EndLine(m) => attempts[i].err
            BY <1>2, <1>4, <2>6
        <3>2. e.line = EndLine(m) /\ (e.err <=> err)
            BY <1>2, <2>6
        <3> QED
            BY <2>1, <2>2, <3>1, <3>2 DEF Written
    <2>7. attempts' # attempts
        BY <2>1 DEF k
    <2>8. ASSUME err, call.at = "write", NEW i \in DOMAIN attempts', NEW m, m = call.msg,
                 attempts'[i].line = EndLine(m)
          PROVE  i = Len(attempts') /\ attempts'[i].err
        BY <1>2, <1>4, <2>1, <2>2, <2>8
    <2> QED
        BY <2>1, <2>3, <2>4, <2>5, <2>6, <2>7, <2>8
<1>6. CASE UNCHANGED attempts /\ ~Attempt(err)
    <2>1. attempts' \in Seq(Attempts) /\ RetryInv'
        BY <1>6 DEF IInv, TypeOK, RetryInv
    <2>2. SentInv'
        <3>1. \A i \in DOMAIN attempts : /\ Accepted(attempts[i]) /\ SentBy(attempts[i].line)
                                     /\ attempts[i].over <= dials'
            BY <1>10 DEF IInv, SentInv
        <3>2. \A i \in DOMAIN attempts : Accepted(attempts[i])' /\ SentBy(attempts[i].line)'
            BY <1>6, <3>1 DEF Accepted, Whole, Message
        <3> QED
            BY <1>6, <3>1, <3>2 DEF SentInv
    <2>3. \A m : Written(m)' <=> Written(m)
        BY <1>6 DEF Written
    <2>4. \A m : m = call.msg => ~Written(m)
        BY <1>2, <1>4 DEF Written
    <2>5. \A m : \A i \in DOMAIN attempts' : m = call.msg /\ attempts'[i].line = EndLine(m) =>
              i = Len(attempts') /\ attempts'[i].err
        BY <1>2, <1>4, <1>6
    <2> HIDE DEF e, p, n
    <2> QED
        BY <1>6, <2>1, <2>2, <2>3, <2>4, <2>5
<1> QED
    BY <1>5, <1>6 DEF Attempt

\* A step of writeAndRetry that does not end the call.
LEMMA GoesOn ==
    ASSUME IInv, LoggerAssumption, call # NoCall,
           \/ Attempt(TRUE) /\ call.at = "write" /\ call' = [call EXCEPT !.at = "connect"]
           \/ UNCHANGED attempts /\ conn' = dials + 1 /\ call' = [call EXCEPT !.at = "rewrite"],
           UNCHANGED <<loggerVars, returned>>,
           conn' \in Nat /\ dials' \in Nat /\ dials <= dials' /\ open' \subseteq Nat /\ ConnInv'
    PROVE  IInv'
<1> USE DEF loggerVars
<1>1. /\ call \in Calls /\ call.proc \in Procs /\ Sending(call.proc)
      /\ pc[call.proc] # "idle" /\ job[call.proc].n \in 1..calls
      /\ Lined(EndLine(call.msg), call.proc, job[call.proc].n)
    BY CallLine
<1>2. /\ call' \in Calls /\ call' # NoCall /\ call'.at \in {"connect", "rewrite"}
      /\ call'.proc = call.proc /\ call'.msg = call.msg /\ call'.pr = call.pr
      /\ call'.at = "rewrite" => UNCHANGED attempts /\ conn' = dials + 1
    BY <1>1 DEF Calls, NoCall
<1>3. \A l : (OfPast(l) => OfPast(l)') /\ (SentBy(l) => SentBy(l)')
    BY DEF OfPast, SentBy, Sending
<1>4. ASSUME NEW l, l = EndLine(call.msg) PROVE SentBy(l)'
    <2>1. \A q \in Procs : pc[q] # "idle" /\ job[q].n = job[call.proc].n => Sending(q)
        BY <1>1 DEF IInv, NumberInv
    <2>2. SentBy(l)
        BY <1>1, <1>4, <2>1 DEF SentBy
    <2> QED
        BY <1>3, <2>2
<1>5. /\ attempts' \in Seq(Attempts) /\ SentInv' /\ RetryInv'
      /\ \A m : OfPast(EndLine(m)) => (Written(m)' <=> Written(m))
      /\ \A m : \A i \in DOMAIN attempts' : m = call.msg /\ attempts'[i].line = EndLine(m) =>
             i = Len(attempts') /\ attempts'[i].err
    <2>1. Attempt(TRUE) \/ UNCHANGED attempts
        OBVIOUS
    <2>2. call.at = "write" \/ UNCHANGED attempts
        OBVIOUS
    <2> HIDE DEF loggerVars
    <2> QED
        BY <1>3, <1>4, <2>1, <2>2, Attempted
<1>6. TypeOK'
    BY <1>2, <1>5 DEF IInv, TypeOK
<1>7. MutexInv' /\ NumberInv' /\ BufInv'
    BY DEF IInv, MutexInv, NumberInv, BufInv, WholeOf
<1>8. CallInv'
    <2>1. \A q \in Procs : Sending(q)' <=> call' # NoCall /\ call'.proc = q
        BY <1>2 DEF IInv, CallInv, Sending
    <2> QED
        BY <1>1, <1>2, <2>1 DEF IInv, CallInv
<1>9. PendingInv'
    <2>1. ASSUME UNCHANGED attempts, NEW i \in DOMAIN attempts PROVE attempts[i].over # dials + 1
        <3>1. attempts[i].over <= dials
            BY <2>1 DEF IInv, SentInv
        <3>2. attempts \in Seq(Attempts) /\ dials \in Nat
            BY DEF IInv, TypeOK
        <3>3. attempts[i] \in Attempts
            BY <2>1, <3>2
        <3>4. attempts[i].over \in Nat
            BY <3>3 DEF Attempts
        <3>5. \A o, d \in Nat : o <= d => o # d + 1
            OBVIOUS
        <3> QED
            BY <3>1, <3>2, <3>4, <3>5
    <2>2. ASSUME NEW i \in DOMAIN attempts', NEW m, m = call'.msg, attempts'[i].line = EndLine(m)
          PROVE  /\ call'.at # "write" /\ i = Len(attempts') /\ attempts'[i].err
                 /\ call'.at = "rewrite" => attempts'[i].over # conn'
        BY <1>2, <1>5, <2>1, <2>2
    <2> QED
        BY <2>2 DEF PendingInv
<1>10. StderrInv'
    BY <1>3 DEF IInv, StderrInv
<1>11. ReturnedInv'
    BY <1>3, <1>5 DEF IInv, ReturnedInv, Kept
<1> QED
    BY <1>5, <1>6, <1>7, <1>8, <1>9, <1>10, <1>11 DEF IInv

\* A step of writeAndRetry that ends the call.
LEMMA Ends ==
    ASSUME IInv, LoggerAssumption, call # NoCall, NEW p \in Procs, call.proc = p,
           NEW err \in BOOLEAN, Leave(err), Attempt(err) \/ (err /\ UNCHANGED attempts),
           Done(p), IF pc[p] = "syslog" THEN mu' = None ELSE mu' = mu,
           exited' \in BOOLEAN, UNCHANGED <<flag, prefix, out, buf, calls, stderr, dials>>,
           conn' \in Nat /\ dials' \in Nat /\ open' \subseteq Nat /\ ConnInv'
    PROVE  IInv'
<1> USE DEF Leave, Done
<1> DEFINE n == job[p].n
<1>1. /\ call \in Calls /\ Sending(p) /\ pc[p] # "idle" /\ n \in 1..calls
      /\ Lined(EndLine(call.msg), p, n)
    BY CallLine
<1>2. /\ pc' \in [Procs -> Places] /\ pc'[p] = "idle"
      /\ job' \in [Procs -> [verb : {"none", "Print", "Fatal", "Crit"}, n : Nat]]
      /\ \A q \in Procs : q # p => pc'[q] = pc[q] /\ job'[q] = job[q]
      /\ NumberInv'
      /\ \A l : (OfPast(l) => OfPast(l)') /\ (SentBy(l) => SentBy(l)')
      /\ \A l : Lined(l, p, n) => OfPast(l)'
    BY <1>1, Over
<1>3. ASSUME NEW l, l = EndLine(call.msg) PROVE SentBy(l)' /\ OfPast(l)'
    <2>1. \A k : OfPast(k)' => SentBy(k)'
        BY DEF OfPast, SentBy
    <2> QED
        BY <1>1, <1>2, <1>3, <2>1
<1>4. /\ attempts' \in Seq(Attempts) /\ SentInv' /\ RetryInv'
      /\ \A m : OfPast(EndLine(m)) => (Written(m)' <=> Written(m))
      /\ \A m : m = call.msg => (Written(m)' <=> ~err)
    <2>1. Attempt(err) \/ (err /\ UNCHANGED attempts)
        OBVIOUS
    <2>2. dials' \in Nat /\ dials <= dials'
        BY DEF IInv, TypeOK
    <2>3. /\ attempts' \in Seq(Attempts) /\ SentInv' /\ RetryInv'
          /\ \A m : OfPast(EndLine(m)) => (Written(m)' <=> Written(m))
          /\ \A m : m = call.msg => /\ Attempt(err) => (Written(m)' <=> ~err)
                                    /\ UNCHANGED attempts => ~Written(m)'
        <3> HIDE DEF Leave, Done
        <3> QED
            BY <1>2, <1>3, <2>1, <2>2, Attempted
    <2> QED
        BY <2>1, <2>3
<1>5. TypeOK'
    <2>1. returned' \in [Procs -> SUBSET [msg : Seq(Parts), err : BOOLEAN]]
        BY <1>1 DEF IInv, TypeOK, Calls
    <2>2. mu' \in Procs \cup {None}
        BY DEF IInv, TypeOK
    <2> QED
        BY <1>2, <1>4, <2>1, <2>2 DEF IInv, TypeOK
<1>6. MutexInv'
    <2>1. CASE pc[p] = "syslog"
        <3>1. mu = p /\ \A q \in Procs : q # p => pc[q] \notin Locked
            BY <2>1 DEF IInv, MutexInv, Locked
        <3> QED
            BY <1>2, <2>1, <3>1 DEF MutexInv, Locked, LoggerAssumption
    <2>2. CASE pc[p] # "syslog"
        <3>1. mu # p
            BY <1>1, <2>2 DEF IInv, MutexInv, Locked, Sending
        <3> QED
            BY <1>2, <2>2, <3>1 DEF IInv, MutexInv, Locked
    <2> QED
        BY <2>1, <2>2
<1>7. BufInv'
    <2>1. \A q \in Procs : pc'[q] \in {"write", "syslog"} =>
              pc[q] \in {"write", "syslog"} /\ job'[q].n = job[q].n
        BY <1>2
    <2> HIDE DEF Leave, Done
    <2> QED
        BY <2>1 DEF IInv, BufInv, WholeOf
<1>8. CallInv' /\ PendingInv'
    <2>1. \A q \in Procs : ~Sending(q)'
        BY <1>2 DEF IInv, CallInv, Sending
    <2> QED
        BY <2>1 DEF CallInv, PendingInv
<1>9. StderrInv'
    BY <1>2 DEF IInv, StderrInv
<1>10. ReturnedInv'
    <2>2. ASSUME NEW r, r = [msg |-> call.msg, err |-> err] PROVE Kept(r)'
        <3>1. r.err <=> ~Written(r.msg)'
            BY <1>4, <2>2
        <3>2. OfPast(EndLine(r.msg))'
            BY <1>3, <2>2
        <3> QED
            BY <2>2, <3>1, <3>2 DEF Kept
    <2>3. ASSUME NEW r, Kept(r) PROVE Kept(r)'
        BY <1>2, <1>4, <2>3 DEF Kept
    <2>4. ASSUME NEW q \in Procs, NEW r \in returned'[q]
          PROVE  r = [msg |-> call.msg, err |-> err] \/ \E o \in Procs : r \in returned[o]
        BY <2>4 DEF IInv, TypeOK
    <2>5. \A r : (\E q \in Procs : r \in returned'[q]) => Kept(r)'
        BY <2>2, <2>3, <2>4 DEF IInv, ReturnedInv
    <2> QED
        BY <2>5 DEF ReturnedInv
<1> QED
    BY <1>2, <1>4, <1>5, <1>6, <1>7, <1>8, <1>9, <1>10 DEF IInv

LEMMA SyslogsInv ==
    ASSUME IInv, LoggerAssumption, NEW p \in Procs, Syslogs(p)
    PROVE  IInv'
<1>1. /\ call # NoCall /\ call.proc = p /\ call \in Calls
      /\ UNCHANGED <<flag, prefix, out, buf, calls, stderr>>
    BY DEF Syslogs, IInv, TypeOK
<1>2. conn \in Nat /\ dials \in Nat /\ open \subseteq Nat /\ ConnInv
    BY DEF IInv, TypeOK
<1>3. ASSUME call' = NoCall
      PROVE  /\ Done(p) /\ exited' \in BOOLEAN
             /\ IF pc[p] = "syslog" THEN mu' = None ELSE mu' = mu
    BY <1>3 DEF Syslogs, Return, Done, IInv, TypeOK
<1>4. ASSUME call' # NoCall PROVE UNCHANGED loggerVars
    BY <1>1, <1>4 DEF Syslogs, loggerVars
<1>5. ASSUME NEW at, call' = [call EXCEPT !.at = at] PROVE call' # NoCall
    BY <1>1, <1>5 DEF Calls, NoCall
<1>6. CASE Sent
    <2>1. Attempt(FALSE) /\ Leave(FALSE) /\ UNCHANGED <<conn, open, dials>> /\ call' = NoCall
        BY <1>6 DEF Sent, Attempt, Leave
    <2>2. ConnInv'
        BY <1>2, <2>1 DEF ConnInv
    <2> QED
        BY <1>1, <1>2, <1>3, <2>1, <2>2, Ends
<1>7. CASE SendFails
    <2>1. Attempt(TRUE) /\ UNCHANGED <<conn, open, dials>>
        BY <1>7 DEF SendFails, Attempt
    <2>2. ConnInv'
        BY <1>2, <2>1 DEF ConnInv
    <2>3. CASE call.at = "write"
        <3>1. call' = [call EXCEPT !.at = "connect"] /\ UNCHANGED returned
            BY <1>7, <2>3 DEF SendFails
        <3>2. UNCHANGED loggerVars
            BY <1>4, <1>5, <3>1
        <3> QED
            BY <1>1, <1>2, <2>1, <2>2, <2>3, <3>1, <3>2, GoesOn
    <2>4. CASE call.at # "write"
        <3>1. Leave(TRUE) /\ call' = NoCall
            BY <1>7, <2>4 DEF SendFails, Leave
        <3> QED
            BY <1>1, <1>2, <1>3, <2>1, <2>2, <3>1, Ends
    <2> QED
        BY <2>3, <2>4
<1>8. CASE Connect
    <2>1. /\ conn' = dials + 1 /\ dials' = dials + 1 /\ open' = (open \ {conn}) \cup {dials + 1}
          /\ call' = [call EXCEPT !.at = "rewrite"] /\ UNCHANGED <<attempts, returned>>
        BY <1>8 DEF Connect
    <2>2. ConnInv'
        BY <1>2, <2>1 DEF ConnInv, NoConn
    <2>3. UNCHANGED loggerVars
        BY <1>4, <1>5, <2>1
    <2>4. conn' \in Nat /\ dials' \in Nat /\ dials <= dials' /\ open' \subseteq Nat
        BY <1>2, <2>1
    <2> QED
        BY <1>1, <2>1, <2>2, <2>3, <2>4, GoesOn
<1>9. CASE ConnectFails
    <2>1. /\ conn' = NoConn /\ open' = open \ {conn} /\ Leave(TRUE) /\ call' = NoCall
          /\ UNCHANGED <<dials, attempts>>
        BY <1>9 DEF ConnectFails, Leave
    <2>2. ConnInv'
        BY <1>2, <2>1 DEF ConnInv, NoConn
    <2>3. conn' \in Nat /\ dials' \in Nat /\ open' \subseteq Nat
        BY <1>2, <2>1 DEF NoConn
    <2> QED
        BY <1>1, <1>3, <2>1, <2>2, <2>3, Ends
<1> QED
    BY <1>6, <1>7, <1>8, <1>9 DEF Syslogs, SyslogStep

LEMMA StepInv ==
    ASSUME LoggerAssumption, IInv, [Next]_vars
    PROVE  IInv'
<1>1. CASE UNCHANGED vars
    <2> USE <1>1 DEF vars, loggerVars, syslogVars
    <2>1. TypeOK' /\ MutexInv' /\ NumberInv' /\ BufInv' /\ ConnInv'
        BY DEF IInv, TypeOK, MutexInv, NumberInv, BufInv, WholeOf, ConnInv
    <2>2. CallInv'
        BY DEF IInv, CallInv, Sending
    <2>3. \A l : (OfPast(l) => OfPast(l)') /\ (SentBy(l) => SentBy(l)')
        BY DEF OfPast, SentBy, Sending
    <2>4. SentInv' /\ RetryInv' /\ StderrInv' /\ ReturnedInv' /\ PendingInv'
        BY <2>3, OutStays
    <2> QED
        BY <2>1, <2>2, <2>4 DEF IInv
<1>2. CASE Set
    BY <1>2, SetInv
<1>3. CASE CloseWriter /\ UNCHANGED loggerVars
    BY <1>3, CloseInv
<1>4. ASSUME NEW p \in Procs, NEW verb \in {"Print", "Fatal"}, Begin(p, verb) PROVE IInv'
    BY <1>4, BeginInv
<1>5. ASSUME NEW p \in Procs, Relock(p) PROVE IInv'
    BY <1>5, RelockInv
<1>6. ASSUME NEW p \in Procs, Format(p) PROVE IInv'
    BY <1>6, FormatInv
<1>7. ASSUME NEW p \in Procs, WriteStderr(p) PROVE IInv'
    BY <1>7, WriteStderrInv
<1>8. ASSUME NEW p \in Procs, WriteSyslog(p) PROVE IInv'
    BY <1>8, WriteSyslogInv
<1>9. ASSUME NEW p \in Procs, Crit(p) PROVE IInv'
    BY <1>9, CritInv
<1>10. ASSUME NEW p \in Procs, Syslogs(p) PROVE IInv'
    BY <1>10, SyslogsInv
<1> QED
    BY <1>1, <1>2, <1>3, <1>4, <1>5, <1>6, <1>7, <1>8, <1>9, <1>10 DEF Next

-----------------------------------------------------------------------------

\* Every reachable state of a Logger and its syslog.Writer satisfies IInv.
THEOREM Invariant == LoggerAssumption => (Spec => []IInv)
<1>1. LoggerAssumption /\ Init => IInv
    BY InitInv
<1>2. LoggerAssumption /\ IInv /\ [Next]_vars => IInv'
    BY StepInv
<1>3. LoggerAssumption => LoggerAssumption'
    BY DEF LoggerAssumption, SyslogAssumption
<1> QED
    BY <1>1, <1>2, <1>3, PTL DEF Spec

\* Whoever logs, whatever settings change while a caller is looked up and
\* however often the daemon fails: lines come out whole, and each in stderr
\* once (log.go Output, formatHeader; syslog.go writeString).
THEOREM LinesAreWhole == LoggerAssumption => (Spec => []WholeLines)
<1>1. IInv => WholeLines
    BY DEF IInv, SentInv, Accepted, StderrInv, WholeLines
<1> QED
    BY <1>1, Invariant, PTL

\* For any number of goroutines that share a syslog.Writer: a call returns nil
\* if and only if its message was written, what was written is not written
\* again, a retry comes at once and over another connection, and no connection
\* is left behind (syslog.go writeAndRetry, connect, Close).
THEOREM SyslogKeepsMessages == LoggerAssumption => (Spec => []SyslogKeeps)
<1>1. IInv => SyslogKeeps
    BY DEF IInv, SentInv, RetryInv, Accepted, ReturnedInv, Kept, ConnInv, SyslogKeeps
<1> QED
    BY <1>1, Invariant, PTL
=============================================================================
