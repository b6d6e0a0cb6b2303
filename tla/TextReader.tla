----------------------------- MODULE TextReader -----------------------------
(***************************************************************************)
(* textproto.Reader: lines, continued lines, MIME headers and dot-encoded  *)
(* blocks read from one bufio.Reader.  The input is a sequence of byte     *)
(* classes and the reader a position in it; what bufio.Reader has buffered *)
(* shows only where the code looks at it, in readContinuedLineSlice.       *)
(***************************************************************************)
EXTENDS Naturals, Sequences, SequencesExt

CONSTANTS Texts,      \* the texts sent dot-encoded: sequences of lines
          Headers,    \* the headers sent: sequences of lines
          LineEnds    \* the line ends a header may have

VARIABLES
    input,     \* what the peer sends: its bytes, and what they stand for
    pos,       \* how many bytes have been read
    dot,       \* r.dot: the state of the dotReader, or "none"
    got,       \* what the dotReader has returned
    err,       \* the error of the last call: "none", "EOF", "unexpected EOF", "malformed"
    fields,    \* the header read so far, a sequence of <<key, value>>
    phase      \* what the caller is at: "dot", "header", "line" or "end"

vars == <<input, pos, dot, got, err, fields, phase>>

Letters == {"x", "k", "K"}
\* What a line may hold: no line feed.  A header line holds no carriage
\* return either, and something: the line that holds nothing ends the header.
LineBytes == Letters \cup {"dot", "cr", "sp", "colon"}
HeaderLines == Seq(LineBytes \ {"cr"}) \ {<<>>}
CRLF == <<"cr", "nl">>
TextAssumption ==
    /\ Texts \subseteq Seq(Seq(LineBytes))
    /\ Headers \subseteq Seq(HeaderLines)
    /\ LineEnds \subseteq {<<"nl">>, CRLF}

bytes == input.bytes
At(i) == IF i \in DOMAIN bytes THEN bytes[i] ELSE "none"
Trailer == <<"x", "cr", "nl">>      \* the line after a block or a header

\* What a peer that speaks the protocol sends: each line ends in CRLF, a
\* leading dot is doubled, a line with a dot alone ends the block.
DotEncoded(text) ==
    FlattenSeq([i \in DOMAIN text |->
        (IF text[i] # <<>> /\ text[i][1] = "dot" THEN <<"dot">> ELSE <<>>) \o text[i] \o CRLF])
    \o <<"dot">> \o CRLF
Block(text) == [kind |-> "dot", bytes |-> DotEncoded(text) \o Trailer, of |-> text]
\* The same block cut short: the connection is lost before its end.
CutBlock(text, n) == [kind |-> "cut", bytes |-> SubSeq(DotEncoded(text), 1, n), of |-> text]
Header(lines, end) ==
    [kind |-> "header", of |-> lines,
     bytes |-> FlattenSeq([i \in DOMAIN lines |-> lines[i] \o end]) \o end \o Trailer]

Init ==
    /\ input \in {Block(t) : t \in Texts}
            \cup (UNION {{CutBlock(t, n) : n \in 0..(Len(DotEncoded(t)) - 1)} : t \in Texts})
            \cup {Header(ls, e) : ls \in Headers, e \in LineEnds}
    /\ pos = 0 /\ dot = "none" /\ got = <<>> /\ err = "none" /\ fields = <<>>
    /\ phase = IF input.kind = "header" THEN "header" ELSE "dot"
-----------------------------------------------------------------------------
(* Lines. *)

EndOfLine(p) == LET Ends == {i \in (p + 1)..Len(bytes) : bytes[i] = "nl"}
                IN  IF Ends = {} THEN Len(bytes) ELSE CHOOSE i \in Ends : \A j \in Ends : i <= j

\* readLineSlice from position p: the line without its end, and the position
\* after it.
Line(p) ==
    LET e == EndOfLine(p)
        n == IF At(e) # "nl" THEN e
             ELSE IF e - 1 > p /\ At(e - 1) = "cr" THEN e - 2 ELSE e - 1
    IN  [eof |-> p = Len(bytes), text |-> SubSeq(bytes, p + 1, n), pos |-> e]

Trim(s) ==
    LET Solid == {i \in DOMAIN s : s[i] # "sp"}
    IN  IF Solid = {} THEN <<>>
        ELSE LET a == CHOOSE i \in Solid : \A j \in Solid : i <= j
                 b == CHOOSE i \in Solid : \A j \in Solid : i >= j
             IN  SubSeq(s, a, b)

Spaces(p) == CHOOSE n \in 0..Len(bytes) : At(p + n + 1) # "sp" /\ \A i \in 1..n : At(p + i) = "sp"

\* What the continuation lines from position p add to the line.
Continued(p) ==
    LET from[q \in 0..Len(bytes)] ==
            LET n == Spaces(q)
                l == Line(q + n)
            IN  IF n = 0 \/ l.eof THEN [text |-> <<>>, pos |-> q + n]
                ELSE [from[l.pos] EXCEPT !.text = <<"sp">> \o Trim(l.text) \o @]
    IN  from[p]

\* Mutant of NextLineIsNew: a space does for a letter.
NextLineIsNewLoose(p) == At(p + 1) # "cr"

\* The next line is seen in the buffer to be no continuation.
NextLineIsNew(p) ==
    \/ At(p + 1) \in Letters \cup {"nl"}
    \/ At(p + 1) = "cr" /\ At(p + 2) = "nl"

\* readContinuedLineSlice: when more than one byte is buffered it looks
\* ahead, and otherwise it skips spaces, of which there may be none.
ContinuedLine(p, buffered) ==
    LET l == Line(p)
    IN  IF l.eof \/ l.text = <<>> \/ (buffered /\ NextLineIsNew(l.pos))
        THEN [text |-> Trim(l.text), pos |-> l.pos]
        ELSE [Continued(l.pos) EXCEPT !.text = Trim(l.text) \o @]
-----------------------------------------------------------------------------
(* MIME headers. *)

\* canonicalMIMEHeaderKey on the letters of the model: the first letter upper
\* case, the others lower; a key that is no token is left alone.  A dot is a
\* byte of a token, and no letter.
Lower(c) == IF c = "K" THEN "k" ELSE c
Upper(c) == IF c = "k" THEN "K" ELSE c
Canonical(key) ==
    IF \E i \in DOMAIN key : key[i] \notin Letters \cup {"dot"} THEN key
    ELSE [i \in DOMAIN key |-> IF i = 1 THEN Upper(key[i]) ELSE Lower(key[i])]

HasColon(l) == "colon" \in Range(l)
Key(kv) == SubSeq(kv, 1, SelectInSeq(kv, LAMBDA c : c = "colon") - 1)
Value(kv) == SubSeq(kv, SelectInSeq(kv, LAMBDA c : c = "colon") + 1, Len(kv))

\* Skip initial spaces in the value, and those only.
SkipSpaces(v) ==
    LET Solid == {i \in DOMAIN v : v[i] # "sp"}
    IN  IF Solid = {} THEN <<>>
        ELSE SubSeq(v, CHOOSE i \in Solid : \A j \in Solid : i <= j, Len(v))

HeaderEnds(e) == err' = e /\ phase' = IF e = "none" THEN "line" ELSE "end"

\* ReadMIMEHeader: the first line may not be a continuation.
BadFirstLine ==
    /\ phase = "header" /\ pos = 0 /\ At(1) = "sp"
    /\ pos' = Line(0).pos /\ HeaderEnds("malformed")
    /\ UNCHANGED <<input, dot, got, fields>>

\* One turn of its loop.
HeaderLine(buffered) ==
    LET l == Line(pos)
        kv == ContinuedLine(pos, buffered)
        key == Canonical(Key(kv.text))
    IN  /\ phase = "header" /\ ~(pos = 0 /\ At(1) = "sp")
        /\ buffered => Len(bytes) - l.pos > 1
        /\ IF l.text = <<>> THEN
                pos' = l.pos /\ HeaderEnds("none") /\ UNCHANGED fields
           ELSE IF ~HasColon(l.text) THEN
                pos' = l.pos /\ HeaderEnds("malformed") /\ UNCHANGED fields
           ELSE /\ pos' = kv.pos
                /\ fields' = IF key = <<>> THEN fields
                             ELSE Append(fields, <<key, SkipSpaces(Value(kv.text))>>)
                /\ UNCHANGED <<err, phase>>
        /\ UNCHANGED <<input, dot, got>>
-----------------------------------------------------------------------------
(* Dot-encoded blocks. *)

Goes(state, emitted) == [state |-> state, emitted |-> emitted, unread |-> FALSE]
\* The byte is put back and the saved carriage return comes out instead.
PutsBack == [state |-> "Data", emitted |-> <<"cr">>, unread |-> TRUE]

\* Mutant of DotStep: the byte that shows a saved carriage return to be data is lost.
DotStepForgets(state, c) ==
    CASE state = "BeginLine" /\ c = "dot" -> Goes("Dot", <<>>)
      [] state \in {"BeginLine", "Data"} /\ c = "cr" -> Goes("CR", <<>>)
      [] state = "Dot" /\ c = "cr" -> Goes("DotCR", <<>>)
      [] state \in {"Dot", "DotCR"} /\ c = "nl" -> Goes("EOF", <<>>)
      [] state \in {"CR", "Data"} /\ c = "nl" -> Goes("BeginLine", <<c>>)
      [] state \in {"CR", "DotCR"} /\ c # "nl" -> [PutsBack EXCEPT !.unread = FALSE]
      [] OTHER -> Goes("Data", <<c>>)

\* The state machine of dotReader.Read.
DotStep(state, c) ==
    CASE state = "BeginLine" /\ c = "dot" -> Goes("Dot", <<>>)
      [] state \in {"BeginLine", "Data"} /\ c = "cr" -> Goes("CR", <<>>)
      [] state = "Dot" /\ c = "cr" -> Goes("DotCR", <<>>)
      [] state \in {"Dot", "DotCR"} /\ c = "nl" -> Goes("EOF", <<>>)
      [] state \in {"CR", "Data"} /\ c = "nl" -> Goes("BeginLine", <<c>>)
      [] state \in {"CR", "DotCR"} /\ c # "nl" -> PutsBack
      [] OTHER -> Goes("Data", <<c>>)

\* Read into a buffer of n bytes, from here: what it returns, and where it ends.
DotStates == {"BeginLine", "Dot", "DotCR", "CR", "Data", "EOF"}
DotRead(n) ==
    LET from[d \in DotStates \X (0..Len(bytes)) \X (0..n)] ==
            LET t == DotStep(d[1], At(d[2] + 1))
                Ends(e) == [state |-> d[1], pos |-> d[2], got |-> <<>>, err |-> e]
            IN  IF d[1] = "EOF" THEN Ends("EOF")
                ELSE IF d[3] = 0 THEN Ends("none")
                ELSE IF d[2] = Len(bytes) THEN Ends("unexpected EOF")
                ELSE [from[<<t.state, IF t.unread THEN d[2] ELSE d[2] + 1,
                             d[3] - Len(t.emitted)>>] EXCEPT !.got = t.emitted \o @]
    IN  from[<<dot, pos, n>>]

\* DotReader
StartDot ==
    /\ phase = "dot" /\ dot = "none" /\ pos = 0
    /\ dot' = "BeginLine"
    /\ UNCHANGED <<input, pos, got, err, fields, phase>>

\* One Read of the dotReader; after an error r.dot is nil.
ReadDot(n) ==
    LET d == DotRead(n)
    IN  /\ phase = "dot" /\ dot # "none"
        /\ pos' = d.pos /\ got' = got \o d.got /\ err' = d.err
        /\ dot' = IF d.err = "none" THEN d.state ELSE "none"
        /\ phase' = IF d.err = "none" THEN "dot" ELSE "line"
        /\ UNCHANGED <<input, fields>>

\* ReadLine drains an unfinished dotReader first; what it reads in passing is lost.
closeDot == IF dot = "none" THEN pos ELSE DotRead(Len(bytes) + 1).pos

ReadLine ==
    /\ phase = "line" \/ dot # "none"
    /\ pos' = Line(closeDot).pos /\ dot' = "none"
    /\ fields' = Append(fields, <<"line", Line(closeDot).text>>)
    /\ err' = IF Line(closeDot).eof THEN "EOF" ELSE "none"
    /\ phase' = "end"
    /\ UNCHANGED <<input, got>>

\* ReadDotLines: each line without its end and its escape.
DotLines ==
    LET from[p \in 0..Len(bytes)] ==
            LET l == Line(p)
                line == IF l.text # <<>> /\ l.text[1] = "dot" THEN Tail(l.text) ELSE l.text
            IN  IF l.eof THEN [lines |-> <<>>, pos |-> p, err |-> "unexpected EOF"]
                ELSE IF l.text = <<"dot">> THEN [lines |-> <<>>, pos |-> l.pos, err |-> "none"]
                ELSE [from[l.pos] EXCEPT !.lines = <<line>> \o @]
    IN  from[0]

ReadDotLines ==
    LET d == DotLines
    IN  /\ phase = "dot" /\ dot = "none"
        /\ pos' = d.pos /\ err' = d.err
        /\ got' = FlattenSeq([i \in DOMAIN d.lines |-> Append(d.lines[i], "nl")])
        /\ phase' = "line"
        /\ UNCHANGED <<input, dot, fields>>

Next ==
    \/ BadFirstLine \/ \E b \in BOOLEAN : HeaderLine(b)
    \/ StartDot \/ \E n \in {1, 3} : ReadDot(n)
    \/ ReadDotLines \/ ReadLine
-----------------------------------------------------------------------------
Text == FlattenSeq([i \in DOMAIN input.of |-> Append(input.of[i], "nl")])

\* The connection was lost right behind a dot that begins a line.
CutBehindDot == At(Len(bytes)) = "dot" /\ At(Len(bytes) - 1) \in {"none", "nl"}

\* A dot-encoded text comes out as it went in, however it is read; the line
\* after it is the next one read, however much of the text was.  What the
\* dotReader has returned begins the text, though this be cut short, and it
\* never takes the cut for the end: it says unexpected EOF.  So does
\* ReadDotLines (error "none": taken for whole) unless the cut is behind a dot
\* that begins a line.
DotDecoded ==
    /\ input.kind = "dot" =>
        /\ IsPrefix(got, Text)
        /\ phase = "line" => got = Text /\ err \in {"none", "EOF"}
        /\ phase = "end" => Last(fields) = <<"line", <<"x">>>>
    /\ input.kind = "cut" =>
        /\ dot # "none" => IsPrefix(got, Text)
        /\ phase = "line" => err = "unexpected EOF" \/ (err = "none" /\ CutBehindDot)

\* What a header means, line by line: a line that starts with a space
\* continues the one before it; a header that starts with such a line means
\* nothing, nor does any from the first line on that has no colon.
Continues(l) == l[1] = "sp"
Joined(ls, i) ==
    LET after[j \in 1..(Len(ls) + 1)] ==
            IF j <= Len(ls) /\ Continues(ls[j]) THEN <<"sp">> \o Trim(ls[j]) \o after[j + 1]
            ELSE <<>>
    IN  Trim(ls[i]) \o after[i + 1]
Field(ls, i) ==
    IF Key(ls[i]) = <<>> THEN <<>>
    ELSE <<<<Canonical(Key(ls[i])), SkipSpaces(Value(Joined(ls, i)))>>>>
MeaningFrom(ls) ==
    LET from[i \in 1..(Len(ls) + 1)] ==
            IF i > Len(ls) THEN <<>>
            ELSE IF Continues(ls[i]) THEN from[i + 1]
            ELSE IF ~HasColon(ls[i]) THEN <<>>
            ELSE Field(ls, i) \o from[i + 1]
    IN  from
Meaning(ls) == IF ls # <<>> /\ Continues(ls[1]) THEN <<>> ELSE MeaningFrom(ls)[1]

\* A header is read as it means, whatever bufio.Reader happened to have
\* buffered at each of its lines, and the reader stands behind its blank line.
HeaderUnfolded ==
    input.kind = "header" =>
        /\ phase = "header" => IsPrefix(fields, Meaning(input.of))
        /\ phase = "line" => fields = Meaning(input.of)
        /\ phase = "end" => IF err = "malformed" THEN fields = Meaning(input.of)
                            ELSE fields = Append(Meaning(input.of), <<"line", <<"x">>>>)
=============================================================================
