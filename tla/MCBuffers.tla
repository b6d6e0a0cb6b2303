------------------------------ MODULE MCBuffers ------------------------------
(***************************************************************************)
(* Buffers for model checking: what the streams, the texts and the jobs    *)
(* are.                                                                    *)
(***************************************************************************)
EXTENDS Buffers, TLC

\* The inputs: in every place a line end of two bytes or of one, a rune of
\* two bytes or a broken one.
MCInputs ==
    {[j \in 1..MaxBytes |-> IF j = i THEN k[1] ELSE IF j = i + 1 THEN k[2] ELSE "plain"] :
        i \in 1..(MaxBytes - 1),
        k \in {<<"cr", "nl">>, <<"plain", "nl">>, <<"lead", "cont">>, <<"lead", "plain">>}}

\* The texts sent dot-encoded, and the headers sent.  A line that continues
\* another says something: ReadContinuedLine keeps a space for one that is blank.
SeqsUpTo(S, n) == UNION {[1..k -> S] : k \in 0..n}
MCTexts == SeqsUpTo(SeqsUpTo({"dot", "cr", "x"}, 2), 2)
MCHeaders == SeqsUpTo({<<"k", "colon", "x">>, <<"K", "colon", "sp", "x", "sp">>, <<"sp", "x">>,
                     <<"sp", "sp", "k">>, <<"x">>, <<"colon", "x">>}, 3)
MCLineEnds == {<<"nl">>, <<"cr", "nl">>}

\* What is copied and read: every source, through every wrapper, by every
\* call; CopyN makes its LimitedReader itself.
Plain == [op |-> "Copy", to |-> "writer", wrap |-> "none", limit |-> 0, min |-> 0,
          source |-> "reader", parts |-> <<3>>, base |-> 0, length |-> 0, end |-> "EOF"]
Sources ==
    {[Plain EXCEPT !.parts = <<s>>, !.end = e] : s \in 0..3, e \in {"EOF", "other"}}
    \cup {[Plain EXCEPT !.source = "SectionReader", !.base = b, !.length = l] :
            b \in 0..1, l \in 0..3}
    \cup {[Plain EXCEPT !.source = "Buffers", !.parts = p] :
            p \in {<<>>, <<1, 2>>, <<2, 0, 1>>, <<3>>}}
Wraps == [wrap : {"LimitedReader", "maxBytesReader"}, limit : 0..3]
         \cup [wrap : {"none", "teeReader"}, limit : {0}]
Calls == [op : {"Copy", "CopyN"}, to : {"writer", "Discard"}, min : {0}]
         \cup [op : {"ReadAtLeast"}, to : {"writer"}, min : 0..3]
         \cup [op : {"ReadAll"}, to : {"writer"}, min : {0}]
AllJobs == {[s EXCEPT !.op = c.op, !.to = c.to, !.min = c.min,
                      !.wrap = m.wrap, !.limit = m.limit] :
              s \in Sources, m \in Wraps, c \in Calls}
MCJobs == {j \in AllJobs : j.op = "CopyN" => j.wrap = "LimitedReader"}

\* Where something was put back that had not been taken last nothing is said of
\* bufio.Reader until a Reset, which starts anew as Init does: TLC goes no
\* further there.
Followed == ~stray
=============================================================================
