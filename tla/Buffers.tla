------------------------------- MODULE Buffers -------------------------------
(***************************************************************************)
(* The three buffers, textproto.Reader and the helpers of package io side  *)
(* by side.  They share nothing: a behaviour is a behaviour of one of      *)
(* them, with the variables of the others idle.                            *)
(***************************************************************************)
EXTENDS ByteStream

CONSTANTS Size, MaxSize, MaxBytes, UTFMax, SmallBuffer, MinRead, MaxCap, BufLen,
          Inputs,                     \* what the bytes of a stream are
          Texts, Headers, LineEnds,   \* what textproto.Reader is sent
          Jobs                        \* what is copied and read

VARIABLES which, kind, taken, ret, buf, err,            \* of each that has one
          given, r, w, lastByte, lastRuneSize, frags, stray,   \* of bufio.Reader
          call,                                         \* of Reader and Writer
          size, accepted, wire,                         \* of bufio.Writer
          written, cap, off, lastRead,                  \* of bytes.Buffer
          input, pos, dot, got, textErr, fields, phase, \* of textproto.Reader
          job, start, at, v, left, stuck, teed, dst,    \* of package io
          count, result

R == INSTANCE BufioReader
W == INSTANCE BufioWriter
B == INSTANCE BytesBuffer
T == INSTANCE TextReader WITH err <- textErr
C == INSTANCE Copying WITH from <- start, n <- count

ASSUME SizesAssumption ==
    /\ R!ReaderAssumption /\ W!WriterAssumption /\ B!BufferAssumption
    /\ T!TextAssumption /\ C!CopyingAssumption

readerOnly == <<given, r, w, lastByte, lastRuneSize, frags, stray>>
writerOnly == <<size, accepted, wire>>
bufferOnly == <<written, cap, off, lastRead>>
textOnly == <<input, pos, dot, got, textErr, fields, phase>>
copyOnly == <<job, start, at, v, left, stuck, teed, dst, count, result>>
shared == <<kind, taken, ret, buf>>
vars == <<which, shared, err, readerOnly, call, writerOnly, bufferOnly, textOnly, copyOnly>>

NoReader == /\ given = 0 /\ r = 0 /\ w = 0 /\ lastByte = -1 /\ lastRuneSize = -1
            /\ frags = <<>> /\ stray = FALSE
NoWriter == size = 0 /\ accepted = 0 /\ wire = <<>>
NoBuffer == written = 0 /\ cap = 0 /\ off = 0 /\ lastRead = 0
NoText == input = 0 /\ pos = 0 /\ dot = 0 /\ got = 0 /\ textErr = 0 /\ fields = 0 /\ phase = 0
NoCopy == /\ job = 0 /\ start = 0 /\ at = 0 /\ v = 0 /\ left = 0 /\ stuck = 0 /\ teed = 0
          /\ dst = 0 /\ count = 0 /\ result = 0
NoCall == err = R!None /\ call = R!Idle

Init ==
    \/ which = "reader" /\ R!Init /\ NoWriter /\ NoBuffer /\ NoText /\ NoCopy
    \/ /\ which = "writer" /\ W!Init /\ NoReader /\ NoBuffer /\ NoText /\ NoCopy
       /\ kind = <<>> /\ taken = 0
    \/ which = "buffer" /\ B!Init /\ NoReader /\ NoWriter /\ NoText /\ NoCopy /\ NoCall
    \/ /\ \/ which = "text" /\ T!Init /\ NoCopy
          \/ which = "copy" /\ C!Init /\ NoText
       /\ NoReader /\ NoWriter /\ NoBuffer /\ NoCall
       /\ kind = <<>> /\ taken = 0 /\ ret = 0 /\ buf = <<>>

ReaderStep == which = "reader" /\ R!Next
              /\ UNCHANGED <<which, writerOnly, bufferOnly, textOnly, copyOnly>>
WriterStep == which = "writer" /\ W!Calls
              /\ UNCHANGED <<which, readerOnly, bufferOnly, textOnly, copyOnly, kind, taken>>
BufferStep == which = "buffer" /\ B!Next
              /\ UNCHANGED <<which, readerOnly, writerOnly, textOnly, copyOnly, err, call>>
TextStep == which = "text" /\ T!Next
            /\ UNCHANGED <<which, shared, err, call, readerOnly, writerOnly, bufferOnly, copyOnly>>
CopyStep == which = "copy" /\ C!Next
            /\ UNCHANGED <<which, shared, err, call, readerOnly, writerOnly, bufferOnly, textOnly>>

Next == ReaderStep \/ WriterStep \/ BufferStep \/ TextStep \/ CopyStep
Spec == Init /\ [][Next]_vars

\* No byte is lost, repeated or out of order: on its way through bufio.Reader,
\* on its way through bufio.Writer, and in a bytes.Buffer however it grows;
\* and bufio.Reader returns lines and slices whole.  For bufio.Reader this ends
\* where its caller puts back something that was not the last it had taken:
\* UnreadByte and UnreadRune do not refuse after Discard, WriteTo and the
\* ReadLine that has put a carriage return back.  The helpers of package
\* io deliver what was there, up to the limit, and report what was not.
Streams ==
    /\ which = "reader" => R!Stream /\ R!Lines
    /\ which = "writer" => W!Stream
    /\ which = "buffer" => B!Stream
    /\ which = "copy" => C!Copied

\* What a read has returned can be put back, and nothing else in its place, by
\* both buffers that offer it.
CanUnread ==
    /\ which = "reader" => R!CanUnread
    /\ which = "buffer" => B!CanUnread

\* After an error bufio.Writer accepts nothing more.
ErrorSticks == [][which = "writer" => W!ErrorStep]_vars

\* UnreadByte after ReadLine always unreads the last byte read.
UnreadByteUndoesReadLine == [][which = "reader" => R!UnreadByteStep]_vars

\* A dot-encoded text is read as it was sent, and the reader stands behind it.
DotDecoded == which = "text" => T!DotDecoded

\* A MIME header is read as it means, its continued lines joined.
HeaderUnfolded == which = "text" => T!HeaderUnfolded
=============================================================================
