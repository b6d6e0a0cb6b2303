# A verification model of the Go 1.17.7 networking core

The repository is an annotated extract of the Go 1.17.7 standard library: the
HTTP server and its message types (`net/http`), dialing and sockets (`net`),
`context`, `bufio`, `bytes.Buffer`, `io`, `log` and `log/syslog`. This directory
holds TLA+ models of the parts with a protocol of their own, TLC configurations
that check them on small instances, and TLAPS proofs of the main invariants for
every value of the constants.

    tlc -workers 2 -config MCHTTPServer.cfg MCHTTPServer.tla     # one run
    tlapm HTTPServer_proofs.tla                                  # one proof module

`PROJECT.json` lists the runs, the source lines each definition stands for
(`map`), the hazards each property is about (`hazards`), the theorems, and for
each property a mutant: a definition of the code changed as a plausible bug
would change it, under which TLC finds the property violated.

## 1. Inventory

Line numbers refer to the files under `src/`.

| Component | State | Operations | Talks to |
|---|---|---|---|
| HTTP server life cycle (`net/http/server.go`) | `inShutdown`, `disableKeepAlives` (atomics); `mu`; `listeners`, `activeConn`, `doneChan` (under `mu`); each connection's `curState` (atomic) and socket | `Serve`, `trackListener`, `trackConn`, `setState`, `Shutdown`, `closeIdleConns`, `Close`, `SetKeepAlivesEnabled`, `Hijack` | starts one `conn.serve` goroutine per connection; the sweep closes its socket |
| HTTP connection reader (`server.go`) | `connReader`: `mu`, `cond`, `inRead`, `aborted`, `hasByte`/`byteBuf`; `c.bufr`; the read deadline; the connection's context | `Read`, `startBackgroundRead`, `backgroundRead`, `abortPendingRead`, `hijackLocked`, `CloseNotify`, the loop of `conn.serve` | the socket, the request body, the handler |
| HTTP request body (`server.go`, `transfer.go`) | `body.sawEOF`, `closed`, `earlyClose`; `expectContinueReader` | `Read`, `Close`, draining at the header and at the end | `connReader`, `onHitEOF` starts the background read |
| HTTP response writing (`server.go`) | `response.wroteHeader`, `contentLength`, `written`, `closeAfterReply`; the buffer `w.w`; `chunkWriter.wroteHeader`, `chunking`; `canWriteContinue` | `WriteHeader`, `Write`, `Flush`, `ReadFrom`, `cw.writeHeader`, `finishRequest`, `shouldReuseConnection` | decides keep-alive and draining; the body's reader sends the `100 Continue` |
| HTTP message framing (`transfer.go`, `request.go`, `response.go`) | none to speak of | `newTransferWriter`, `writeHeader`, `writeBody`; `readTransfer`, `fixLength`, `parseTransferEncoding`, `shouldClose` | `bufio`, the body |
| `context` (`context/context.go`) | each context's `mu`, `err`, `done`, `children`; timers | `WithCancel`, `WithDeadline`, `cancel`, `propagateCancel`, `removeChild`, the watcher goroutine | parents and children, foreign `Context` types |
| dialing (`net/dial.go`, `fd_unix.go`, `sock_posix.go`, `tcpsock_posix.go`) | the race of two `dialSerial`s, `results`, `returned`, the fallback timer; each socket's write deadline | `DialContext`, `dialParallel`, `dialSerial`, `netFD.connect`, `doDialTCP` | contexts, the network |
| `bufio.Reader` / `bufio.Writer` | `buf`, `r`, `w`, `err`, `lastByte`, `lastRuneSize` / `buf`, `n`, `err` | every exported call | an `io.Reader` / `io.Writer` that may do less than asked |
| `bytes.Buffer` | `buf`, `off`, `lastRead` | every exported call | its caller, `io.Reader`, `io.Writer` |
| TimeoutHandler (`server.go`) | `timeoutWriter`: `mu`, `h`, `wbuf`, `timedOut`, `wroteHeader`, `code` | `ServeHTTP`, `Write`, `WriteHeader` | the inner handler's goroutine, a context |
| ServeMux (`server.go`) | `mu`, `m`, `es`, `hosts` | `Handle`, `Handler`, `ServeHTTP`, path cleaning, redirects | handlers, clients that follow redirects |
| MaxBytesReader, small handlers | a limit and a sticky error | `Read` | the body |
| `textproto.Reader` | `dot`, `closeDot`, the buffered bytes | `ReadLine`, `ReadContinuedLine`, `ReadMIMEHeader`, `DotReader`, `ReadDotLines` | `bufio.Reader` |
| `io` (and `net.Buffers`) | offsets and limits of the wrapping readers | `Copy`, `CopyN`, `ReadAtLeast`, `ReadAll`, `Seek` | any reader, any writer |
| `log` | `mu`, `flag`, `prefix`, `out`, `buf` | `Output` in two critical sections, `Print`, `Fatal`, `SetFlags`, `SetPrefix`, `SetOutput` | a file or a `syslog.Writer` |
| `log/syslog` | `mu`, `conn` | `Write` and the calls of one severity, `writeAndRetry`, `connect`, `Close` | the log daemon |
| headers and cookies (`header.go`, `cookie.go`) | maps of strings | conversions | – |
| other sockets, IP addresses (`net`) | file descriptors | wrappers and conversions | the kernel |
| demonstrations, benchmarks | – | – | – |

What makes them hard, and what makes them correct:

* **Life cycle.** Three kinds of goroutine share maps under a mutex, atomics
  outside it, and sockets that the sweep may close under their user. A
  connection is accepted, registered and given a state in three separate steps;
  the sweep loads a state and acts on it later. Correct means: nothing accepts
  after a shutdown, nothing leaks in the maps, a hijacked or brand-new socket is
  left alone, idle connections are all found, everybody returns.
* **Connection reader.** Two goroutines alternate at one socket; one interrupts
  the other by moving the deadline into the past and waiting on a condition
  variable; a byte read ahead must come out in its place. Correct means: the
  handler's stream is the client's stream, the two never read together, the
  deadline is put back, the wait ends, and only a client that is gone cancels.
* **context.** Locks are taken down the tree while children are added and
  removed; timers and watchers cancel as well. Correct means: what is derived
  from an ended context ends, the first reason stands, nothing stays listed or
  armed, and no two walks block each other.
* **Dialing.** Two goroutines race with a timer, a deadline per address, and an
  interrupter that spoils a socket to wake its owner. Correct means: exactly the
  returned socket stays open and it is not spoiled, errors are the primary's,
  everything ends when the context does.
* **Replies and handlers.** Two goroutines share a `timeoutWriter`, and a select
  picks at random between the end of the handler and the end of its time; a
  handler's calls meet the rules of a header that can be written only once; the
  continue reader writes to the same connection. Correct means: one whole reply,
  framed as its header says, read by the client as the handler wrote it.
* **Messages.** Length, encoding, method, status, version and `Connection` are
  tested in many places on both ends. Correct means: what one end writes the
  other reads, and what is left in the connection is nothing.
* **Log.** `Output` gives the mutex up in the middle; syslog sends again what a
  failed send may have delivered. Correct means: whole lines, no error of a send
  lost, nothing sent again but at once after a failure, no connection left behind.
* **Buffers and readers.** Indices into a window that slides, short reads and writes, sticky
  errors, "unread" operations that need what the last call left behind. Correct
  means: the bytes that come out are those that went in, in order, whatever the
  sequence of calls.

## 2. Modules

| Module | Models | Checked by | Proved in |
|---|---|---|---|
| `HTTPServer` | life cycle of the server and of its connections' states | `MCHTTPServer` (3 runs) | `HTTPServer_proofs` |
| `RequestStream` | abstract: what one connection promises | refined by `ServeConn` | `ServeConn_proofs` |
| `ServeConn` | one connection: serving goroutine, background read, body, client | `MCServeConn` (1 run) | `ServeConn_proofs` |
| `ContextTree` | abstract: what a tree of contexts promises | refined by `CancelCtx` | `CancelCtx_proofs` (steps) |
| `CancelCtx` | `cancelCtx` and `timerCtx` with their mutexes | `MCCancelCtx` (2 runs) | `CancelCtx_proofs` |
| `Dial` | `DialContext` down to `netFD.connect` | `MCDial` (1 run) | `Dial_proofs` |
| `TimeoutHandler` | the handler with a time limit | `MCHandlers` (3 runs, with the next five) | `Handlers_proofs` |
| `ServeMux` | registration, lookup, redirects | `MCHandlers` | `Handlers_proofs` |
| `Transfer` | how a message says where its body ends, and how it is read | `MCHandlers` | `Handlers_proofs` |
| `ResponseWriter` (EXTENDS `Transfer`) | the reply of one handler | `MCHandlers` | `Handlers_proofs` (`ContinueFirst`, `Framed`) |
| `Syslog` | the syslog writer and its connections | `MCHandlers` | `Logger_proofs`, `Handlers_proofs` |
| `Logger` (EXTENDS `Syslog`) | the logger that writes to it | `MCHandlers` | `Logger_proofs`, `Handlers_proofs` |
| `Handlers` | the five parts above and `TimeoutHandler` put together | `MCHandlers` | `Handlers_proofs` |
| `ByteStream` | positions, slices and runes of a stream | with the next three | `Buffers_proofs` |
| `BufioReader`, `BufioWriter`, `BytesBuffer` | the three buffers | `MCBuffers` (2 runs) | `Buffers_proofs` |
| `TextReader` | `textproto.Reader` | `MCBuffers` | `TextReader_proofs` |
| `Copying` | the helpers of `io`, `maxBytesReader`, `net.Buffers` | `MCBuffers` | `Buffers_proofs` |
| `Buffers` | the buffers, `TextReader` and `Copying` put together | `MCBuffers` | `Buffers_proofs`, `TextReader_proofs` (EXTENDS `Buffers_proofs`) |

The MC modules only give values to the constants of the module they extend.

### HTTPServer

Three families of processes, each with a program counter: `sp` for the `Serve`
call of each listener, `cp` for the `conn.serve` goroutine of each connection,
`xp` for each caller of `Shutdown`, `Close` or `SetKeepAlivesEnabled`. `mu` is
`srv.mu`; a critical section that nobody can observe half-done is one action
guarded by `mu = Free`, while a section that others can see half-way (the sweep,
which loads atomics and closes sockets; closing listeners before `doneChan`)
holds `mu` over several actions. `inShutdown`, `disableKeepAlives` and
`curState[c]` are loaded and stored without the mutex, in actions of their own:
this is where the interesting interleavings are. `curState = "unset"` is the
atomic's zero value between `trackConn` and the store, `"old"` is `StateNew`
for more than five seconds. What a client sends, what a handler does (reply,
panic, hijack), and whether a reply keeps the connection are nondeterministic.
Of the connection's reading the model keeps only where the bytes of the next
request are (`got`), which decides between `StateActive` and an early close.

### ServeConn and RequestStream

One connection with all its bytes. A byte is a pair (request, index). The client
sends its script byte by byte, may leave out a body it said it would send only
after `100 Continue`, and may hang up anywhere. `sock` is the receive queue,
`byte` is `byteBuf`, `bufr` is the `bufio.Reader`, `bg` where the background
goroutine is; `deadline` is the read deadline on the socket. Sections under
`cr.mu` are single actions, reads of the socket are steps of their own, so that
an abort, a byte, a timeout and a hang-up meet in every order. The body's `Read`
and `Close` (with the drain limit `maxPostHandlerReadBytes`), the decision of
`writeHeader` to drain, keep or close, `finishRequest` and
`shouldReuseConnection` are modelled with the data they test. Handlers read,
close, flush, hijack, panic and return as they like, on the serving goroutine.

`RequestStream` says what all this is for: one stream; a request begins at a
header and only between two requests; while it is served the stream yields its
body and nothing else; the next begins after the body's end; a hijacker gets the
rest. `Implements` maps its `stream` to
`bufr \o byte \o bgByte \o sock`, so every way of losing, repeating or
overtaking a byte is a violation.

### CancelCtx and ContextTree

A context is a number; `parent`, `timed`, and for each `err`, `done` (nil, open,
closed, or the shared `closedchan`), `children`, `timer` and its mutex. A call of
`cancel` is a walk: `at[g][c]` is where goroutine `g` is with context `c`, so the
recursion is the set of places a goroutine occupies at once, with the mutexes it
holds on the way down. Callers, timer goroutines and watchers run the same walk.
`propagateCancel` is modelled with its three ways (parent done already, parent a
`*cancelCtx`, foreign parent with a goroutine), and with the gap between the test
of `Done` and the registration. `WithValue` is transparent to `Done` and to
`&cancelCtxKey` and is left out. `ContextTree` has one variable for reasons; a
child `Inherit`s from its parent under weak fairness, and `CancelCtx` implements
that fairness too.

### Dial

The caller (`pc`), two racers (`rp`) that walk their address lists, and for each
connect the interrupter goroutine (`ip`) of `netFD.connect`. `open`, `linked` and
`poisoned` are the sockets that exist, that are connected, and whose write
deadline was moved to the past. The environment ends contexts, lets deadlines
and fallback timers pass and answers (or never answers) connects. A TCP connect
may be a self-connect or fail with `EADDRNOTAVAIL`, which `doDialTCP` retries.
The address list comes from outside; `partialDeadline` is a deadline that may
pass at any moment.

### TimeoutHandler

The handler's goroutine (`handler`, `call`) and the serving goroutine (`serve`)
share `tw.mu`. A call of the `timeoutWriter` is one step under the mutex; the
serving goroutine holds it over the header and the body of the reply, which are
separate steps, so a late `Write` finds the mutex taken and then `timedOut`. The
channels `done` and `panicChan` and the context are ready or not, and the select
is a choice among those that are. A handler may return, panic, call
`runtime.Goexit` or run for ever.

### Replies: Transfer, ResponseWriter

`Transfer` is pure: `WriteRequest` and `WriteResponse` give the head and the wire
that `Request.Write` and `Response.Write` produce from the fields of a message,
`ReadRequest` and `ReadResponse` what `readTransfer` makes of a head, and how much
of a wire the body reader takes. Both ends are translated from the code, so that
"it is read as it was meant" (`MessagesArrive`) is about two programs.

`ResponseWriter` puts a handler in front of it: `x` is the request and the header
the handler has set, then the calls of `ResponseWriter` in any order and with any
lengths pass through `w.w` and `cw`, and `finishRequest` decides whether the
connection is kept. The client is `Transfer`'s reader. Another goroutine of the
handler may read the body in the meantime, which makes `expectContinueReader`
send its `100 Continue` under `writeContinueMu`.

### ServeMux

A client with a request, and patterns that get registered while it is served. A
lookup is two steps, because `Handler` calls `redirectToPathSlash` and `handler`
under the mutex one after the other. A client follows each redirect with a
request for the new path. Hosts, ports and `CONNECT` are kept, since they choose
the pattern.

### Logger and Syslog

`Output` is two critical sections around `runtime.Caller`; the first reads the
flags, the second formats and writes, and setters come in between. Where the
output is a `syslog.Writer`, the write goes through `writeAndRetry`, whose steps
(`write`, `connect`, the second `write`) happen under `w.mu`, taken inside
`l.mu`. Every attempt to send succeeds or fails, and every connection is made or
refused; other goroutines call the writer directly and close it. An attempt
succeeds when the kernel has taken the message. What becomes of it then is not
modelled, since the writer never learns it (`syslog.go:287-303`), and messages do
get lost there (`syslog_test.go:370-372`). Lines are sequences of parts.

### Buffers and readers

`ByteStream` represents contents by positions: the byte at position *k* of the
underlying stream is the number *k* with a kind (ordinary, line feed, carriage
return, first or second byte of a rune), so a buffer is a sequence of positions
and "no byte lost, repeated or overtaken" is an equation between what was taken
from the source, what is in `buf[r:w]` and what was given to the caller.
`BufioReader` has every call of `Reader`, where the source may return any number
of bytes with or without an error, or nothing at all, and `UnreadByte` and
`UnreadRune` may follow any call. They put back what the struct remembers, which
after `Discard`, `WriteTo` and a `ReadLine` that has put a carriage return back is
not what was taken last (`Stale`); the history variable `stray` says that this has
happened. `BufioWriter` and `BytesBuffer` likewise, with capacity and the panic `ErrTooLarge` when
reallocation fails.

`TextReader` reads classes of bytes: lines, MIME headers with continuation
lines (where the code looks at what is buffered, both outcomes are taken), and
dot-encoded texts with the `dotReader`'s state machine, against texts that a
peer encoded or that end early. What a header means is stated apart from how it is read:
line by line from the last to the first (`MeaningFrom`). `Copying` has one call of a helper at a time over
each wrapping reader, under every short read, read with error, short write and
write error.

`Handlers` and `Buffers` put the components they hold side by side: `which` is
chosen at the start and the variables of the others stay idle, so a behaviour is one
of one component. The components share nothing in the code either; a
`syslog.Writer` under a `Logger` is one part. The properties of the runs, and the
theorems about them, speak of these compositions.

## 3. Runs

| Run | Instance | Shows |
|---|---|---|
| `http_server` | 1 listener, 2 symmetric connections, 1 `Shutdown`, 1 `Close`, idle timeout set | `ListenersClosed`, `ServeReportsShutdown`, `NoLeakedConn`, `AtMostOneLateRequest`; actions `HijackedLeftAlone`, `UnsetNotSwept` |
| `http_server_drain` | 1 connection, 1 `Shutdown`, 1 `SetKeepAlivesEnabled`, with fairness | `NoIdleSurvivor`, `ServeReturns`; `ShutdownReturns`, unless a request is served for ever |
| `shutdown_misses_conn` | 1 connection, 1 `Shutdown` | violation of `NoConnAfterShutdown` (section 6) |
| `conn_reader` | 3 pipelined requests, each of 7 kinds first and behind others, buffer of 2, drain limit 2, timeouts on, with fairness | `NoConcurrentRead`, `AbortLeavesNoTrace`, `HijackComplete`, `Implements` (RequestStream), `AbortReturns`, `HangUpCancels` |
| `context_tree` | 3 contexts in every tree shape, at most 1 with a deadline, 1 process that derives and cancels, with fairness | `CancelledTogether`, `Released`, `CancelReturns` |
| `context_custom` | 2 contexts, 1 with a deadline, 1 foreign parent | `Implements` (ContextTree, fairness included), `WatchersEnd` |
| `dial` | up to 2 primary and 1 fallback addresses, one retry | `NoSocketLeaks`, `ReturnedConnUsable`, `ErrorIsPrimarys`, `CancelEndsDial`, `LosersEnd` |
| `buffers` | buffers of 2 to 3 bytes over streams of up to 4 bytes of every kind; texts of up to 2 and headers of up to 3 short lines, texts also cut off at every byte; every helper of `io` over every wrapping reader | `Streams`, `CanUnread`, `ErrorSticks`, `DotDecoded`, `HeaderUnfolded` |
| `unread_after_readline` | the same | violation of `UnreadByteUndoesReadLine` (section 6) |
| `handlers` | time limit: codes 0 and 404, 2 writes, with fairness; mux: 7 patterns, 9 paths, 2 hosts; replies: 1080 kinds of exchange, up to 4 bytes in any writes; log: 2 goroutines, 2 calls, 3 connections; 18,000 messages | `OneReply`, `AcceptedInTime`, `GoroutinesEnd`; `MuxChoice`, `RedirectsEnd`; `Framed`, `ContinueFirst`; `WholeLines`, `SyslogKeeps`; `MessagesArrive` |
| `continue_after_header` | replies alone, where the handler may flush before it reads | violation of `ContinueFirst` |
| `head_readfrom` | replies alone, where the handler may copy a file in answer to HEAD | violation of `Framed` |

### Bounds, and why they are enough

* **HTTPServer.** Connections interact with each other only through `srv.mu` and
  the loop of a sweep, where two are enough for one to change state while the
  sweep is at the other; they are interchangeable, hence the symmetry. One
  `Shutdown` with one `Close` gives every race of two closers; `IdleTimeout`
  decides only whether `Peek` is between two requests, and both values are run.
  `late` counts requests and is bounded by the code itself. Whatever these
  instances might miss, the safety properties are proved without bounds.
* **ServeConn.** The seven kinds of request take each side of every test on a
  body: none; shorter than, and as long as the drain limit; chunked, below and
  above it; expecting `100 Continue`; asking to close. In the 19 sequences of three
  requests (`MCScripts`) each kind comes first, behind a request without a body and
  behind one with a body, and always has a request behind it, so that a byte read
  ahead for one request may meet the start of the background read of the next;
  the safety of every other sequence is proved. Deadlines may pass or never do; a
  server without them only lacks the `Peek` between two requests, and the proofs
  have both. `BufCap = 2`
  makes `c.bufr` full, partly filled and empty (the code has 4096). `bcast`, the
  number of background reads about to broadcast, is at most the number of
  background reads there have been.
* **CancelCtx.** Three contexts give chains, siblings and a cousin; a walk and a
  removal from above and from below meet in them. At most one timer. In the run
  with a foreign parent a tree below the watcher needs two.
* **Dial.** Two primaries exercise "next address, first error"; one fallback is
  enough to win, lose, fail and come late. `MaxRetries` is 1 instead of the
  code's 2: a retry happens and the limit is hit.
* **Buffers.** `Size` 2 and `MaxSize` 3 against four bytes of stream and runes
  of at most two bytes (`UTFMax`; Go has four): a rune, a line end and every
  copy may straddle the end of the buffer, and a stream is longer than a buffer.
  The smallest legal `bufio.Reader` has 16 bytes, and no code tests its size
  other than against the data and `utf8.UTFMax`. `SmallBuffer` and `MinRead` are
  `smallBufferSize` and `MinRead` scaled down the same way; `MaxCap` is where
  `makeSlice` panics. Every call may follow every other. Of `bufio.Reader` the
  properties say nothing more once something was put back that had not been
  taken last (`stray`), until `Reset`; the run `unread_after_readline` shows what
  happens there, and `buffers` goes no further (the constraint `Followed`).
* **TextReader, Copying.** The lines hold the bytes the state machines test (dot,
  carriage return, line feed, colon, space) in first, middle and last places.
  `BufLen` 2 against up to three bytes makes a copy of no, one and several rounds.
* **TimeoutHandler.** Two writes: one before and one after the deadline. `Codes`
  has one that panics and one that does not. Proved without bounds.
* **ServeMux.** Patterns nest three deep, with and without host, with and without
  a slash at the end; each order of registration is taken.
* **ResponseWriter, Transfer.** Four bytes are less than, exactly, and more than
  what a buffer of two and a declared length of three hold. Lengths of -1 (not
  known), 0, below, at and above the body's size take every side of each test.
* **Logger, Syslog.** Two calls are enough for one to run while the other has
  given up the mutex; three connections allow a retry that itself reconnects.

`CHECK_DEADLOCK FALSE` stands where the system may rest: a client that sends
nothing more, contexts nobody cancels, a peer that never answers, a helper that
has returned, a process that has exited. `HTTPServer` has an explicit action for
the state in which everybody has returned and is checked for deadlock.

### Fairness

* `HTTPServer!Fairness`: strong fairness of each goroutine's own steps, because
  `sync.Mutex` hands the lock to a waiter that has starved for a millisecond;
  weak fairness of an `Accept`, a read or a write that fails on a closed socket,
  and of time passing. Nothing makes a client send a request or the rest of a
  body, or take a reply: the drain before the header (`server.go:1436`), the flush
  (1726) and the body's `Close` (1735) wait for it and are the client's steps. Nor
  does anything make a handler return or panic, a context expire, or anybody call
  `Shutdown`. So `ShutdownReturns` begins with a call under way and has the
  hypothesis `RequestsEnd`, that no connection is in a handler or in
  `finishRequest` for ever; clients that are idle, or send nothing or part of a
  header, are its business. `ServeReturns` has no hypothesis.
* `ServeConn!FairSpec`: weak fairness of the two goroutines (the scheduler runs
  what can run). No fairness of the client, of deadlines, or of the handler.
* `CancelCtx!Spec`: weak fairness of each goroutine. Mutexes need no more here,
  since within a bounded number of contexts each is held a bounded number of
  times.
* `Dial!Spec`: weak fairness of goroutines and of running timers. A peer need
  not answer and nobody need cancel.
* `MCFairness` (for TimeoutHandler): weak fairness of the handler's own steps
  once it is in a call or leaving, of the serving goroutine and of time; strong
  fairness of the serving goroutine's `tw.mu.Lock()`, by the same rule of
  `sync.Mutex` as above. A handler need not return.

The other parts are sequential or bounded by a mutex and only have safety
properties.

## 4. Proofs

Eight modules hold theorems: one per concurrent component (`HTTPServer_proofs`,
`ServeConn_proofs`, `CancelCtx_proofs`, `Dial_proofs`, `Logger_proofs`), one for the
composition `Handlers`, and two for `Buffers`: `Buffers_proofs`, and `TextReader_proofs`
for the reader on top of the buffers. Each is about any values of the constants that
the named assumptions admit.

`HTTPServer_proofs` proves, from `CallersAssumption` (the sets of callers are
disjoint, `Free` and `NoConn` are none of them) and `IdleTimeoutAssumption`, for
any number of listeners, connections and callers: `Invariant`, `TypeCorrect`,
`ListenersAreClosed`, `ServeReportsErrServerClosed`, `ShutdownEndsServeLoops`,
`ConnsAreUntracked`, `LateRequestsBounded`, `SweepLeavesNoIdle`,
`HijackedIsLeftAlone`, `UnsetIsNotSwept`. The invariant `IInv` adds to the
properties what makes them inductive:

* `MutexInv`: `mu` is held by exactly the caller whose program counter is in a
  critical section, so two sweeps, or a sweep and a hijacker's untracking,
  exclude each other;
* `FlagInv` and `ServeInv`: who is past `inShutdown`, which Serve loops are
  registered, and that a closed listener means `doneChan` is closed or its
  closer still holds `mu` – why the `select` after `Accept` sees it;
* `HandInv`: a connection accepted is in one `Serve`'s hands and has no goroutine;
* `TrackInv`: every served connection with an open socket is tracked, and the
  sweep's loop works on tracked connections only – why hijacked sockets are safe;
* `LateInv`: a reply to a late request says close;
* `IdleInv`: an idle connection past its keep-alive check is still ahead of the
  sweep – the store/load argument between the two atomics.

`ServeConn_proofs` proves from `RequestsAssumption` and `LimitsAssumption`, for
any requests, buffer size and drain limit: `Invariant`, `TypeCorrect`,
`ReadersAlternate`, `NoSpuriousCancel` (of `AbortLeavesNoTrace`),
`HijackHandsOverAll`. Its `IInv` adds:

* `ReaderInv`: `inRead` is the exclusive right to read the socket;
* `DeadlineInv`: a past deadline and `aborted` exist only while an abort waits;
* `BackgroundInv`: where the serving goroutine can be while a background read is
  on, and that the body is at its end then;
* `ReturnInv`, `EndInv`: where a header or an abort returns to, and that a reply
  that keeps the connection is not sent before the body has gone – this is why
  `conn.serve` never starts to read under a background read;
* `RoomInv`: there is always room in `c.bufr` for the byte read ahead. It is the
  subtle one: nothing in `hijackLocked` makes room, and it holds because a
  background read starts only after the body's end was read, which took at least
  one byte (the header's, if nothing else) out of a buffer that is refilled only
  when empty;
* `ContextInv`: an error of the background read that is no timeout means the
  client has gone or the server closed the socket.

It then proves on top of this, from the same assumptions,
`ServesRequestStream`: `Spec => Implements`, that a connection takes only the steps
of `RequestStream`. `Unread` is what is in `c.bufr`, in `byteBuf`, in the background
goroutine's hands and in the socket, one after the other; `Upcoming` adds the byte
that the client sends next, so that it is never empty. The steps fall in two
groups. `Quiet` steps (all but five) leave `Unread` and the place in the request
alone, `QuietUnread` saying so for each of the moves between the four places; the
client's steps extend `Upcoming` at its end and the server's take its head. The
invariant `SInv` adds to `IInv`:

* `ByteInv`: while a background read is on, `byteBuf` is empty, so the byte it
  brings is put behind `c.bufr` and before the socket;
* `ClientInv`, `OrderInv` and `AheadInv`: the bytes come in order, each following
  the one before, and the server has read no further than the client has sent;
* `BodyInv` and `EofInv`: `lr.N`, the chunks, the trailer and `sawEOF` agree on how
  far the body is, and its end was seen only there or at the end of the stream;
* `ReplyInv`: a reply that keeps the connection is sent only when the body has been
  read to its end, and the next request is awaited only then;
* `PlaceInv`: the head of `Upcoming` is the byte of the body at `Position`, or the
  header of the next request with the body gone by – or left out by the client
  (`Skipped`) after a reply that said close, in which case it sends nothing more.

With it `ReadRequestHead` shows that `conn.serve` finds a header at a header (the
400 branch is never taken) and `ReadBodyHead` that a body never reads past its end.

`Dial_proofs` proves from `LimitsAssumption` and `NoneAssumption`, for any numbers
of addresses and tries: `Invariant`, `TypeCorrect`, `NoLeak`, `Usable`,
`ErrorIsFirst`. `AddrInv` bounds each racer's place in its list; `SocketInv` says
that a racer owns at most one socket, at which places, and whether it is linked
or poisoned; `OutInv` that a result is sent once and by whom; `CallerInv` which
racers can still be running at each place of the caller (why a loser still finds
`returned` closed and discards its socket); `ResultInv` whose error is kept. A
step of one racer leaves the other's part alone (`OthersKeep`), so each action
is proved for one racer only.

`CancelCtx_proofs` proves from `CtxsAssumption` and `GoroutinesAssumption`, for any
number of contexts, goroutines and foreign parents: `Invariant`, `TypeCorrect`,
`DerivedEndToo` (`CancelledTogether`), `NothingHeld` (`Released`) and
`StepsOfTree`: `CancelCtx` implements the initial states and the steps of
`ContextTree`. The parts of its `IInv`:

* `TreeInv` and `MakingInv`: parents come before children, and a context that is
  not made or not attached yet has not ended;
* `PathInv`: the places one goroutine occupies are one path down the tree –
  `cancel` calls itself for a child only;
* `LockInv`: a goroutine at a place holds that context's mutex, and nobody else;
* `ChildrenInv`: a context that has been attached is in its parent's map, or its
  parent has ended and a walk has yet to reach it, or it has ended too. This is
  the argument behind testing `p.err` under `p.mu` in `propagateCancel`;
* `OnceInv` and `ReleaseInv`: one walk ends a context, and what that walk has
  still to stop or to remove is exactly what is still armed or listed.

A call of `cancel` happens at six places in the code (the test of the parent's
`Done`, the registration, a deadline in the past, a `CancelFunc`, a timer, a
watcher); `CallKeeps` treats them at once.

`Logger_proofs` proves from `LoggerAssumption` (the priority is one `Dial` accepts,
`None` is no goroutine), for any numbers of goroutines, calls and connections and
any flags and prefixes: `Invariant`, `LinesAreWhole` (`WholeLines`) and
`SyslogKeepsMessages` (`SyslogKeeps`). `Handlers` instantiates `Logger`, so its
assumption is a premise of each theorem here; `Handlers_proofs` instantiates this
module and discharges the premise by `BoundsAssumption`. `NumberInv` gives every
call a number of its own and its line carries it; `BufInv` says whose line the
shared buffer holds from `Format` to the end of the write, all of it under `l.mu`;
`CallInv` who is in `writeAndRetry` and with which message. `PendingInv` says what
that call has sent so far: nothing, or one attempt that failed, the last of all,
over a connection that is no longer `w.conn` when the second begins. `SentInv`
ties every attempt to a call that is over or is sending now (`OfPast`, `SentBy`), so
that a later call's line is none of them; with it `RetryInv`, that a line is sent
again only at once, is inductive. `ReturnedInv` is what the calls have returned, and
`ConnInv` that `w.conn` is the only connection open.

`Handlers_proofs` proves of the composition `Handlers`, from `CodesAssumption`,
`MaxWritesAssumption`, `BoundsAssumption` and `MessagesAssumption`:

* of `TimeoutHandler`: `Invariant`, `TypeCorrect`, `ExactlyOneReply` (`OneReply`),
  `WritesAreInTime` (`AcceptedInTime`). `MutexInv` says which program counter holds
  `tw.mu`; `DoneInv` that `done` is closed only by a handler that has returned, and
  that the select has taken it only then; `ReplyInv` how far the reply is at each
  step of the serving goroutine, and that until `timedOut` is set the mutex alone
  keeps a late write out;
* of `Logger` and `Syslog`: `LogLinesAreWhole` (`WholeLines`), `LogMessagesAreKept`
  (`SyslogKeeps`), the theorems of `Logger_proofs` carried over;
* of `ResponseWriter`: `ContinueIsFirst` (`ContinueFirst`), where
  `FlushBeforeReading = FALSE`; with `TRUE` it is false, as the run
  `continue_after_header` shows. `ContinueInv` says that the reader of the body may
  send the `100 Continue`, or is sending it, only while the header is not out.
  `RepliesAreFramed` (`Framed`), where `HeadReadFrom = FALSE`; with `TRUE` it is
  false, as the run `head_readfrom` shows. `WriterAssumption` says what an exchange is
  made of (`Exchange`). `FrameInv` follows the bytes of the reply: of those taken from
  the handler, the ones that are not in the buffer are on the wire, in the framing
  of the header that was sent (`Framing`); that header is the one for the length
  that was declared or counted (`HeadSent`); and either every counted byte was
  taken or the handler wrote more than it declared (`Counted`). The wire is a sequence
  of chunks whose sizes add up to the body (`SumsAppend`);
* of `ServeMux`: `LongestPatternChosen` (`MuxChoice`) and `RedirectsAreFew`
  (`RedirectsEnd`), for any patterns and requests. `MuxOK` says that `es` holds
  exactly the patterns that end in a slash, from the longest on (`InsertedSorted` is
  `appendSorted`), and that `hosts` tells whether a pattern has a host, so the
  first match is the longest one. `MuxAssumption` has no host named "/". For the
  redirects, `CleanPathIs` says what `path.Clean` and `cleanPath` make of a path,
  and `CleanPathType` that doing it twice makes no difference; `RedirectOK` then
  counts: an unclean path is left once, and behind an added slash (`Reaches`) a
  pattern waits and no slash is added again. `RedirectsAreFew` has the hypothesis
  `ConnectsClean`: a `CONNECT` path is looked up as it is, so behind a redirect from
  an unclean one to the cleaned one there may be no handler;
* of `Transfer`: `MessagesAreRead` (`MessagesArrive`), for bodies and lengths of
  every size. `MessagesAssumption` says what a message is made of: the transfer
  encodings `transfer.go` knows, a length from -1 up. `RequestWriter` and
  `ResponseWriter` say which head and which framing a message gets, `RequestLength`
  and `ResponseLength` what the reader makes of that head, `BodyRead` and
  `ChunksRead` how much of the wire that takes; the theorem puts the two ends
  together, case by case of the framing.

`Buffers_proofs` and, for its `TextReader`, `TextReader_proofs` prove of the composition
`Buffers`, from `SizesAssumption`, for every size of a buffer, every stream, every length of either, and every sequence of calls:

* `StreamsAreKept` (`Streams`): no byte is lost, repeated or out of order in
  `bufio.Reader`, `bufio.Writer`, `bytes.Buffer` and the helpers of `io`;
* `ReadsCanBeUndone` (`CanUnread`): after a call that has read something,
  `UnreadByte` puts back exactly the byte taken last and `UnreadRune` exactly the
  rune; in `bytes.Buffer` after every read that returned bytes and no error;
* `WriterErrorSticks` (`ErrorSticks`);
* `TextsAreDecoded` (`DotDecoded`): a text sent dot-encoded is read as it was sent, by
  `DotReader` in pieces of any size or by `ReadDotLines`, and the reader then stands
  behind it. Of a text cut short the `dotReader` returns a beginning and
  never takes it for whole; nor does `ReadDotLines`, except where the cut is
  right behind a dot that begins a line (`CutBehindDot`, section 6);
* `HeadersAreUnfolded` (`HeaderUnfolded`): a header of any lines is read as it means,
  each line joined to those that continue it, whichever of them `bufio.Reader` has in its
  buffer when `readContinuedLineSlice` looks ahead; it is refused at the first line that
  has no colon, and at once if it begins with a continuation; and the reader then stands
  behind its blank line.

`TextAssumption`, a part of `SizesAssumption`, says what is sent: texts of lines that
hold no line feed, headers of lines that hold something, but neither a line feed nor a
carriage return, each line ended by a line feed, with or without a carriage return
before it.

No theorem restricts the sequence of calls. Of `bufio.Reader`, `Streams` and
`CanUnread` speak until something is put back that was not taken last (`stray`): the
code does not refuse it, and what it does then is the run `unread_after_readline`.
`SizesAssumption` contains that `CopyN` reads through the `LimitedReader` it makes.
The inductive invariants:

* `WriterOK`: what is on the wire followed by what is in the buffer is what was
  accepted, in order, and the buffer never exceeds its size;
* `BufferOK`: the places behind `off` hold what was written and not taken
  (`Contents`), wherever `grow` has moved them, and before `off` lies what the last
  call returned while it may be put back (`Behind`);
* `ReaderOK`: the window `buf[r:w]` holds what was given and not taken (`Core`);
  the fragments `ReadBytes` and `WriteTo` gather end where the reader stands
  (`Gathered`); what a call has returned is a run of the stream that ends there,
  and there is room to put it back (`Returned`, `Undoable`), a line is whole
  (`SliceReturned`, `LineReturned`);
* `CopyOK`: the source has not been read past its end and, for `net.Buffers`, the runs
  that are left add up to what has not been read (`SourceOK`, which needs that
  `consume` cuts the right run: `Consumed`); the limit of the wrapping reader
  and the error it keeps agree with how far the source is (`WrapOK`); what has
  arrived is what the caller was given, no more than `Allowed` (`DataOK`); and the
  error tells why the call stopped (`ResultOK`).

* `TextInv`: where the `dotReader` is in the block (`Place`: a state of its machine, the
  line and the byte of it) and that what it returned is the text up to there (`GotOK`).
  `CodedIs` says at which byte of the block and of the text each line begins,
  `PlaceStep` that one step of the machine, byte put back or not, goes from such a
  place to the next, and `DotReads` what a `Read` of any length does; `BlockLine` and
  `BlockGathered` say the same of `readLineSlice` and `ReadDotLines`, and
  `CutLineEnds` and `CutGathered` where `ReadDotLines` ends in a block cut short. `CloseDotIs` is what
  `ReadLine` relies on: draining an unfinished `dotReader` ends behind the block;
* `HeaderInv`: the reader is at the beginning of a line that continues no other, and the
  fields read so far followed by what the lines from there on mean (`MeaningFrom`) are
  what the header means (`ReadUpTo`). It is inductive because a line and those that
  continue it are taken at once: `ContinuedLineIs` says that both ways through
  `readContinuedLineSlice` give the joined line (`Joined`) and the first line behind it,
  `LinesContinue` where the loop over the continuing lines ends, and `TrimBehindSpaces` that
  the spaces skipped before such a line do not change what `trim` leaves of it.
  `KeyOfField` says that the key is the one of the first line, whatever continues it.

A call that loops in the code is several steps (`ReadFrom`, `WriteTo`, `ReadBytes`,
`Copy`), each proved to keep the invariant. A `Read` of the source is described
once, for every wrapping reader (`ReadStep`), and used by every helper.

Each proof has one lemma per conjunct or group of actions and one step per
action; the temporal step at the end combines `Init`, the inductive step and
propositional temporal logic. The properties were checked with TLC on the
instances above before they were proved, and so were the invariants TLC can evaluate.

The library's induction theorems take an operator as a parameter, which the provers
here cannot instantiate. Lemmas of `Buffers_proofs`, `TextReader_proofs` and
`Handlers_proofs` state what is needed of them with sets and functions instead: `SetInduction` (a set with 0 and all successors holds every
number), `Recursion` (a recursive function on `0..n` exists and obeys its
equation), `RecursionDown` and `MeasureInduction` (the same for a recursion over any set
of places along a measure, such as `DotRead`'s, where a byte that is put back is
read again), `ChainDown` (a sequence put together from its last part to its first).
`FlattenedPlaces` says where each of a sequence of sequences begins when they are put
one after another. The sums of `Copying`, the chunks of `Transfer`, the paths of
`ServeMux` and the texts and headers of `TextReader` go through these.

Model-checked only, and not proved:

* all liveness, out of the prover's reach: `ShutdownReturns`, `ServeReturns`,
  `AbortReturns`, `HangUpCancels`, `CancelReturns`, `WatchersEnd`, `CancelEndsDial`,
  `LosersEnd`, `GoroutinesEnd`, and the fairness part of `CancelCtx`'s `Implements`.

Every invariant of the runs is proved.

## 5. What is not modelled

* Formatting, parsing and header text beyond what decides the framing of a
  message: request lines, URLs, forms, cookies, dates, content sniffing; the
  header being changed while the handler runs; the bytes of the chunked encoding
  (an internal package that is not in the repository).
* TLS, HTTP/2, `Push`, the hooks of `RegisterOnShutdown`, base contexts.
* Handlers that replace `r.Body`; in `ServeConn`, handlers that use the body
  from goroutines of their own; `ReadHeaderTimeout` apart from `ReadTimeout`.
* `StripPrefix`, `AllowQuerySemicolons`, `NotFoundHandler` and the like: stateless.
* The resolver; `partialDeadline`'s arithmetic (a deadline may pass at any
  moment); UDP, IP and Unix dialers; the other sockets, which are wrappers over
  system calls; IP addresses, which are conversions of text.
* `WithValue`, transparent to cancellation; `SectionReader.ReadAt`, `WriteString`;
  `ReadCodeLine` and `ReadResponse` of `textproto`; the demonstrations and benchmarks.

## 6. What the models found

Runs with the outcome "violation" show where the code and what is said of it
part. Each is a behaviour of the code as it stands.

* **`Shutdown` may return nil with a connection still being served**
  (`shutdown_misses_conn`, `server.go:2938`). `Accept` returned a connection
  before the listener was closed; `Serve` registers it after `closeIdleConns`
  found nothing, then its loop ends and leaves `srv.listeners` before
  `numListeners` is read in a second critical section.
* **A `100 Continue` may follow the header of the reply**
  (`continue_after_header`, `server.go:930`). `response.write` takes
  `writeContinueMu` and clears `canWriteContinue`, `Flush` does neither: a handler
  that flushes first and reads the body then sends the interim response as a
  part of its own body.
* **A file copied in answer to `HEAD` is sent** (`head_readfrom`,
  `server.go:631`). `chunkWriter.Write` eats the body of such a reply, `ReadFrom`
  bypasses it, and the connection is kept.

* **`UnreadByte` after `ReadLine` may damage the stream** (`unread_after_readline`,
  `bufio.go:473`). A carriage return at the end of a full buffer is put back, and
  `lastByte` still is it. `UnreadByte`, which the comment of `ReadLine` (lines 459 to
  461) promises to unread the last byte read, steps back once more and writes the
  carriage return over the byte before it.

Other divergences, seen while modelling, that no run of this project checks:

* A sweep may close the socket of an active connection (`server.go:2979`): its
  state was loaded as idle before it read a request (`ActiveNotInterrupted` in
  `HTTPServer`).
* A reply flushed with `Connection: close` does not close while the client waits
  for `100 Continue` (`server.go:1735`): `finishRequest` blocks in the body's
  `Close` (`SaidCloseCloses` in `ServeConn`). `Shutdown` waits for it as long.
* `Discard` and `WriteTo` of `bufio.Reader` leave `lastByte` as it was, and an
  `UnreadByte` after them puts back a byte that is not the last one consumed.
* `bytes.Buffer.UnreadByte` succeeds after a `ReadBytes` that returned bytes with
  `io.EOF`, although its comment (`buffer.go:403-406`) says that it fails "if the last
  read returned an error". `Grow` may move the data and leaves `lastRead`, after which
  `UnreadByte` returns nil and puts nothing back.
* `Response.Write` with a nil body, a version of 1.1 and a length or chunked
  encoding sends a reply without end and does not close (`response.go:292`
  against `transfer.go:131`; `Unclosed` in `Transfer`). In answer to `HEAD` with
  chunked encoding it sends one line end too many.
* A `HEAD` request with a chunked body is read as if it had no body.
* `ServeMux.Handler` returns the path, and not the pattern, for a redirect to a
  pattern of one host.
* An error of the writer of a `teeReader` is lost in `ReadAtLeast` when enough was
  read, and the bytes that were not copied with it (`Lost` in `Copying`).
* An invalid `Content-Length` set by a handler is deleted from the map after it
  was cloned for the connection.
* `ReadDotLines` takes a `.` cut off before its line end for the end of the text.
* When a context ends between two addresses, `dialSerial` returns the context's
  error even if an earlier address failed with an error of its own;
  `ErrorIsPrimarys` states it so.

The properties of the runs state what is left, with these cases named in their
definitions.

## 7. Plan

Done: the models of sections 2 and 3, the proofs of section 4. Left, in order:

1. `partialDeadline` in `Dial` with a clock: that no address is starved by the
   ones before it.
2. Handlers in `ServeConn` that read the body on a goroutine of their own, and with
   them the composition of `ServeConn` and `ResponseWriter`.
