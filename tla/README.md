# A TLA+ development of sockerball

sockerball (`src/`) is a Go library for request/response messaging over any
transport that can carry messages: a connection with a reactor between a reader
and a writer thread, a server, a dialer, a client that reconnects, and adapters
for streams, websockets and packets. Its state lives in goroutines that talk
through bounded channels, and its hard questions are about order: what a caller
is told when an answer, a timeout, a cancellation and a shutdown race.

## The system and its parts

| part | state it keeps | operations | talks to | what makes it correct |
|---|---|---|---|---|
| connection, `conn.go` | `state`, `stop`, `stopped`, the queues `calls`, `incoming`, `outgoing`, the reactor's map of calls, `sendWait`, the pool of result channels | `start`, `Send`, `Request`, `Reply`, `Close`, the reader, writer and reactor threads, `reactorShutdown` | Communicator, Handler, Mapper; its creator through `ended` | every call gets one result, its own; the shutdown tells all and ends |
| requests held by the application, `handler.go` | a `done` flag | `IncomingRequest.Done` | `conn.Reply` | one reply per request, refused when the connection is lost |
| server, `server.go` | map of connections under `connsMu` | `Serve`, `runConn`, `onEnd` | Listener, connections, the application's callbacks | a start is told before its end; the map holds what runs |
| dialer, `dialer.go` | ID counter | `Client`, `DialStream` | connections, callbacks | a client and one callback after its end, or an error |
| reconnector, `reconnector.go` | current client, `stopped`, `running` | `Dial`, `Close`, `Send`, `Request`, its reactor and connector | the dial function, clients' callbacks | one dial for each connection lost; `Close` ends it |
| packet listener, `packetsrv/` | map of communicators by address | `listen` with its reader and writer thread, `Accept`, `Close`, the communicators' `ReadMessage`, `WriteMessage`, `Close` | a PacketConn, connections | packets go to the right communicator, in order, once; closing closes all |
| version negotiation, `proto.go` and `conn.negotiate` | the negotiator's goroutine and its two channels | `Negotiate`, the timeout | both ends' Communicators | two ends that run use the same version; an end that is left alone notices |
| stream, websocket and packet Communicators, `stream.go`, `wsocketsrv/`, `packetsrv/client.go` | the bytes under way | `ReadMessage`, `WriteMessage`, `Ping`, limits and deadlines | each other, over the network | a heartbeat is not taken for a message, nor a message for a heartbeat |
| websocket listener, `wsocketsrv/listener.go` | the queue `comms`, `stop` | `ServeHTTP`, `Accept`, `Close` | net/http's handlers, the server | no handler is stuck; every websocket is accepted while the server serves |
| incrementer, `internal/incrementer` | decimal digits in a buffer | `Next`, `Set`, `Current` | server, dialer | IDs count up and do not repeat |
| JSON codec, errors, configuration, examples | none | encoding, texts | | |

The behaviours that are hard to test, each at its line, are the "hazards" of
`PROJECT.json`; the properties below are aimed at them.

## Modules

| module | models | file |
|---|---|---|
| `Conn` | one connection, its callers and its environment | `conn.go`, `handler.go:48-53`, `util.go` |
| `CallOutcomes` | what a connection promises its callers (abstract) | implemented by `Conn` |
| `ConnInv` | the inductive invariant of `Conn` | |
| `ConnProofs`, `ConnCallProofs` | theorems about `Conn`, with proofs: receiver channels; calls, IDs, halting and the refinement | |
| `LinkProofs`, `ReconnectorProofs`, `PacketListenerProofs`, `ServerProofs`, `IncrementerProofs` | the inductive invariants of these modules and theorems about them, with proofs | |
| `SharedLemmas` | lemmas about sequences, maxima and induction that the proofs share | |
| `Reconnector` | the reconnector and the clients it dials | `reconnector.go`, `dialer.go:91-112` |
| `PacketListener` | the packet listener and its communicators | `packetsrv/listener.go`, `packetsrv/communicator.go` |
| `Server` | the server and the lives of its connections | `server.go` |
| `Incrementer` | the counter of ConnIDs, as operators that `Server` uses | `internal/incrementer/incrementer.go` |
| `WebServer` | the server composed with the websocket listener | `wsocketsrv/listener.go` |
| `Link` | both ends of a connection: negotiation and heartbeats, over each transport | `proto.go`, `conn.go:209-320`, `stream.go`, `wsocketsrv/communicator.go`, `packetsrv/client.go` |
| `MCConn`, `MCReconnector`, `MCPacketListener`, `MCServer`, `MCLink` | instances for TLC | |

Definitions named `...Never`, `...Keeps`, `...Early` and so on, under a comment
"Faulty", are not used by any specification: each is a plausible bug of the
definition it precedes, and putting it in that definition's place breaks the
property listed with it under "mutants" in `PROJECT.json`. That is how it is
known that the properties can fail.

### Conn

One step of the model is one communication, one critical section or one atomic
operation of the code; the code between two of them is local to its goroutine.

- *Callers.* Each element of `Requesters`, `Senders` and `Repliers` is one
  invocation of `Request`, `Send` or `Done`/`Reply`. `pc` says where it is:
  `idle`, `checked` (after the state check, `conn.go:115`), `sending` (after
  `sendWait.Add`, in the select of `send`), `waiting` (in the select of
  `sendResult`), `unsent` (there too, but without having sent: the handlers'
  context is done with a nil error, and `send` returns that), and how it left: `returned`, `abandoned` (returned because of
  its context, its channel not pooled), `panicked`. `SendWait` is the callers
  that are `sending`. The pool of result channels is a set `pool`; a channel of
  capacity 1 is one element of `buf`.
- *Messages* are the ID of the call they belong to, so an answer is
  `Answer(id)`; `given[p]` is the history of what the reactor sent for call p.
- *The reactor.* `rpc = "select"` is its loop, `emit` the inner select on
  `outgoing`, `cleanup` the loop over expired calls, `sd...` the steps of
  `reactorShutdown` in order, `exit` the send of its error to `errc`. `pending`
  is the map, which the shutdown reuses for what it has yet to report.
- *The reader and the writer* share the actions `IO...`; `held` is the envelope
  in hand. `wire` is everything written, which the remote may answer.
- *start* is `sup`: the compare-and-swap, the negotiation (one step that
  succeeds or fails), the three threads, `err := <-errc`, the join, `ended`.
- *Time* is nondeterministic: any pending calls may have expired when a cleanup
  tick comes; the heartbeat check may fire at any time.
- *The application* may cancel contexts, close the connection (when it has it,
  i.e. after `start`), receive or not receive from the channel it gave to
  `Send`, and hold requests to answer later. Of one call by the Handler the
  outcome is chosen: a reply, nothing (the request is held), an error, a message
  the Mapper does not know.

`CallOutcomes` is the promise behind all this: calls are accepted while the
connection has not halted, each accepted call is resolved at most once, and the
connection halts only when it owes no call an outcome. A call may be resolved only
when its receiver has room, and may lose its outcome only at a step at which its
receiver is full, or if it is in `MayLose`. `Conn` implements it with
`accepted <- Accepted`, `outcome <- given`, `halted <- stopped`, `full <- Full`
(the Sends, while the application's channel is full), `lost <- Lost` (accepted,
without a result and out of the reactor's reach) and `MayLose` the Replies that
carry an error (a finding, below). So a Send whose channel has room is resolved
like every other call.

### Reconnector

`dp` is the two goroutines that dial (the application's `Dial` and the
connector), `hand` the client each got from its dial and has not stored yet,
`rpc` the reactor, `conn[c]` the life of client c: live, being closed, ended
(its callback is to come), over. `rc.mu`'s critical sections are single steps.
`errc`, `next` and `done` belong to a run, so a callback that outlives its run
uses the old ones. `Send`, `Request` and `ID` only read `rc.client`; what they
rely on is `ClientIsCurrent`.

### PacketListener

`lpc` is the main loop of `listen` (`join` is the deferred function waiting for
the two threads, after `pc.Close`), `rpc` and `wpc` its threads. `comms` is the
map, `comm[c]` says whether communicator c was made and closed. A connection
uses an accepted communicator as it likes: it reads, writes one message at a
time and closes once. Which communicators are idle when a cleanup tick comes is
chosen freely.

### Server

`rc` is `runConn`, `oe` is `onEnd`, per connection; `connsMu` is held from
`RunConnLocks` to `RunConnUnlocks`, across the negotiation and the `onConnect`
callback, and inside `OnEndDeletes`. Whether the server has an `onError` is
chosen initially; calling a missing one is a panic, after which nothing runs.

The connections are numbered, but `conns` is keyed by the ConnID, as in the code:
the numeral that `Inc!Next` returned. `Incrementer` works on the buffer, its
length and its room digit by digit, like the code; `After(n)` is the reference,
the buffer after n calls: the digits `Numeral[n]`, which division by the base
gives, in the room that so many digits have made. A server that is old
(`past` connections came and went) starts from there, so that the run reaches
carries with and without room (after `99` and `999`) in base 10.

### WebServer

`WebServer` extends `Server` with the listener that `Serve` accepts from:
`web[r]` follows one HTTP request from its upgrade through the select in
`ServeHTTP` to the queue `comms` and to `Accept`. `Accepts` and `ServeReturns` of
`Server` are taken together with the listener's half (`AcceptsComm`,
`AcceptStops`); everything else of the two interleaves. `Accept`'s select and
`ServeHTTP`'s may each take the queue although the listener is closed.

### Link

Each side has a `conn` (new, negotiating, running, failed, or ended), the
negotiator's goroutine `neg`, which outlives a negotiation that timed out, its
channels as `result`, and the messages `wire` on the way to it. A message is a
list of versions or a heartbeat: what a connection says while it runs is
`Conn`'s. A stream and a websocket are queues; packets are lost, overtaken and
read again. The packet server's end starts when the first packet arrives. A
version takes four bytes, so `ReadLimit` is 256 in the code (`proto.go:104`).
The codec is external: of a list or of the packets' one-byte heartbeat it says
"short message" (`jsonsrv/json.go:36`) or fails to decode it.

## Runs

| run | instance | states | what it shows |
|---|---|---|---|
| `requests` | 2 Requests (one cancellable), 2 pooled channels, queues of 1, IDs modulo 8 starting at 5, cleanup, 2 answers that may be to one message | 1 335 000 | no mixing of results, no lost call, no answer refused that was waited for, with timeouts, repeated answers, reuse of channels and a wrapping counter; the whole inductive invariant (`WholeInv`) |
| `sends` | 2 Sends (one rejected by the Mapper), a receiver of 1, cleanup, Close, heartbeat check, Handler error | 3 200 000 | at most one result; what `stopped` guarantees; refinement of `CallOutcomes`: a Send loses its result only at a step that finds its receiver full |
| `replies` | 2 Replies (one with the handlers' context, one with an error and cancellable), a Handler that replies or defers, 2 requests | 1 470 000 | IDs are never 0; a Reply told of its success is sent; what `ended` tells the application; refinement, so that no Reply is lost but one with an error |
| `live` | 1 Request, a Handler that replies, cleanup, Close | 130 000 | liveness |
| `reconnector` | 2 runs, 3 clients | 22 000 | safety and liveness of the reconnector |
| `packets` | 2 addresses, 2 communicators, 3 packets, queues of 1 | 184 000 | safety and liveness of the packet listener |
| `link` | 5 lists of up to 3 versions, every pair, 3 transports, a read limit of 2 | 29 000 | safety and liveness of both ends |
| `server` | 3 websockets, a queue of 1, IDs from 99 and from 999 | 53 000 | safety and liveness of the server with its listener |
| `no_panic`, `lost_reply`, `failed_reply`, `handler_error` | one or two callers | small | the findings |

*Bounds.* Queues of capacity 1 make every queue both full and empty; two callers
are enough for one to get the channel the other has left, and for one call to be
queued while the other is pending, emitted or answered. An ID space of 8 with two
IDs used wraps around. `MaxPeerMsgs` bounds what the remote sends: 2 are an
answer for each call, or a call answered twice. Three clients are a first one, one
that replaces it and one dialled after Close; two runs make a Dial of a stopped
reconnector. Two communicators of one address and two packets in flight make a
Close that comes too late. The lists of `link` share all, some or no versions in
either order, contain version 0, and one is longer than the read limit; `MaxWire`
lets heartbeats overtake the list and each other. Three connections contend for the server's lock while
one holds it in its negotiation, and with a queue of 1 one handler waits while
another's websocket is queued and a third's is accepted. Symmetry is used in the safety runs of `Conn`
only, for the callers no constant tells apart and the pooled channels.

*Deadlock* is checked in the `Conn` and `reconnector` runs, whose rightful ends
are the steps `Terminated` and `Resting`. `packets`, `server` and `link` turn it
off: a closed listener, a server that has returned or whose process panicked, and
a connection that ended at both ends are at rest.

*Fairness.* Weak fairness for each goroutine's own steps: the Go scheduler is
preemptive and a goroutine that stays runnable runs. Beyond that:

- `Conn`: a read or write of a *closed* Communicator fails (`WF(commClosed /\
  IOFails)`), which is what the reader relies on at `conn.go:420`; a cleanup tick
  finds pending calls expired in the end (`CleanupTick` is in `ReactorLoop`).
  No fairness for the remote and the application.
- `Reconnector`: a dial returns, a delay passes, a closed connection ends, and
  strong fairness for seeing `rc.stop` closed, because a select chooses at random
  among ready cases.
- `PacketListener`: strong fairness for seeing `pl.stop`, for the same reason,
  and a read of the closed socket fails.
- `WebServer`: a negotiation ends (`negotiate` has a timeout, `conn.go:317`), and
  weak fairness for each `runConn`, `onEnd` and handler and for `Serve`'s loop. The
  lock and the queue are waited for once by each, so weak fairness is enough.
  Nobody has to call `Serve` or close the listener.
- `Link`: the negotiator's goroutine and the readers run; a deadline of a stream or
  of packets passes, the websocket's reads have none (`wsocketsrv/communicator.go:50`);
  a connection whose remote no longer runs misses it in the end, by a read error,
  the read deadline or the heartbeat check (`conn.go:620`). No fairness for the
  network, the application and the sending of heartbeats.

Note that the communicators of `packetsrv` do not keep what `Conn` asks of a
closed Communicator: a `WriteMessage` that was queued when the writer thread
stops waits for ever (`communicator.go:88`). `WritesReturn` says how far it goes.

## Properties

`Conn`, safety: `TypeOK`; `PoolClean` and `Correlated` (results do not get to
another caller through a reused channel); `AtMostOneResult`; `NoCallLost`;
`ToldIsSent` (a Reply that was told of its success is sent, unless the connection
ends); `NeverIDZero`; `StoppedMeansHalted`; `EndTellsWhy` (an
application that does not call Close hears why the connection ended: the error of
the reader or the writer gives way only to the reactor's, and only the reactor's
own can be lost to a nil). Action properties:
`OnlyAppReceiverBlocks` and `AnswerRefusedOnlyIfResolved` (the two ways the
connection terminates itself happen only for the reasons they are there for).
Refinement: `ImplementsCallOutcomes`. Liveness: `StopEnds`, `CallsReturn`.

`Reconnector`: `OneSignal` (exactly one thing leads to the next dial),
`ClientIsCurrent`, `ClosedButLate` (only a client stored after `Close` survives
it), `CallbacksReturn`, `StopsRunning`, `Reconnects`.

`PacketListener`: `MapHoldsOpen` (no send to and no second close of a closed
channel), `InOrder`, `ClosesItselfOrLate`, `StopEndsListen`,
`WritesReturn`.

`Server`: `IDsCountUp`, `ConnectFirst`, `MapHoldsLive`, `EachIsTold`; `WebServer`:
`HandlersReturn`.

`Link`: `Agreement` (two ends that run use the same version, the highest both
know), `RejectsTogether` (an end that found none is not left alone by one that
did), `HeartbeatsKeep` (no end takes a heartbeat or a version list for a message),
`HalfOpenEnds` (an end whose peer gave up does not run for ever, and the
negotiator's goroutine ends). The invariants name the transports they hold for;
TLC refutes them for the others.

## Findings

Each is a run that TLC ends with a counterexample, to a property that says what a
comment of the source says.

1. `NoPanic`. `Request` checks the state, and only then counts itself in
   `sendWait`. If the whole shutdown passes in between, `send` may choose to send
   on the closed channel `calls`, which panics (`conn.go:166`, `conn.go:464`).
2. `LostReplyFails`. `sendResult` returns the wrong variable when `send` fails
   (`conn.go:188`): the caller of a `Reply` that was never taken gets nil, and
   so does the caller of a `Request`, with a nil message.
3. `FailedReplyReturns`. A `Reply` with an error terminates the connection
   (`conn.go:592`), but nobody sends to its own channel: its caller waits until
   its context is done.
4. `HandlerErrorReported`. The error of a handler may be replaced by nil on its
   way to the disconnect callback, because the shutdown stops the other threads
   before the error is on `errc` (`conn.go:453`, `conn.go:267`).

The passing properties describe further behaviour that a reader may not expect:
`ClosedButLate` (a client dialled while `Close` runs is never closed),
`ClosesItselfOrLate` (a late Close hits another communicator), `EachIsTold` (the
server panics without `onError`), `ReplyTarget` (`Done` twice is not refused, as
the flag is set on a copy). And, of `Link` and `WebServer`:

- over packets a heartbeat is one byte, not an empty message
  (`packetsrv/communicator.go:104`), and ends the connection that reads it, after
  two seconds with the default `HeartbeatSendInterval` (`HeartbeatsKeep`);
- a negotiation that fails closes nothing: the other end finds out by silence, and
  a websocket's negotiator goroutine stays in its read until the remote closes the
  socket (`HalfOpenEnds`);
- more than 256 versions: over a stream the other end refuses the list, while the
  end that sent it may run, alone; over packets the client compares a part of the
  server's list only, so the two may choose different versions (`Agreement`,
  `RejectsTogether`);
- a websocket that is queued, or whose handler waits, when the listener is closed
  may be neither accepted nor closed (`HandlersReturn`).

## What is proved

Every safety invariant and every action property that a run checks is also a
theorem, for every value of the constants the assumptions allow, and so is the
refinement of `CallOutcomes`. The inductive invariants were checked by TLC on the
instances of the runs before they were proved; `requests` keeps checking `WholeInv`.
In each module one lemma for each group of actions says what that group disturbs;
`Next` is split into them once.

### Conn: receiver channels (`ConnProofs`)

`TypeCorrect` is `Spec => []TypeOK`. The parts of `TypeOK` that are not plain types
are needed: where a caller's channel is from while it sends or waits, and that `due`
is empty outside the cleanup. `Invariance` is `Spec => []IInv`; from it follow
`PoolCleanAlways`, `CorrelatedAlways`, `AtMostOneResultAlways` and
`OnlyAppReceiverBlocksAlways`.

`PoolClean` alone is not inductive, because a step of the reactor can fill a channel
whose owner has gone. `IInv` (in `ConnInv`) says who owns a channel: a call that is
sending, waiting or was abandoned (`OwnerInv`, no two share one, none is pooled);
that the calls the reactor can still reach, queued or in its map, have no result yet
and an empty channel that is still their owner's (`ReachInv`); that a result in a
channel is its owner's (`ChanInv`); that a call is in one place only (`QueueInv`); and
that a Reply is never in the map while the reactor loops (`ReplyInv`), for its entry
would be told twice. So a delivery always finds room in a pooled channel, and a
channel is put back only by the receipt of the one result that can come.

### Conn: calls (`ConnCallProofs`)

`CallInvariance` is `Spec => [](IInv /\ CallInv)`. Its parts:

- `NamedInv`: a call has an ID and a channel from `EnterSend` on, and the reactor only
  reaches such calls.
- `HaltInv`: at each stage of the shutdown, and of `start`'s join, the earlier ones are
  done. `StoppedMeansHaltedAlways` needs it, and more.
- `EndInv`: before anything has made a thread stop, no thread has a nil to report;
  a nil or another reason on `errc`, at the supervisor or in a thread's hand has
  the origin that `EndTellsWhy` asks for, or the reactor has a reason of its own
  (`EndTellsWhyAlways`).
- `IDInv`: `nextMessageID` is odd, so the counter steps over 0 when it wraps
  (`NeverIDZeroAlways`), and whatever is under way to the remote has an ID.
- `ToldIsSent` itself (`ToldIsSentAlways`), with `IDInv`: the reactor's hand is
  empty in the select, so what it tells of and what it holds are the same envelope.
- `KnownInv`: while the reactor loops, a call whose envelope is under way, or whose
  answer is, is in the map or has a result. It is what makes
  `AnswerRefusedOnlyIfResolvedAlways` inductive: the answer at the head of `incoming`
  was for a call the map held once.
- `AnswerInv`: a remote that does not repeat itself has one answer under way to each
  message, and none to one that was answered.

None of this depends on how many calls there are: if the counter laps and gives out an
ID again, a call may be dropped from the map for another's answer. What forbids it is
the hypothesis `FewCalls` of the remaining theorems: callers and messages of the remote
together use at most half of the ID space, which for the code's uint32 is 2^31 IDs in
the life of a connection. (A call that is under way while that many IDs are given out
*can* be lost: the code does not look whether an ID is in use, `conn.go:649`.) `LapInv` turns
the hypothesis into something inductive: the `Age` of an ID, how far the counter has
gone since it gave it out, is less than twice the number of IDs issued at all, so less
than `IDSpace`, and two named calls have different IDs. With it `WaitInv` is inductive: a call that
waits is in reach, or its result is in its channel. `WholeInvariance` joins all parts;
`NoCallLostAlways`, `StoppedMeansHaltedAlways` and `ConnImplementsCallOutcomes` follow.

The refinement maps each step. The callers' last step of `send` accepts
(`CallerAccepts`). A step of the reactor gives a call in its reach a result, for
which there was room, or drops it without one, for which there was none or which
is a Reply with an error, and it does so to one call at a time (`ReactsOnOne`);
a call in reach is owed its outcome (`ReachOwed`), so the step resolves or loses
it (`ReactsResolve`). The close of `stopped` halts, with nothing owed because
nothing is in reach (`QuietHalts`), and all else stutters.

### Link (`LinkProofs`)

`Invariance` is `Spec => []LinkInv`: what is under way to an end are the other's list
and heartbeats (`WireInv`); over a stream or a websocket the list comes first, is there
once, and is gone when the negotiator has read it (`OrderInv`); a result is what the two lists give,
in whichever order they are compared (`ResultInv`). `AgreementAlways`,
`RejectsTogetherAlways` and `HeartbeatsKeepAlways` hold for all lists of versions, any
read limit and any bound on the messages under way.

### Reconnector (`ReconnectorProofs`)

`ReconnectorInv` says where each goroutine is relative to the others (`GoroutinesInv`),
that what belongs to a run is made in it (`RunsInv`), that there is one source of the
next dial (`SignalInv`), and which clients may be live and stored (`StoreInv`,
`ClientInv`). `OneSignal` counts; a cardinality is hard to reason about by steps, so the
invariant says `OneSource`: one token exists, and every step takes it and puts another
in its place. `OneSignalAlways` derives the count from it. `ClientIsCurrentAlways` and
`ClosedButLateAlways` hold for any number of runs and clients.

### PacketListener (`PacketListenerProofs`)

`ListenerInv`: the map and the communicators agree (`MapHoldsOpen`, with `MadeInv` and
`OnlyOpenInv`: communicators are made in turn, and none of an address while another of
it is open); the packet in the reader thread's hand is later than all that was dealt
out (`FlowInv`), which makes `InOrder` inductive; and an address on its way to `closer`
was put there by a communicator of it (`CloserInv`), which gives
`ClosesItselfOrLateAlways`.

### Incrementer and Server (`IncrementerProofs`, `ServerProofs`)

`NextShowsNext`: from a buffer that shows n (`Shows`: its digits are n's numeral and what
is left of its room is clear) `Next` makes one that shows n + 1, for every base of at
least 2, every n, every room and every growth of the buffer. With the room that `Next`
leaves it gives `NextCounts`, `Next(After(n)) = After(n + 1)`, which is what the server
counts by. `SetShows` says that `Set` of a numeral with leading zeros shows its number, so
that a counter that was set counts on.
`Numeral` is recursive; `NumeralDef` shows that its definition has a solution, by an
induction on sets of numbers (`StrongInduction` in `SharedLemmas`: a least
counterexample), and `NumeralCounts` that the numerals of n and n + 1 differ as a carry
makes them differ. `ServerInv` uses it for the counter (`IDInv`, so that different
connections have different ConnIDs), says what each stage of `runConn` and `onEnd` has
told the application and what may still come (`StageInv`), and that the map holds the
ConnIDs of the connections between their entry and their deletion (`MapInv`, which would
be false if an ID repeated). From it: `IDsCountUpAlways`, `ConnectFirstAlways`,
`MapHoldsLiveAlways`. `WebImplementsServer` is a refinement: the composition with the
websocket listener only restricts the server, so `WebServerCorrect` needs no proof of
its own.

### Assumptions

Those named in the modules: of `Conn`, disjoint sets of callers, distinct channels,
positive capacities (the code allows 0, an unbuffered channel, which the model does not
cover), an even ID space and an odd first ID, and `FewCalls` where a theorem says so; of
the other modules that the bounds are natural numbers, that a base is at least 2 and
that there is an address. TLC evaluates them in every run, and `FewCalls` in all runs of
`Conn`.

### Only model-checked

The liveness properties `StopEnds`, `CallsReturn`, `CallbacksReturn`, `StopsRunning`,
`Reconnects`, `StopEndsListen`, `WritesReturn`, `HalfOpenEnds`, `EachIsTold` and
`HandlersReturn`: the prover has no rule for fairness (`ENABLED`). The findings are
counterexamples, which need no proof.

## What is not modelled

Message contents, codecs and message limits of a running connection; partial
frames, which are failures of the Communicator; unbuffered queues; the misuse
detection of `sync.WaitGroup`; `DialStream` and the order of the dialer's callbacks
among themselves; the websocket's pings and pongs, which the gorilla library
answers and of which the connection only takes the time; the stream listener,
which is net's; the JSON codec, the errors' texts and classification, and the
examples (with their compressing codec), which hold no protocol state of their
own. The `resultPool` is shared by all connections of a
process in the code and belongs to one connection in the model; `PoolClean` says
that a channel in it is as good as new, which is all another connection needs.

## Plan

In the order of importance; the first eight are done.

1. `Conn`, its abstract specification and its runs; type correctness and the
   channel invariant proved.
2. `Reconnector`.
3. `PacketListener`.
4. `Server`.
5. `Link`: negotiation and heartbeats of both ends.
6. `Incrementer`, as the server's source of IDs.
7. `WebServer`: the websocket listener composed with `Server`.
8. Proofs of the safety properties of all modules, and of the refinements of
   `CallOutcomes` by `Conn` and of `Server` by `WebServer`.
9. Left: abstract specifications of the reconnector (one connection at a time, replaced
   when it is lost) and of the packet listener (a queue for each address), which their
   invariants are enough to show implemented; and, of `AnswerRefusedOnlyIfResolved`,
   which of the timeout and the Mapper resolved the call.
