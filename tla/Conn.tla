-------------------------------- MODULE Conn --------------------------------
(***************************************************************************)
(* One connection of the sockerball package (src/conn.go), from start() to *)
(* the error it sends on "ended".  The goroutines are                      *)
(*                                                                         *)
(*   - the callers: application goroutines, each inside one invocation of  *)
(*     Request (Requesters), Send (Senders) or Reply (Repliers);           *)
(*   - the reactor, which owns the map of calls waiting for an answer;     *)
(*   - the reader and the writer thread;                                   *)
(*   - the supervisor started by start().                                  *)
(*                                                                         *)
(* They share Go channels, modelled as bounded sequences.  The peer, the   *)
(* Communicator and the Handler are the environment: what they may do is   *)
(* nondeterministic.  A message is known by the ID of the call it belongs  *)
(* to, time by the timeouts that may fire, an error by its origin.         *)
(***************************************************************************)
EXTENDS Integers, Sequences, FiniteSets

CONSTANTS
    Requesters,      \* goroutines that call Request
    Senders,         \* goroutines that call Send, all with the channel AppChan
    Repliers,        \* goroutines that call IncomingRequest.Done (Reply)
    FailedReplies,   \* the Repliers that pass a replyError
    Unmapped,        \* callers whose message the Mapper rejects
    Cancellable,     \* callers whose context the application may cancel
    HandlerCtx,      \* Repliers that use the context HandleRequest was given
    PoolChans,       \* the channels (capacity 1) of resultPool
    AppChan,         \* the receiver channel the application gives to Send
    RecvCap,         \* its capacity
    NoChan,          \* a caller that holds no channel
    IncomingBuffer,  \* ConnConfig.IncomingBuffer
    OutgoingBuffer,  \* ConnConfig.OutgoingBuffer: calls and outgoing
    InitialID,       \* nextMessageID of the side: 1 (server) or 10001 (client)
    IDSpace,         \* 2^32: the values of a uint32
    HandlerDoes,     \* what HandleRequest may do; {} is the nil Handler
    PeerDoes,        \* what the remote may send
    MaxPeerMsgs,     \* bound: the messages the remote sends
    PeerRepeats,     \* may the remote answer a call more than once?
    AppCloses,       \* may the application call Close?
    CleanupEnabled,  \* ConnConfig.CleanupInterval > 0
    CheckHeartbeat   \* ConnConfig.HeartbeatCheckInterval > 0

SyncCallers == Requesters \cup Repliers
Callers == SyncCallers \cup Senders
Chans == PoolChans \cup {AppChan}
IOThreads == {"reader", "writer"}

ASSUME CallersDisjoint ==
    /\ Requesters \cap Repliers = {}
    /\ Senders \cap SyncCallers = {}
ASSUME CallerKinds ==
    /\ FailedReplies \subseteq Repliers
    /\ HandlerCtx \subseteq Repliers
    /\ Unmapped \subseteq Callers
    /\ Cancellable \subseteq Callers
ASSUME ChansDistinct ==
    /\ AppChan \notin PoolChans
    /\ NoChan \notin Chans
ASSUME CapacityAssumption ==
    /\ RecvCap \in Nat \ {0}
    /\ IncomingBuffer \in Nat \ {0}
    /\ OutgoingBuffer \in Nat \ {0}
ASSUME IDAssumption ==
    /\ IDSpace \in Nat /\ IDSpace > 2 /\ IDSpace % 2 = 0
    /\ InitialID \in 0 .. (IDSpace - 1) /\ InitialID % 2 = 1
ASSUME EnvironmentAssumption ==
    /\ HandlerDoes \subseteq {"reply", "defer", "error", "unmapped"}
    /\ PeerDoes \subseteq {"answer", "request", "heartbeat"}
    /\ MaxPeerMsgs \in Nat
    /\ PeerRepeats \in BOOLEAN
    /\ AppCloses \in BOOLEAN
    /\ CleanupEnabled \in BOOLEAN
    /\ CheckHeartbeat \in BOOLEAN

VARIABLES
    state,           \* conn.state
    stopClosed,      \* conn.stop is closed (and conn.stopClosed is set)
    stopped,         \* conn.stopped is closed
    commClosed,      \* the Communicator was closed
    callsClosed,     \* the channel conn.calls is closed
    nextMessageID,   \* conn.nextMessageID
    calls,           \* conn.calls: callers whose *call is queued
    incoming,        \* conn.incoming: envelopes
    outgoing,        \* conn.outgoing: envelopes
    rpc,             \* where the reactor is
    rerr,            \* the reactor's return value
    pending,         \* the reactor's map calls: callers waiting for an answer
    due,             \* expired calls the cleanup loop has not yet visited
    emit,            \* the envelope the reactor is sending to outgoing
    io,              \* where the reader and the writer thread are
    ioerr,           \* their return values
    held,            \* the envelope each has in hand
    sup,             \* where start() and its supervisor goroutine are
    errc,            \* start's errc, capacity 1
    firstErr,        \* the error the supervisor received from errc
    pc,              \* where each caller is
    mid,             \* the ID of its envelope
    to,              \* its ReplyTo
    rs,              \* its receiver channel
    ret,             \* what its invocation returned
    buf,             \* contents of the receiver channels
    pool,            \* the channels resultPool holds
    given,           \* history: the results delivered for each call
    cancelled,       \* callers whose context was cancelled
    retained,        \* IDs of the requests the application holds to answer
    wire,            \* history: envelopes written to the Communicator
    answered,        \* history: calls the remote has answered
    peerSent         \* history: number of messages the remote has sent

connVars    == <<state, stopClosed, stopped, commClosed, callsClosed>>
reactorVars == <<rpc, rerr, pending, due, emit>>
ioVars      == <<io, ioerr, held>>
supVars     == <<sup, errc, firstErr>>
callerVars  == <<pc, mid, to, rs, ret>>
resultVars  == <<buf, given>>
peerVars    == <<wire, answered, peerSent>>
appVars     == <<cancelled, retained>>
queueVars   == <<calls, incoming, outgoing>>

vars == <<connVars, reactorVars, ioVars, supVars, callerVars, resultVars,
          peerVars, appVars, queueVars, pool, nextMessageID>>

----------------------------------------------------------------------------
(* Values *)

None == "none"          \* no error has been put here yet
Nil == "nil"            \* Go's nil error
Errors == {None, Nil, "notRunning", "connShutdown", "cancelled",
           "receiverBlocked", "protocol", "handler", "readTimeout",
           "responseTimeout", "unexpectedReply", "io", "closeFailed"}

NoMsg == 0              \* a nil Message; MessageNone
Envelopes == [id : Nat, replyTo : Nat]
NoEnv == [id |-> NoMsg, replyTo |-> NoMsg]   \* no envelope; on incoming, nil

\* A Result, or the return values of a call: the message is the ID it answers.
Results == [msg : Nat, err : Errors]
Answer(m) == [msg |-> m, err |-> Nil]
Failure(e) == [msg |-> NoMsg, err |-> e]

ReactorPCs == {"off", "select", "emit", "cleanup", "sdState", "sdClose",
               "sdWait", "sdDrain", "sdReport", "exit", "done"}
CallerPCs == {"idle", "checked", "sending", "unsent", "waiting",
              "returned", "abandoned", "panicked"}

----------------------------------------------------------------------------
(* Operators the actions share *)

Cap(c) == IF c = AppChan THEN RecvCap ELSE 1
HasRoom(p) == Len(buf[rs[p]]) < Cap(rs[p])

\* Faulty: the counter does not wrap; it counts by one.
NextIDUnwrapped == nextMessageID + 2
NextIDByOne == (nextMessageID + 1) % IDSpace

\* nextID: an atomic add on a uint32.
NextID ==
    IF nextMessageID + 2 >= IDSpace
    THEN nextMessageID + 2 - IDSpace
    ELSE nextMessageID + 2

\* The envelope a caller builds.
EnvOf(p) == [id |-> mid[p], replyTo |-> to[p]]

\* The calls of a set with a given ID: the map's entry under that key.
WithID(S, i) == {p \in S : mid[p] = i}
AddCall(S, p) == (S \ WithID(S, mid[p])) \cup {p}

\* The application holds the conn once start has returned without an error.
HandedOut == sup \in {"running", "joining", "ended"}

CtxDone(p) == p \in cancelled \/ (p \in HandlerCtx /\ stopped)

\* The reactor returns e: its deferred reactorShutdown is next.
ReactorReturns(e) == rpc' = "sdState" /\ rerr' = e

\* The reactor's non-blocking send to a call's receiver.
Deliver(p, r) ==
    /\ buf' = [buf EXCEPT ![rs[p]] = Append(@, r)]
    /\ given' = [given EXCEPT ![p] = Append(@, r)]

\* ... which goes on at "next", or terminates the connection.
DeliverOrFail(p, r, next) ==
    IF HasRoom(p)
    THEN Deliver(p, r) /\ rpc' = next /\ UNCHANGED rerr
    ELSE ReactorReturns("receiverBlocked") /\ UNCHANGED resultVars

\* A non-blocking send to start's errc.
PutErr(e) == errc' = IF errc = None THEN e ELSE errc

Init ==
    /\ state = "new"
    /\ stopClosed = FALSE /\ stopped = FALSE
    /\ commClosed = FALSE /\ callsClosed = FALSE
    /\ nextMessageID = InitialID
    /\ calls = <<>> /\ incoming = <<>> /\ outgoing = <<>>
    /\ rpc = "off" /\ rerr = None
    /\ pending = {} /\ due = {} /\ emit = NoEnv
    /\ io = [t \in IOThreads |-> "off"]
    /\ ioerr = [t \in IOThreads |-> None]
    /\ held = [t \in IOThreads |-> NoEnv]
    /\ sup = "new" /\ errc = None /\ firstErr = None
    /\ pc = [p \in Callers |-> "idle"]
    /\ mid = [p \in Callers |-> NoMsg]
    /\ to = [p \in Callers |-> NoMsg]
    /\ rs = [p \in Callers |-> NoChan]
    /\ ret = [p \in Callers |-> Failure(None)]
    /\ buf = [c \in Chans |-> <<>>]
    /\ pool = PoolChans
    /\ given = [p \in Callers |-> <<>>]
    /\ cancelled = {} /\ retained = {}
    /\ wire = {} /\ answered = {} /\ peerSent = 0

----------------------------------------------------------------------------
(* start and its supervisor *)

\* The compare-and-swap of start; negotiate follows.
Start ==
    /\ sup = "new" /\ state = "new"
    /\ sup' = "negotiating"
    /\ state' = "running"
    /\ UNCHANGED <<stopClosed, stopped, commClosed, callsClosed, reactorVars,
                   ioVars, errc, firstErr, callerVars, resultVars, peerVars,
                   appVars, queueVars, pool, nextMessageID>>

\* negotiate returned an error or timed out: start returns it.
NegotiateFails ==
    /\ sup = "negotiating"
    /\ sup' = "failed"
    /\ UNCHANGED <<connVars, reactorVars, ioVars, errc, firstErr, callerVars,
                   resultVars, peerVars, appVars, queueVars, pool,
                   nextMessageID>>

\* negotiate returned a protocol: start spawns the three threads.
Negotiated ==
    /\ sup = "negotiating"
    /\ sup' = "running"
    /\ rpc = "off" /\ rpc' = "select"
    /\ io' = [t \in IOThreads |-> "run"]
    /\ UNCHANGED <<connVars, rerr, pending, due, emit, ioerr, held, errc,
                   firstErr, callerVars, resultVars, peerVars, appVars,
                   queueVars, pool, nextMessageID>>

\* err := <-errc; c.Close()
SupervisorTakes ==
    /\ sup = "running" /\ errc # None
    /\ firstErr' = errc
    /\ errc' = None
    /\ stopClosed' = TRUE
    /\ sup' = "joining"
    /\ UNCHANGED <<state, stopped, commClosed, callsClosed, reactorVars, ioVars,
                   callerVars, resultVars, peerVars, appVars, queueVars, pool,
                   nextMessageID>>

\* wg.Wait(); ended <- err
SupervisorJoins ==
    /\ sup = "joining"
    /\ rpc = "done" /\ \A t \in IOThreads : io[t] = "done"
    /\ sup' = "ended"
    /\ UNCHANGED <<connVars, reactorVars, ioVars, errc, firstErr, callerVars,
                   resultVars, peerVars, appVars, queueVars, pool,
                   nextMessageID>>

----------------------------------------------------------------------------
(* The application and the callers: Send, Reply, Request, send, sendResult *)

AppClose ==
    /\ AppCloses
    /\ HandedOut /\ ~stopClosed
    /\ stopClosed' = TRUE
    /\ UNCHANGED <<state, stopped, commClosed, callsClosed, reactorVars, ioVars,
                   supVars, callerVars, resultVars, peerVars, appVars,
                   queueVars, pool, nextMessageID>>

AppReceive ==
    /\ buf[AppChan] # <<>>
    /\ buf' = [buf EXCEPT ![AppChan] = Tail(@)]
    /\ UNCHANGED <<connVars, reactorVars, ioVars, supVars, callerVars, given,
                   peerVars, appVars, queueVars, pool, nextMessageID>>

Cancel(p) ==
    /\ p \in Cancellable \ cancelled
    /\ pc[p] \in {"checked", "sending", "unsent", "waiting"}
    /\ cancelled' = cancelled \cup {p}
    /\ UNCHANGED <<connVars, reactorVars, ioVars, supVars, callerVars,
                   resultVars, peerVars, retained, queueVars, pool,
                   nextMessageID>>

\* The envelope p replies to: a retained IncomingRequest.  Done's "done" flag
\* is set on a copy of the request (a value receiver), so it never refuses.
ReplyTarget(p) == IF p \in Repliers THEN retained ELSE {NoMsg}

Begin(p) ==
    /\ HandedOut
    /\ pc[p] = "idle" /\ state = "running"
    /\ \E m \in ReplyTarget(p) : to' = [to EXCEPT ![p] = m]
    /\ pc' = [pc EXCEPT ![p] = "checked"]
    /\ UNCHANGED <<connVars, reactorVars, ioVars, supVars, mid, rs, ret,
                   resultVars, peerVars, appVars, queueVars, pool,
                   nextMessageID>>

Refused(p) ==
    /\ HandedOut
    /\ pc[p] = "idle" /\ state # "running" /\ ReplyTarget(p) # {}
    /\ pc' = [pc EXCEPT ![p] = "returned"]
    /\ ret' = [ret EXCEPT ![p] = Failure("notRunning")]
    /\ UNCHANGED <<connVars, reactorVars, ioVars, supVars, mid, to, rs,
                   resultVars, peerVars, appVars, queueVars, pool,
                   nextMessageID>>

\* The receiver: resultPool.Get() or the channel given to Send.
ReceiverOf(p) == IF p \in Senders THEN {AppChan} ELSE pool

\* nextID, resultPool.Get, then sendWait.Add(1): p is counted from here on.
EnterSend(p) ==
    /\ pc[p] = "checked"
    /\ pc' = [pc EXCEPT ![p] = "sending"]
    /\ nextMessageID' = NextID
    /\ mid' = [mid EXCEPT ![p] = NextID]
    /\ \E c \in ReceiverOf(p) :
        /\ rs' = [rs EXCEPT ![p] = c]
        /\ pool' = pool \ {c}
    /\ UNCHANGED <<connVars, reactorVars, ioVars, supVars, to, ret, resultVars,
                   peerVars, appVars, queueVars>>

\* sendWait: the callers between sendWait.Add and sendWait.Done.
SendWait == {p \in Callers : pc[p] = "sending"}

\* case c.calls <- &sendCall
SendEnqueues(p) ==
    /\ pc[p] = "sending"
    /\ ~callsClosed /\ Len(calls) < OutgoingBuffer
    /\ calls' = Append(calls, p)
    /\ IF p \in Senders
       THEN /\ pc' = [pc EXCEPT ![p] = "returned"]
            /\ ret' = [ret EXCEPT ![p] = Failure(Nil)]
       ELSE /\ pc' = [pc EXCEPT ![p] = "waiting"]
            /\ UNCHANGED ret
    /\ UNCHANGED <<connVars, reactorVars, ioVars, supVars, mid, to, rs,
                   resultVars, peerVars, appVars, incoming, outgoing, pool,
                   nextMessageID>>

\* The same case once calls is closed: a send on a closed channel panics.
SendPanics(p) ==
    /\ pc[p] = "sending" /\ callsClosed
    /\ pc' = [pc EXCEPT ![p] = "panicked"]
    /\ UNCHANGED <<connVars, reactorVars, ioVars, supVars, mid, to, rs, ret,
                   resultVars, peerVars, appVars, queueVars, pool,
                   nextMessageID>>

\* send gave up and returned e.  sendResult answers an error with "return nil,
\* rerr", and rerr is still nil there: only Send reports e.  A nil e it takes for
\* success: it goes on to wait for the result of a call that nobody has.
SendGivesUp(p, e) ==
    /\ pc[p] = "sending"
    /\ IF e = Nil
       THEN /\ pc' = [pc EXCEPT ![p] = "unsent"]
            /\ UNCHANGED ret
       ELSE /\ pc' = [pc EXCEPT ![p] = "returned"]
            /\ ret' = [ret EXCEPT ![p] = Failure(IF p \in Senders THEN e ELSE Nil)]
    /\ UNCHANGED <<connVars, reactorVars, ioVars, supVars, mid, to, rs,
                   resultVars, peerVars, appVars, queueVars, pool,
                   nextMessageID>>

SendStopped(p) == stopClosed /\ SendGivesUp(p, "connShutdown")

\* chanContext.Err() is nil.
CtxErr(p) == IF p \in cancelled THEN "cancelled" ELSE Nil
SendCancelled(p) == CtxDone(p) /\ SendGivesUp(p, CtxErr(p))

\* case result := <-recv
WaitResult(p) ==
    /\ pc[p] = "waiting"
    /\ buf[rs[p]] # <<>>
    /\ ret' = [ret EXCEPT ![p] = Head(buf[rs[p]])]
    /\ buf' = [buf EXCEPT ![rs[p]] = Tail(@)]
    /\ pool' = pool \cup {rs[p]}
    /\ pc' = [pc EXCEPT ![p] = "returned"]
    /\ UNCHANGED <<connVars, reactorVars, ioVars, supVars, mid, to, rs, given,
                   peerVars, appVars, queueVars, nextMessageID>>

\* Faulty: the channel goes back to the pool although a result may yet come.
WaitCancelledPooled(p) ==
    /\ pc[p] = "waiting" /\ CtxDone(p)
    /\ ret' = [ret EXCEPT ![p] = Failure(CtxErr(p))]
    /\ pc' = [pc EXCEPT ![p] = "abandoned"]
    /\ pool' = pool \cup {rs[p]}
    /\ UNCHANGED <<connVars, reactorVars, ioVars, supVars, mid, to, rs,
                   resultVars, peerVars, appVars, queueVars, nextMessageID>>

\* case <-ctx.Done(): the channel is not pooled, and a call that was sent is
\* abandoned.
WaitCancelled(p) ==
    /\ pc[p] \in {"unsent", "waiting"} /\ CtxDone(p)
    /\ ret' = [ret EXCEPT ![p] = Failure(CtxErr(p))]
    /\ pc' = [pc EXCEPT ![p] = IF @ = "waiting" THEN "abandoned" ELSE "returned"]
    /\ UNCHANGED <<connVars, reactorVars, ioVars, supVars, mid, to, rs,
                   resultVars, peerVars, appVars, queueVars, pool,
                   nextMessageID>>

----------------------------------------------------------------------------
(* The reader and the writer thread *)

\* ReadMessage returned e, decoded.
ReaderReads(e) ==
    /\ io["reader"] = "run" /\ held["reader"] = NoEnv
    /\ ~commClosed
    /\ peerSent < MaxPeerMsgs
    /\ peerSent' = peerSent + 1
    /\ io' = [io EXCEPT !["reader"] = "put"]
    /\ held' = [held EXCEPT !["reader"] = e]
    /\ UNCHANGED <<connVars, reactorVars, ioerr, supVars, callerVars,
                   resultVars, wire, appVars, queueVars, pool, nextMessageID>>

\* The remote answers a call it was sent (again, if it repeats itself).
ReadAnswer(e) ==
    /\ "answer" \in PeerDoes
    /\ e \in wire /\ e.replyTo = NoMsg
    /\ e.id \notin answered \/ PeerRepeats
    /\ answered' = answered \cup {e.id}
    /\ ReaderReads([id |-> peerSent + 1, replyTo |-> e.id])

ReadRequest ==
    /\ "request" \in PeerDoes
    /\ UNCHANGED answered
    /\ ReaderReads([id |-> peerSent + 1, replyTo |-> NoMsg])

\* An empty buffer is a heartbeat, passed on as a nil *Envelope.
ReadHeartbeat ==
    /\ "heartbeat" \in PeerDoes
    /\ UNCHANGED answered
    /\ ReaderReads(NoEnv)

\* case c.incoming <- env
ReaderPuts ==
    /\ io["reader"] = "put"
    /\ Len(incoming) < IncomingBuffer
    /\ incoming' = Append(incoming, held["reader"])
    /\ io' = [io EXCEPT !["reader"] = "run"]
    /\ held' = [held EXCEPT !["reader"] = NoEnv]
    /\ UNCHANGED <<connVars, reactorVars, ioerr, supVars, callerVars,
                   resultVars, peerVars, appVars, calls, outgoing, pool,
                   nextMessageID>>

\* case env := <-c.outgoing
WriterTakes ==
    /\ io["writer"] = "run"
    /\ outgoing # <<>>
    /\ outgoing' = Tail(outgoing)
    /\ io' = [io EXCEPT !["writer"] = "put"]
    /\ held' = [held EXCEPT !["writer"] = Head(outgoing)]
    /\ UNCHANGED <<connVars, reactorVars, ioerr, supVars, callerVars,
                   resultVars, peerVars, appVars, calls, incoming, pool,
                   nextMessageID>>

\* Encode and WriteMessage succeeded.
WriterWrites ==
    /\ io["writer"] = "put"
    /\ ~commClosed
    /\ wire' = wire \cup {held["writer"]}
    /\ io' = [io EXCEPT !["writer"] = "run"]
    /\ held' = [held EXCEPT !["writer"] = NoEnv]
    /\ UNCHANGED <<connVars, reactorVars, ioerr, supVars, callerVars,
                   resultVars, answered, peerSent, appVars, queueVars, pool,
                   nextMessageID>>

\* The thread's function has a return value; "failed" is before its deferred
\* look at stopClosed, which changes nothing for a nil error.
IOReturns(t, at, e) ==
    /\ io' = [io EXCEPT ![t] = at]
    /\ ioerr' = [ioerr EXCEPT ![t] = e]
    /\ UNCHANGED <<connVars, reactorVars, supVars, callerVars, resultVars,
                   peerVars, appVars, queueVars, pool, nextMessageID>>

\* An error of the Communicator or of the Codec: in ReadMessage or Decode, in
\* Ping, Encode or WriteMessage.
IOFails(t) ==
    /\ io[t] = "run" \/ (t = "writer" /\ io[t] = "put")
    /\ held' = [held EXCEPT ![t] = NoEnv]
    /\ IOReturns(t, "failed", "io")

\* case <-c.stop: the reader's select is around its send to incoming, the
\* writer's is at the head of its loop.
IOStops(t) ==
    /\ stopClosed
    /\ io[t] = IF t = "reader" THEN "put" ELSE "run"
    /\ held' = [held EXCEPT ![t] = NoEnv]
    /\ IOReturns(t, "exit", Nil)

\* Faulty: errors never count.
IORecoversAlways(t) ==
    /\ io[t] = "failed"
    /\ UNCHANGED held
    /\ IOReturns(t, "exit", Nil)

\* The deferred function: errors do not count once Close was called.
IORecovers(t) ==
    /\ io[t] = "failed"
    /\ UNCHANGED held
    /\ IOReturns(t, "exit", IF stopClosed THEN Nil ELSE ioerr[t])

\* case errc <- c.writerThread(...); default; wg.Done()
IOExits(t) ==
    /\ io[t] = "exit"
    /\ io' = [io EXCEPT ![t] = "done"]
    /\ PutErr(ioerr[t])
    /\ UNCHANGED <<connVars, reactorVars, ioerr, held, sup, firstErr,
                   callerVars, resultVars, peerVars, appVars, queueVars, pool,
                   nextMessageID>>

----------------------------------------------------------------------------
(* The reactor: one action per case of its select, or per part of one      *)

envelopeIn == <<connVars, due, emit, ioVars, supVars, callerVars, peerVars,
                calls, outgoing, pool>>

\* Faulty: the entry of an answered call stays in the map.
ReactorAnswerKeeps ==
    /\ rpc = "select" /\ incoming # <<>>
    /\ LET e == Head(incoming) IN
       /\ e.replyTo # NoMsg
       /\ \E p \in WithID(pending, e.replyTo) :
           DeliverOrFail(p, Answer(e.replyTo), "select")
    /\ incoming' = Tail(incoming)
    /\ UNCHANGED <<envelopeIn, pending, appVars, nextMessageID>>

\* An answer to a call in the map: the entry is deleted, its receiver told.
ReactorAnswer ==
    /\ rpc = "select" /\ incoming # <<>>
    /\ LET e == Head(incoming) IN
       /\ e.replyTo # NoMsg
       /\ \E p \in WithID(pending, e.replyTo) :
           /\ pending' = pending \ {p}
           /\ DeliverOrFail(p, Answer(e.replyTo), "select")
    /\ incoming' = Tail(incoming)
    /\ UNCHANGED <<envelopeIn, appVars, nextMessageID>>

\* An answer to anything else terminates the connection.
ReactorUnexpected ==
    /\ rpc = "select" /\ incoming # <<>>
    /\ LET e == Head(incoming) IN
       /\ e.replyTo # NoMsg
       /\ WithID(pending, e.replyTo) = {}
    /\ ReactorReturns("unexpectedReply")
    /\ incoming' = Tail(incoming)
    /\ UNCHANGED <<envelopeIn, pending, resultVars, appVars, nextMessageID>>

\* A request of the remote: HandleRequest answers it, retains it for a Replier,
\* or returns an error; or there is no Handler.
ReactorHandles ==
    /\ rpc = "select" /\ incoming # <<>>
    /\ LET e == Head(incoming) IN
       /\ e.replyTo = NoMsg /\ e # NoEnv
       /\ \/ /\ "reply" \in HandlerDoes
             /\ nextMessageID' = NextID
             /\ emit' = [id |-> NextID, replyTo |-> e.id]
             /\ rpc' = "emit"
             /\ UNCHANGED <<rerr, retained>>
          \/ /\ "defer" \in HandlerDoes
             /\ retained' = retained \cup {e.id}
             /\ UNCHANGED <<rpc, rerr, emit, nextMessageID>>
          \/ /\ "error" \in HandlerDoes
             /\ ReactorReturns("handler")
             /\ UNCHANGED <<retained, emit, nextMessageID>>
          \/ /\ "unmapped" \in HandlerDoes \/ HandlerDoes = {}
             /\ ReactorReturns("protocol")
             /\ UNCHANGED <<retained, emit, nextMessageID>>
    /\ incoming' = Tail(incoming)
    /\ UNCHANGED <<connVars, pending, due, ioVars, supVars, callerVars,
                   resultVars, peerVars, cancelled, calls, outgoing, pool>>

ReactorHeartbeat ==
    /\ rpc = "select" /\ incoming # <<>> /\ Head(incoming) = NoEnv
    /\ incoming' = Tail(incoming)
    /\ UNCHANGED <<connVars, reactorVars, ioVars, supVars, callerVars,
                   resultVars, peerVars, appVars, calls, outgoing, pool,
                   nextMessageID>>

\* Faulty: no call is entered in the map.
RegisteredNever(p) == IF to[p] = NoMsg THEN pending ELSE pending

\* A call is entered in the map unless it is a Reply (one with a replyError
\* ends here); the Mapper's verdict takes it out again.  A Reply, and a call
\* the Mapper rejects, is told at once.  The envelope goes to outgoing anyway.
Registered(p) == IF to[p] = NoMsg THEN AddCall(pending, p) ELSE pending

ReactorCall ==
    /\ rpc = "select" /\ calls # <<>>
    /\ LET p == Head(calls) IN
       \/ /\ p \in FailedReplies
          /\ ReactorReturns("handler")
          /\ pending' = Registered(p)
          /\ UNCHANGED <<emit, resultVars>>
       \/ /\ p \in Unmapped \ FailedReplies
          /\ pending' = Registered(p) \ WithID(Registered(p), mid[p])
          /\ emit' = EnvOf(p)
          /\ DeliverOrFail(p, Failure("protocol"), "emit")
       \/ /\ p \notin Unmapped \cup FailedReplies
          /\ pending' = Registered(p)
          /\ emit' = EnvOf(p)
          /\ IF to[p] # NoMsg
             THEN DeliverOrFail(p, Failure(Nil), "emit")
             ELSE rpc' = "emit" /\ UNCHANGED <<rerr, resultVars>>
    /\ calls' = Tail(calls)
    /\ UNCHANGED <<connVars, due, ioVars, supVars, callerVars, peerVars,
                   appVars, incoming, outgoing, pool, nextMessageID>>

\* Faulty: the reactor does not wait for room in outgoing.
ReactorEmitsOrDrops ==
    /\ rpc = "emit"
    /\ outgoing' = IF Len(outgoing) < OutgoingBuffer THEN Append(outgoing, emit)
                                                    ELSE outgoing
    /\ emit' = NoEnv
    /\ rpc' = "select"
    /\ UNCHANGED <<connVars, rerr, pending, due, ioVars, supVars, callerVars,
                   resultVars, peerVars, appVars, calls, incoming, pool,
                   nextMessageID>>

\* case c.outgoing <- env
ReactorEmits ==
    /\ rpc = "emit" /\ Len(outgoing) < OutgoingBuffer
    /\ outgoing' = Append(outgoing, emit)
    /\ emit' = NoEnv
    /\ rpc' = "select"
    /\ UNCHANGED <<connVars, rerr, pending, due, ioVars, supVars, callerVars,
                   resultVars, peerVars, appVars, calls, incoming, pool,
                   nextMessageID>>

\* case <-c.stop, in the loop's select or while the reactor is emitting
ReactorStops ==
    /\ rpc \in {"select", "emit"} /\ stopClosed
    /\ ReactorReturns(Nil)
    /\ emit' = NoEnv
    /\ UNCHANGED <<connVars, pending, due, ioVars, supVars, callerVars,
                   resultVars, peerVars, appVars, queueVars, pool,
                   nextMessageID>>

ReactorReadTimeout ==
    /\ CheckHeartbeat
    /\ rpc = "select"
    /\ ReactorReturns("readTimeout")
    /\ UNCHANGED <<connVars, pending, due, emit, ioVars, supVars, callerVars,
                   resultVars, peerVars, appVars, queueVars, pool,
                   nextMessageID>>

\* A cleanup tick finds the calls S past their deadline.
CleanupTick(S) ==
    /\ CleanupEnabled
    /\ rpc = "select" /\ S # {}
    /\ due' = S
    /\ rpc' = "cleanup"
    /\ UNCHANGED <<connVars, rerr, pending, emit, ioVars, supVars, callerVars,
                   resultVars, peerVars, appVars, queueVars, pool,
                   nextMessageID>>

\* Faulty: an expired call stays in the map.
CleanupCallKeeps(p) ==
    /\ rpc = "cleanup" /\ p \in due
    /\ due' = IF HasRoom(p) THEN due \ {p} ELSE {}
    /\ DeliverOrFail(p, Failure("responseTimeout"),
                     IF due = {p} THEN "select" ELSE "cleanup")
    /\ UNCHANGED <<connVars, pending, emit, ioVars, supVars, callerVars,
                   peerVars, appVars, queueVars, pool, nextMessageID>>

\* One turn of the cleanup loop; a blocked receiver ends the loop and the
\* connection.
CleanupCall(p) ==
    /\ rpc = "cleanup" /\ p \in due
    /\ pending' = pending \ {p}
    /\ due' = IF HasRoom(p) THEN due \ {p} ELSE {}
    /\ DeliverOrFail(p, Failure("responseTimeout"),
                     IF due = {p} THEN "select" ELSE "cleanup")
    /\ UNCHANGED <<connVars, emit, ioVars, supVars, callerVars, peerVars,
                   appVars, queueVars, pool, nextMessageID>>

----------------------------------------------------------------------------
(* reactorShutdown *)

ShutdownStores ==
    /\ rpc = "sdState"
    /\ state' = "complete"
    /\ rpc' = "sdClose"
    /\ UNCHANGED <<stopClosed, stopped, commClosed, callsClosed, rerr, pending,
                   due, emit, ioVars, supVars, callerVars, resultVars, peerVars,
                   appVars, queueVars, pool, nextMessageID>>

\* c.Close(): already closed is not an error here
ShutdownCloses ==
    /\ rpc = "sdClose"
    /\ stopClosed' = TRUE
    /\ rpc' = "sdWait"
    /\ UNCHANGED <<state, stopped, commClosed, callsClosed, rerr, pending, due,
                   emit, ioVars, supVars, callerVars, resultVars, peerVars,
                   appVars, queueVars, pool, nextMessageID>>

\* Faulty: the Communicator is not closed.
ShutdownWaitsOnly ==
    /\ rpc = "sdWait"
    /\ SendWait = {}
    /\ rpc' = "sdDrain"
    /\ UNCHANGED <<connVars, rerr, pending, due, emit, ioVars, supVars,
                   callerVars, resultVars, peerVars, appVars, queueVars, pool,
                   nextMessageID>>

\* sendWait.Wait(); comm.Close() may fail
ShutdownWaits ==
    /\ rpc = "sdWait"
    /\ SendWait = {}
    /\ commClosed' = TRUE
    /\ rerr' \in {rerr, IF rerr = Nil THEN "closeFailed" ELSE rerr}
    /\ rpc' = "sdDrain"
    /\ UNCHANGED <<state, stopClosed, stopped, callsClosed, pending, due, emit,
                   ioVars, supVars, callerVars, resultVars, peerVars, appVars,
                   queueVars, pool, nextMessageID>>

\* Faulty: the calls still queued are forgotten.
DrainedPending == pending

\* The pending calls and the queued ones, which replace those of the same ID.
Queued == {calls[i] : i \in DOMAIN calls}
Drained == {p \in pending : WithID(Queued, mid[p]) = {}} \cup Queued

\* close(c.calls), and the loop over what is left in it
ShutdownDrains ==
    /\ rpc = "sdDrain"
    /\ callsClosed' = TRUE
    /\ pending' = Drained
    /\ calls' = <<>>
    /\ rpc' = "sdReport"
    /\ UNCHANGED <<state, stopClosed, stopped, commClosed, rerr, due, emit,
                   ioVars, supVars, callerVars, resultVars, peerVars, appVars,
                   incoming, outgoing, pool, nextMessageID>>

\* Faulty: the pending calls are dropped.
ShutdownReportsNone(p) ==
    /\ rpc = "sdReport" /\ p \in pending
    /\ pending' = pending \ {p}
    /\ UNCHANGED <<connVars, rpc, rerr, due, emit, ioVars, supVars, callerVars,
                   resultVars, peerVars, appVars, queueVars, pool,
                   nextMessageID>>

\* One turn of the reporting loop (pending: what it has not visited); a result
\* that would block is dropped.
ShutdownReports(p) ==
    /\ rpc = "sdReport" /\ p \in pending
    /\ pending' = pending \ {p}
    /\ IF HasRoom(p)
       THEN Deliver(p, Failure(IF rerr = Nil THEN "connShutdown" ELSE rerr))
       ELSE UNCHANGED resultVars
    /\ UNCHANGED <<connVars, rpc, rerr, due, emit, ioVars, supVars, callerVars,
                   peerVars, appVars, queueVars, pool, nextMessageID>>

\* Faulty: stopped is closed before the results are reported.
ShutdownStopsEarly ==
    /\ rpc = "sdReport"
    /\ stopped' = TRUE
    /\ rpc' = "exit"
    /\ UNCHANGED <<state, stopClosed, commClosed, callsClosed, rerr, pending,
                   due, emit, ioVars, supVars, callerVars, resultVars, peerVars,
                   appVars, queueVars, pool, nextMessageID>>

\* close(c.stopped)
ShutdownStops ==
    /\ rpc = "sdReport" /\ pending = {}
    /\ stopped' = TRUE
    /\ rpc' = "exit"
    /\ UNCHANGED <<state, stopClosed, commClosed, callsClosed, rerr, pending,
                   due, emit, ioVars, supVars, callerVars, resultVars, peerVars,
                   appVars, queueVars, pool, nextMessageID>>

\* case errc <- c.reactor(...); default; wg.Done()
ReactorExits ==
    /\ rpc = "exit"
    /\ rpc' = "done"
    /\ PutErr(rerr)
    /\ UNCHANGED <<connVars, rerr, pending, due, emit, ioVars, sup, firstErr,
                   callerVars, resultVars, peerVars, appVars, queueVars, pool,
                   nextMessageID>>

----------------------------------------------------------------------------

Supervisor == Start \/ NegotiateFails \/ Negotiated \/ SupervisorTakes
              \/ SupervisorJoins

Application == AppClose \/ AppReceive
               \/ \E p \in Callers : Cancel(p) \/ Begin(p)

\* The steps of a call that has begun.
CallerStep(p) == Refused(p) \/ EnterSend(p) \/ SendEnqueues(p) \/ SendPanics(p)
                 \/ SendStopped(p) \/ SendCancelled(p)
                 \/ WaitResult(p) \/ WaitCancelled(p)

Remote == ReadRequest \/ ReadHeartbeat \/ \E e \in wire : ReadAnswer(e)

\* The steps of the reader and of the writer that need nothing of the remote.
IOStep(t) == IOStops(t) \/ IORecovers(t) \/ IOExits(t)
             \/ (t = "reader" /\ ReaderPuts)
             \/ (t = "writer" /\ (WriterTakes \/ WriterWrites))

ReactorLoop == ReactorAnswer \/ ReactorUnexpected \/ ReactorHandles
               \/ ReactorHeartbeat \/ ReactorCall \/ ReactorEmits
               \/ ReactorStops
               \/ (\E S \in SUBSET pending : CleanupTick(S))
               \/ (\E p \in due : CleanupCall(p))

ReactorShutdown == ShutdownStores \/ ShutdownCloses \/ ShutdownWaits
                   \/ ShutdownDrains \/ ShutdownStops \/ ReactorExits
                   \/ \E p \in pending : ShutdownReports(p)

\* Everything is over; so that a stop anywhere else is a deadlock.
Terminated ==
    /\ sup \in {"failed", "ended"}
    /\ \A p \in Callers :
           pc[p] \in {"idle", "returned", "abandoned", "panicked"}
    /\ UNCHANGED vars

Next ==
    \/ Supervisor
    \/ Application
    \/ \E p \in Callers : CallerStep(p)
    \/ Remote
    \/ \E t \in IOThreads : IOStep(t) \/ IOFails(t)
    \/ ReactorLoop \/ ReactorReadTimeout \/ ReactorShutdown
    \/ Terminated

Spec == Init /\ [][Next]_vars

\* Every goroutine that can run does; a blocked read or write of a closed
\* Communicator fails, and a call's deadline passes.  Nothing is expected of the
\* application (closing, receiving, cancelling) or of the remote.
Fairness ==
    /\ WF_vars(Supervisor)
    /\ \A p \in Callers : WF_vars(CallerStep(p))
    /\ \A t \in IOThreads : WF_vars(IOStep(t))
    /\ \A t \in IOThreads : WF_vars(commClosed /\ IOFails(t))
    /\ WF_vars(ReactorLoop \/ ReactorShutdown)

FairSpec == Spec /\ Fairness

----------------------------------------------------------------------------
(* Properties *)

ConnType ==
    /\ state \in {"new", "running", "complete"}
    /\ stopClosed \in BOOLEAN /\ stopped \in BOOLEAN
    /\ commClosed \in BOOLEAN /\ callsClosed \in BOOLEAN
    /\ nextMessageID \in 0 .. (IDSpace - 1)
    /\ sup \in {"new", "negotiating", "failed", "running", "joining", "ended"}
    /\ errc \in Errors /\ firstErr \in Errors

ReactorType ==
    /\ rpc \in ReactorPCs /\ rerr \in Errors
    /\ pending \in SUBSET Callers /\ due \in SUBSET pending
    /\ rpc # "cleanup" => due = {}
    /\ emit \in Envelopes

IOType ==
    /\ io \in [IOThreads -> {"off", "run", "put", "failed", "exit", "done"}]
    /\ ioerr \in [IOThreads -> {None, Nil, "io"}]
    /\ held \in [IOThreads -> Envelopes]

QueueType ==
    /\ calls \in Seq(Callers) /\ Len(calls) <= OutgoingBuffer
    /\ incoming \in Seq(Envelopes) /\ Len(incoming) <= IncomingBuffer
    /\ outgoing \in Seq(Envelopes) /\ Len(outgoing) <= OutgoingBuffer

CallerType ==
    /\ pc \in [Callers -> CallerPCs]
    /\ mid \in [Callers -> 0 .. (IDSpace - 1)]
    /\ to \in [Callers -> Nat]
    /\ rs \in [Callers -> Chans \cup {NoChan}]
    /\ ret \in [Callers -> Results]
    /\ buf \in [Chans -> Seq(Results)]
    /\ pool \in SUBSET PoolChans
    /\ given \in [Callers -> Seq(Results)]
    /\ \A p \in Callers : pc[p] \in {"sending", "waiting"} =>
           rs[p] \in IF p \in Senders THEN {AppChan} ELSE PoolChans
    /\ \A p \in Senders : pc[p] # "waiting"

EnvironmentType ==
    /\ cancelled \in SUBSET Callers /\ retained \in SUBSET Nat
    /\ wire \in SUBSET Envelopes /\ answered \in SUBSET Nat
    /\ peerSent \in 0 .. MaxPeerMsgs

\* Every variable keeps its type: the queues within their capacity, IDs of
\* uint32, goroutines only in the places of their code.
TypeOK == /\ ConnType /\ ReactorType /\ IOType
          /\ QueueType /\ CallerType /\ EnvironmentType

\* "This starts at 1 and increments by 2 to guarantee that we will never use ID
\* 0" (nextID): also when the uint32 wraps around, no envelope the connection
\* sends has the ID that means "no message".
NeverIDZero ==
    /\ nextMessageID % 2 = 1
    /\ \A p \in Callers : pc[p] \notin {"idle", "checked"} /\ rs[p] # NoChan
                           => mid[p] # NoMsg
    /\ \A e \in wire : e.id # NoMsg

\* The calls whose receiver the reactor may still send to.
Reach == Queued \cup pending

\* sendResult's reasoning about its pool: a channel that was put back is empty,
\* and nothing that the reactor holds can still send to it.  Otherwise a later
\* call that gets the channel would receive the result of an earlier one.
PoolClean ==
    \A c \in pool : /\ buf[c] = <<>>
                    /\ \A p \in Reach : rs[p] # c

\* A Request that returns a message returns the answer to its own message,
\* whatever timeouts, cancellations and reuse of channels went on around it.
Correlated ==
    \A p \in SyncCallers :
        pc[p] = "returned" /\ ret[p].msg # NoMsg =>
            p \in Requesters /\ ret[p].msg = mid[p]

\* The connection reports at most one result for a call: an answer, a timeout
\* or the shutdown.
AtMostOneResult == \A p \in Callers : Len(given[p]) <= 1

\* A call that waits is queued, or awaits its answer, or has its result.  The
\* exception are Replies that carry an error: see FailedReplyReturns.
NoCallLost ==
    \A p \in SyncCallers \ FailedReplies :
        pc[p] = "waiting" => p \in Reach \/ given[p] # <<>>

\* A Reply is told of its success before its envelope is queued (conn.go:606): what
\* it was told holds if the connection goes on, however full the queue to the
\* writer is; only the end of the connection loses the message.
ToldIsSent ==
    \A p \in Repliers :
        (\E i \in DOMAIN given[p] : given[p][i] = Failure(Nil)) =>
            \/ EnvOf(p) \in wire \cup {emit, held["writer"]}
            \/ \E i \in DOMAIN outgoing : outgoing[i] = EnvOf(p)
            \/ stopClosed \/ io["writer"] \in {"failed", "exit", "done"}

\* Once the handlers' context is done (conn.stopped) the connection has finished
\* halting: it is refusing calls, the Communicator is closed, no call is queued
\* or pending and every caller that waits has a result to wake up for.
StoppedMeansHalted ==
    stopped =>
        /\ state = "complete" /\ stopClosed /\ commClosed /\ callsClosed
        /\ Reach = {}
        /\ \A p \in SyncCallers \ FailedReplies :
               pc[p] = "waiting" => buf[rs[p]] # <<>>

\* An application that does not call Close hears on "ended" why the connection
\* ended, though three goroutines race to report, two of them may drop their error
\* for a nil, and whoever is first silences the others: an error of the reader or
\* the writer is reported, unless the reactor gave up for a reason of its own; and
\* only that can be lost to a nil (see HandlerErrorReported).
Reason(e) ==
    \/ e = "io" /\ \E t \in IOThreads : io[t] \in {"exit", "done"} /\ ioerr[t] = "io"
    \/ e \in {Nil, rerr} /\ rerr \notin {None, Nil, "closeFailed"}
EndTellsWhy == sup = "ended" /\ ~AppCloses => Reason(firstErr)

\* "callers of Send() are free to pass their own receiver channel in. If this
\* receiver blocks, the connection is terminated" (error.go): it is never
\* terminated for a channel of the pool, which has room for its one result.
OnlyAppReceiverBlocks ==
    [][rerr # "receiverBlocked" /\ rerr' = "receiverBlocked"
       => Len(buf[AppChan]) = RecvCap]_vars

\* A connection is terminated for an unexpected answer only if the call it
\* answers was resolved before: by the Mapper's error, a timeout or, if the
\* remote repeats itself, an earlier answer.  No order of the writer, the remote
\* and the reader lets an answer overtake its call's entry in the map.
AnswerRefusedOnlyIfResolved ==
    [][rerr # "unexpectedReply" /\ rerr' = "unexpectedReply" =>
        \E p \in Callers : /\ mid[p] = Head(incoming).replyTo
                           /\ given[p] # <<>>
                           /\ PeerRepeats \/ given[p][1].err # Nil]_vars

\* A connection of which any part has stopped ends, with everything joined.
Stopping ==
    \/ stopClosed
    \/ \E t \in IOThreads : io[t] \in {"failed", "exit", "done"}
    \/ rpc \notin {"off", "select", "emit", "cleanup"}
StopEnds == Stopping ~> sup = "ended"

\* With a cleanup interval every call returns, the remote's silence and the
\* application's notwithstanding.
InCall(p) == pc[p] \in {"checked", "sending", "unsent", "waiting"}
CallsReturn == \A p \in Callers \ FailedReplies : InCall(p) ~> ~InCall(p)

\* The connection implements the promise of CallOutcomes: Accept is a send to
\* conn.calls, Resolve a send to the call's receiver, Halt is close(c.stopped).
\* Lose is a result that found no room in its receiver, which only that of Send can
\* lack, or the end of a Reply that carries an error: the reactor has let go of the
\* call and it has no result.
Accepted ==
    {p \in SyncCallers : pc[p] \in {"waiting", "abandoned"} \/ given[p] # <<>>}
    \cup {p \in Senders : pc[p] = "returned" /\ ret[p].err = Nil}
Lost == {p \in Accepted : p \notin Reach /\ given[p] = <<>>}
Full == IF Len(buf[AppChan]) < RecvCap THEN {} ELSE Senders

Promise == INSTANCE CallOutcomes
    WITH MayLose <- FailedReplies, Outcomes <- Results, accepted <- Accepted,
         outcome <- given, lost <- Lost, full <- Full, halted <- stopped

ImplementsCallOutcomes == Promise!OutcomesSpec

----------------------------------------------------------------------------
(* What comments of the source promise and the code does not keep *)

\* "Once we know that all calls to Send() have returned, we can safely drain the
\* channel" (conn.go:455): no caller sends on the closed channel.
NoPanic == \A p \in Callers : pc[p] # "panicked"

\* "If the connection is lost, any retained IncomingRequest will become invalid
\* and attempts to send on it will fail" (handler.go:77): a Reply that returns
\* nil was taken by the reactor.
LostReplyFails ==
    \A p \in Repliers :
        pc[p] = "returned" /\ ret[p].err = Nil => given[p] # <<>>

\* "The receiver channel will yield if the connection shuts down properly"
\* (conn.go:195): also for a Reply that carries an error.
FailedReplyReturns ==
    stopped => \A p \in FailedReplies :
                  pc[p] = "waiting" => buf[rs[p]] # <<>>

\* "These errors need to terminate the connection and be passed through to the
\* disconnection handler" (conn.go:588), with no error of
\* the reader or the writer to come before it and no Close by the application.
HandlerErrorReported ==
    sup = "ended" /\ rerr = "handler" /\ (\A t \in IOThreads : ioerr[t] = Nil)
        => firstErr # Nil

=============================================================================
