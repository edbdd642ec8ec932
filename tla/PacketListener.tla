--------------------------- MODULE PacketListener ---------------------------
(***************************************************************************)
(* The listener of packetsrv (src/packetsrv/listener.go) and the           *)
(* communicators it makes (src/packetsrv/communicator.go): one socket,     *)
(* whose packets are dealt out to one communicator per remote address.     *)
(*                                                                         *)
(* The goroutines are listen's main loop, its reader and its writer        *)
(* thread, Serve, which accepts communicators, and for each communicator   *)
(* the connection that uses it.  A packet is known by its address and its  *)
(* place in the order of arrival; idleness is a clock tick's choice.       *)
(***************************************************************************)
EXTENDS Integers, Sequences, FiniteSets

CONSTANTS
    Addrs,       \* remote addresses
    MaxComms,    \* bound: the communicators made
    MaxPackets,  \* bound: the packets that arrive
    QueueCap,    \* capacity of reader, writer and closer (1024)
    AcceptCap,   \* capacity of accept (1024)
    InboxCap     \* capacity of a communicator's reader (1024)

ASSUME PacketBounds ==
    /\ Addrs # {} /\ MaxComms \in Nat /\ MaxPackets \in Nat
    /\ {QueueCap, AcceptCap, InboxCap} \subseteq Nat \ {0}

Comms == 1 .. MaxComms
NoComm == 0

VARIABLES
    stop,      \* pl.stop is closed
    lpc,       \* where listen is
    rpc,       \* where the reader thread is
    rhand,     \* the packet it has read
    wpc,       \* where the writer thread is
    whand,     \* the communicator whose message it writes
    errc,      \* errc holds an error
    reader,    \* chan reader: packets
    writer,    \* chan writer: the communicators whose message is queued
    closer,    \* chan closer: addresses
    accept,    \* pl.accept: communicators
    comms,     \* the map: the communicator of each address
    comm,      \* each communicator: not made, open, or closed (its stop is)
    addrOf,    \* its address
    inbox,     \* its channel reader
    got,       \* history: what ReadMessage returned of it
    writing,   \* communicators with a WriteMessage waiting for its result
    asked,     \* history: communicators whose Close was called
    arrived    \* history: number of packets that arrived

threadVars == <<rpc, rhand, wpc, whand>>
queueVars  == <<errc, reader, writer, closer, accept>>
commVars   == <<comms, comm, addrOf, inbox>>
userVars   == <<got, writing, asked>>
vars == <<stop, lpc, threadVars, queueVars, commVars, userVars, arrived>>

Packets == [n : 1 .. MaxPackets, addr : Addrs]
NoPacket == [n |-> 0]

Init ==
    /\ stop = FALSE
    /\ lpc = "start" /\ rpc = "off" /\ wpc = "off"
    /\ rhand = NoPacket /\ whand = NoComm
    /\ errc = FALSE
    /\ reader = <<>> /\ writer = <<>> /\ closer = <<>> /\ accept = <<>>
    /\ comms = [a \in Addrs |-> NoComm]
    /\ comm = [c \in Comms |-> "none"]
    /\ addrOf \in [Comms -> {CHOOSE a \in Addrs : TRUE}]
    /\ inbox = [c \in Comms |-> <<>>]
    /\ got = [c \in Comms |-> <<>>]
    /\ writing = {} /\ asked = {}
    /\ arrived = 0

----------------------------------------------------------------------------
(* The listener's own calls: Listen, Accept, Close *)

\* net.ListenPacket fails (nobody is told), or the two threads start.
ListenFails ==
    /\ lpc = "start" /\ lpc' = "failed"
    /\ UNCHANGED <<stop, threadVars, queueVars, commVars, userVars, arrived>>

Listens ==
    /\ lpc = "start" /\ lpc' = "loop"
    /\ rpc' = "read" /\ wpc' = "take"
    /\ UNCHANGED <<stop, rhand, whand, queueVars, commVars, userVars, arrived>>

\* Closing a second time is an error: the panic is recovered.
Close ==
    /\ ~stop /\ stop' = TRUE
    /\ UNCHANGED <<lpc, threadVars, queueVars, commVars, userVars, arrived>>

Accept ==
    /\ accept # <<>>
    /\ accept' = Tail(accept)
    /\ UNCHANGED <<stop, lpc, threadVars, errc, reader, writer, closer,
                   commVars, userVars, arrived>>

Accepted(c) == comm[c] # "none" /\ \A i \in DOMAIN accept : accept[i] # c

----------------------------------------------------------------------------
(* The reader and the writer thread *)

PcClosed == lpc \in {"join", "done"}

ReaderReads(a) ==
    /\ rpc = "read" /\ ~PcClosed /\ arrived < MaxPackets
    /\ arrived' = arrived + 1
    /\ rhand' = [n |-> arrived + 1, addr |-> a]
    /\ rpc' = "send"
    /\ UNCHANGED <<stop, lpc, wpc, whand, queueVars, commVars, userVars>>

ReaderFails ==
    /\ rpc = "read" /\ rpc' = "done"
    /\ errc' = TRUE
    /\ UNCHANGED <<stop, lpc, rhand, wpc, whand, reader, writer, closer, accept,
                   commVars, userVars, arrived>>

\* Faulty: the packet is sent again and again; stop is looked at too early.
ReaderSendsAgain ==
    /\ rpc = "send" /\ Len(reader) < QueueCap
    /\ reader' = Append(reader, rhand)
    /\ UNCHANGED <<stop, lpc, threadVars, errc, writer, closer, accept,
                   commVars, userVars, arrived>>
ReaderStopsEarly ==
    /\ rpc = "read" /\ stop
    /\ rpc' = "done"
    /\ UNCHANGED <<stop, lpc, rhand, wpc, whand, queueVars, commVars, userVars,
                   arrived>>

ReaderSends ==
    /\ rpc = "send" /\ Len(reader) < QueueCap
    /\ reader' = Append(reader, rhand)
    /\ rpc' = "read" /\ rhand' = NoPacket
    /\ UNCHANGED <<stop, lpc, wpc, whand, errc, writer, closer, accept,
                   commVars, userVars, arrived>>

ReaderStops ==
    /\ rpc = "send" /\ stop
    /\ rpc' = "done" /\ rhand' = NoPacket
    /\ UNCHANGED <<stop, lpc, wpc, whand, queueVars, commVars, userVars,
                   arrived>>

WriterTakes ==
    /\ wpc = "take" /\ writer # <<>>
    /\ whand' = Head(writer) /\ writer' = Tail(writer)
    /\ wpc' = "write"
    /\ UNCHANGED <<stop, lpc, rpc, rhand, errc, reader, closer, accept,
                   commVars, userVars, arrived>>

\* Faulty: no result is sent if WriteTo fails.
WriterWritesSilently ==
    /\ wpc = "write"
    /\ writing' \in {writing, writing \ {whand}}
    /\ wpc' = "take" /\ whand' = NoComm
    /\ UNCHANGED <<stop, lpc, rpc, rhand, queueVars, commVars, got, asked,
                   arrived>>

\* WriteTo, then out.errc <- err: WriteMessage returns.
WriterWrites ==
    /\ wpc = "write"
    /\ writing' = writing \ {whand}
    /\ wpc' = "take" /\ whand' = NoComm
    /\ UNCHANGED <<stop, lpc, rpc, rhand, queueVars, commVars, got, asked,
                   arrived>>

WriterStops ==
    /\ wpc = "take" /\ stop
    /\ wpc' = "done"
    /\ UNCHANGED <<stop, lpc, rpc, rhand, whand, queueVars, commVars, userVars,
                   arrived>>

----------------------------------------------------------------------------
(* listen's loop *)

\* Faulty: the communicator stays in the map.
CommCloseKeeps(S) ==
    /\ comm' = [c \in Comms |-> IF c \in S THEN "closed" ELSE comm[c]]
    /\ UNCHANGED comms

\* commClose, for each of S: close its reader and its stop, delete(comms, key).
CommClose(S) ==
    /\ comm' = [c \in Comms |-> IF c \in S THEN "closed" ELSE comm[c]]
    /\ comms' = [a \in Addrs |-> IF comms[a] \in S THEN NoComm ELSE comms[a]]

Mapped == {comms[a] : a \in Addrs} \ {NoComm}

\* A tick of cleanup finds the communicators S idle for too long.
CleanupTick(S) ==
    /\ lpc = "loop" /\ S # {}
    /\ CommClose(S)
    /\ UNCHANGED <<stop, lpc, threadVars, queueVars, addrOf, inbox, userVars,
                   arrived>>

CloserTaken ==
    /\ lpc = "loop" /\ closer # <<>>
    /\ CommClose({comms[Head(closer)]} \ {NoComm})
    /\ closer' = Tail(closer)
    /\ UNCHANGED <<stop, lpc, threadVars, errc, reader, writer, accept, addrOf,
                   inbox, userVars, arrived>>

\* Faulty: a full channel takes the packet all the same.
PutAlways(c, p) == inbox' = [inbox EXCEPT ![c] = Append(@, p)]

\* A packet that finds its communicator's channel full is dropped.
Put(c, p) ==
    inbox' = IF Len(inbox[c]) < InboxCap
             THEN [inbox EXCEPT ![c] = Append(@, p)] ELSE inbox

\* Faulty: the map is not looked at.
KnownNever(a) == comms[a] # comms[a]

Known(a) == comms[a] # NoComm

PacketKnown ==
    /\ lpc = "loop" /\ reader # <<>>
    /\ Known(Head(reader).addr)
    /\ Put(comms[Head(reader).addr], Head(reader))
    /\ reader' = Tail(reader)
    /\ UNCHANGED <<stop, lpc, threadVars, errc, writer, closer, accept, comms,
                   comm, addrOf, userVars, arrived>>

\* The first packet of an address makes its communicator, which is entered in
\* the map; if accept is full listen gives up.
PacketNew ==
    /\ lpc = "loop" /\ reader # <<>>
    /\ ~Known(Head(reader).addr)
    /\ \E c \in Comms :
        /\ comm[c] = "none" /\ \A b \in Comms : b < c => comm[b] # "none"
        /\ comm' = [comm EXCEPT ![c] = "open"]
        /\ addrOf' = [addrOf EXCEPT ![c] = Head(reader).addr]
        /\ comms' = [comms EXCEPT ![Head(reader).addr] = c]
        /\ IF Len(accept) < AcceptCap
           THEN /\ accept' = Append(accept, c)
                /\ Put(c, Head(reader))
                /\ UNCHANGED lpc
           ELSE lpc' = "join" /\ UNCHANGED <<accept, inbox>>
    /\ reader' = Tail(reader)
    /\ UNCHANGED <<stop, threadVars, errc, writer, closer, userVars, arrived>>

\* return, and pc.Close() of the deferred function
ListenReturns ==
    /\ lpc = "loop" /\ (errc \/ stop)
    /\ lpc' = "join"
    /\ UNCHANGED <<stop, threadVars, queueVars, commVars, userVars, arrived>>

\* wg.Wait(), and commClose of all there are
ListenJoins ==
    /\ lpc = "join" /\ lpc' = "done"
    /\ rpc = "done" /\ wpc = "done"
    /\ CommClose(Mapped)
    /\ UNCHANGED <<stop, threadVars, queueVars, addrOf, inbox, userVars,
                   arrived>>

----------------------------------------------------------------------------
(* A communicator's connection: ReadMessage, WriteMessage, Close.  Their     *)
(* timeouts and the io.EOF of a closed communicator change nothing here.     *)

ReadMessage(c) ==
    /\ Accepted(c) /\ inbox[c] # <<>>
    /\ inbox' = [inbox EXCEPT ![c] = Tail(@)]
    /\ got' = [got EXCEPT ![c] = Append(@, Head(inbox[c]))]
    /\ UNCHANGED <<stop, lpc, threadVars, queueVars, comms, comm, addrOf,
                   writing, asked, arrived>>

\* The message is queued: from here on WriteMessage waits for its result only.
WriteMessage(c) ==
    /\ Accepted(c) /\ c \notin writing /\ Len(writer) < QueueCap
    /\ writer' = Append(writer, c)
    /\ writing' = writing \cup {c}
    /\ UNCHANGED <<stop, lpc, threadVars, errc, reader, closer, accept,
                   commVars, got, asked, arrived>>

CommCloses(c) ==
    /\ Accepted(c) /\ c \notin asked
    /\ \/ Len(closer) < QueueCap /\ closer' = Append(closer, addrOf[c])
       \/ comm[c] = "closed" /\ UNCHANGED closer
    /\ asked' = asked \cup {c}
    /\ UNCHANGED <<stop, lpc, threadVars, errc, reader, writer, accept,
                   commVars, got, writing, arrived>>

----------------------------------------------------------------------------

ReaderThread == ReaderSends \/ ReaderStops \/ (PcClosed /\ ReaderFails)
WriterThread == WriterTakes \/ WriterWrites \/ WriterStops
Listen == ListenFails \/ Listens \/ CloserTaken \/ PacketKnown \/ PacketNew
          \/ ListenReturns \/ ListenJoins


Next ==
    \/ Close \/ Accept
    \/ (\E a \in Addrs : ReaderReads(a)) \/ ReaderFails
    \/ ReaderThread \/ WriterThread
    \/ Listen \/ \E S \in SUBSET Mapped : CleanupTick(S)
    \/ \E c \in Comms : ReadMessage(c) \/ WriteMessage(c) \/ CommCloses(c)

Spec == Init /\ [][Next]_vars

\* The goroutines of listen run; a select that finds pl.stop closed time after
\* time takes that case in the end, as it chooses at random.
Fairness ==
    /\ WF_vars(ReaderThread) /\ WF_vars(WriterThread) /\ WF_vars(Listen)
    /\ SF_vars(WriterStops) /\ SF_vars(ListenReturns)

FairSpec == Spec /\ Fairness

----------------------------------------------------------------------------
(* Properties *)

\* Every variable keeps its type, and every channel its capacity.
TypeOK ==
    /\ stop \in BOOLEAN /\ errc \in BOOLEAN
    /\ lpc \in {"start", "failed", "loop", "join", "done"}
    /\ rpc \in {"off", "read", "send", "done"}
    /\ wpc \in {"off", "take", "write", "done"}
    /\ rhand \in Packets \cup {NoPacket} /\ whand \in Comms \cup {NoComm}
    /\ reader \in Seq(Packets) /\ Len(reader) <= QueueCap
    /\ writer \in Seq(Comms) /\ Len(writer) <= QueueCap
    /\ closer \in Seq(Addrs) /\ Len(closer) <= QueueCap
    /\ accept \in Seq(Comms) /\ Len(accept) <= AcceptCap
    /\ comms \in [Addrs -> Comms \cup {NoComm}]
    /\ comm \in [Comms -> {"none", "open", "closed"}]
    /\ addrOf \in [Comms -> Addrs]
    /\ inbox \in [Comms -> Seq(Packets)]
    /\ got \in [Comms -> Seq(Packets)]
    /\ \A c \in Comms : Len(inbox[c]) <= InboxCap
    /\ writing \in SUBSET Comms /\ asked \in SUBSET Comms
    /\ arrived \in 0 .. MaxPackets

\* The map holds the open communicators, each under its address: a packet is
\* never sent to a closed communicator and none is closed twice (either would
\* panic), and no open one is out of the cleanup's and the shutdown's reach.
MapHoldsOpen ==
    \A c \in Comms : \A a \in Addrs :
        comms[a] = c <=> comm[c] = "open" /\ addrOf[c] = a

\* What a communicator was given: packets of its address, in order of arrival,
\* none of them twice, and of two communicators of an address the later one has
\* only packets that arrived after all of the earlier one's.
Received(c) == got[c] \o inbox[c]
InOrder ==
    /\ \A c \in Comms : \A i \in DOMAIN Received(c) :
        /\ Received(c)[i].addr = addrOf[c]
        /\ \A j \in 1 .. (i - 1) : Received(c)[j].n < Received(c)[i].n
    /\ \A c, d \in Comms :
        c < d /\ addrOf[c] = addrOf[d] =>
            \A i \in DOMAIN Received(c), j \in DOMAIN Received(d) :
                Received(c)[i].n < Received(d)[j].n

\* Close of a communicator may close another one only through the address they
\* share, when it came too late: the cleanup had closed its own by then, and a
\* new packet had made the other.
ClosesItselfOrLate ==
    [][\A c \in Comms :
        comm[c] = "open" /\ comm'[c] = "closed" /\ closer' # closer =>
            \/ c \in asked
            \/ \E d \in asked : /\ d < c /\ addrOf[d] = addrOf[c]
                               /\ comm[d] = "closed"]_vars

\* Closing the listener ends listen and both its threads, and closes every
\* communicator, accepted or not.
StopEndsListen ==
    stop ~> \/ lpc = "failed"
            \/ lpc = "done" /\ \A c \in Comms : comm[c] # "open"

\* A WriteMessage that was queued returns unless the listener is closed: then
\* the writer thread may be gone, and nothing ends the wait for the result.
WritesReturn == \A c \in Comms : c \in writing ~> c \notin writing \/ stop

=============================================================================
