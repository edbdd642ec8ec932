-------------------------------- MODULE Link --------------------------------
(***************************************************************************)
(* The two ends of one connection: how they agree on a protocol version    *)
(* (VersionNegotiator in src/proto.go, run by negotiate and start in       *)
(* src/conn.go), and how heartbeats then keep the connection, over each    *)
(* kind of Communicator: the stream of src/stream.go, the websocket of     *)
(* src/wsocketsrv/communicator.go, the packets of src/packetsrv.           *)
(*                                                                         *)
(* The client's end is started by Dialer.Client, the server's by           *)
(* Server.runConn.  What an end does while it runs is Conn's business;     *)
(* here it runs, sends heartbeats and ends.                                *)
(*                                                                         *)
(* A message is the list of versions in it, as the four bytes each takes.  *)
(* The heartbeat of a stream is the empty message, that of packets a       *)
(* single byte, which is no list; a websocket's is not a message.          *)
(***************************************************************************)
EXTENDS Integers, Sequences, SequencesExt

CONSTANTS
    Lists,         \* the lists of versions a VersionNegotiator may be made of
    Transports,    \* the kinds of Communicator
    ReadLimit,     \* how many versions ReadMessage(nil, 1024, ...) takes
    PacketPing,    \* the heartbeat of packets
    MaxWire        \* bound: heartbeats are sent while fewer are under way

\* NewVersionNegotiator panics if there is no protocol or a version is negative
\* or appears twice.
ASSUME ListsAssumption ==
    \A l \in Lists : /\ l \in Seq(Nat) /\ l # <<>>
                     /\ \A i, j \in DOMAIN l : l[i] = l[j] => i = j
ASSUME LimitsAssumption ==
    /\ Transports \subseteq {"stream", "websocket", "packet"}
    /\ ReadLimit \in Nat \ {0} /\ MaxWire \in Nat
    /\ PacketPing \notin Seq(Nat)

Sides == {"client", "server"}
Other(s) == IF s = "client" THEN "server" ELSE "client"

\* What a negotiator's goroutine has sent on result or errc, if not a version
None == -1
Refused == -2      \* there is no version in common, or the message is no list
Failed == -3       \* the Communicator failed

VARIABLES
    transport,  \* the kind of Communicator both ends have
    ours,       \* v.ours: the versions each end sends
    wire,       \* the messages on the way to each end
    neg,        \* where each end's negotiator goroutine is
    result,     \* its channels result and errc
    conn,       \* each end's connection
    version     \* the version of the protocol it runs

vars == <<transport, ours, wire, neg, result, conn, version>>

Init ==
    /\ transport \in Transports
    /\ ours \in [Sides -> Lists]
    /\ wire = [s \in Sides |-> <<>>]
    /\ neg = [s \in Sides |-> "off"]
    /\ result = [s \in Sides |-> None]
    /\ conn = [s \in Sides |-> "new"]
    /\ version = [s \in Sides |-> None]

----------------------------------------------------------------------------
(* The transport.  A stream and a websocket deliver in order; packets are   *)
(* lost, overtaken and delivered twice.                                     *)

\* WriteMessage
Puts(s, m) == wire' = [wire EXCEPT ![Other(s)] = Append(@, m)]

\* ReadMessage: wire'[s] after s has read its i-th message
Takes(s, i) ==
    \/ wire' = [wire EXCEPT ![s] = RemoveAt(@, i)]
    \/ transport = "packet" /\ UNCHANGED wire

Arrived(s) == IF transport = "packet" THEN 1 .. Len(wire[s])
                                      ELSE {i \in {1} : wire[s] # <<>>}

Loses(s) ==
    /\ transport = "packet"
    /\ \E i \in 1 .. Len(wire[s]) : wire' = [wire EXCEPT ![s] = RemoveAt(@, i)]
    /\ UNCHANGED <<transport, ours, neg, result, conn, version>>

----------------------------------------------------------------------------
(* VersionNegotiator.Negotiate *)

\* ReadMessage: a longer message is an error for a stream and a websocket; the
\* packet client's buffer cuts it off; the packet server's ignores the limit.
TooLong(m) == transport # "packet" /\ Len(m) > ReadLimit
Read(s, m) ==
    IF transport = "packet" /\ s = "client" /\ Len(m) > ReadLimit
    THEN SubSeq(m, 1, ReadLimit) ELSE m

\* v.protocols has the versions of v.ours.
Known(s, m) == {v \in Range(m) : v \in Range(ours[s])}

\* Faulty: the first version of the remote's that is known; the highest of the
\* remote's that is not above all of ours.
OutcomeFirst(s, m) ==
    IF m = PacketPing \/ TooLong(m) \/ Known(s, Read(s, m)) = {} THEN Refused
    ELSE SelectSeq(Read(s, m), LAMBDA v : v \in Range(ours[s]))[1]
OutcomeUpTo(s, m) ==
    LET below == {v \in Range(m) : v <= Max(Range(ours[s]))} IN
    IF m = PacketPing \/ TooLong(m) \/ below = {} THEN Refused ELSE Max(below)

\* What Negotiate returns for the message m: the highest version both know.
Outcome(s, m) ==
    IF m = PacketPing \/ TooLong(m) \/ Known(s, Read(s, m)) = {} THEN Refused
    ELSE Max(Known(s, Read(s, m)))

\* Faulty: the write is repeated.
NegotiatorWritesAgain(s) ==
    /\ neg[s] = "write"
    /\ wire' = [wire EXCEPT ![Other(s)] = @ \o <<ours[s], ours[s]>>]
    /\ neg' = [neg EXCEPT ![s] = "read"]
    /\ UNCHANGED <<transport, ours, result, conn, version>>

NegotiatorWrites(s) ==
    /\ neg[s] = "write"
    /\ Puts(s, ours[s])
    /\ neg' = [neg EXCEPT ![s] = "read"]
    /\ UNCHANGED <<transport, ours, result, conn, version>>

NegotiatorReads(s) ==
    /\ neg[s] = "read"
    /\ \E i \in Arrived(s) :
        /\ result' = [result EXCEPT ![s] = Outcome(s, wire[s][i])]
        /\ Takes(s, i)
    /\ neg' = [neg EXCEPT ![s] = "done"]
    /\ UNCHANGED <<transport, ours, conn, version>>

\* The Communicator breaks, or a deadline passes.
NegotiatorFails(s) ==
    /\ neg[s] \in {"write", "read"}
    /\ result' = [result EXCEPT ![s] = Failed]
    /\ neg' = [neg EXCEPT ![s] = "done"]
    /\ UNCHANGED <<transport, ours, wire, conn, version>>

----------------------------------------------------------------------------
(* start and negotiate *)

\* The packet listener makes a Communicator when a packet arrives.
Starts(s) ==
    /\ conn[s] = "new"
    /\ transport = "packet" /\ s = "server" => wire[s] # <<>>
    /\ conn' = [conn EXCEPT ![s] = "negotiating"]
    /\ neg' = [neg EXCEPT ![s] = "write"]
    /\ UNCHANGED <<transport, ours, wire, result, version>>

\* Faulty: the result is not waited for.
NegotiatedEarly(s) ==
    /\ conn[s] = "negotiating" /\ result[s] # Failed
    /\ conn' = [conn EXCEPT ![s] = "running"]
    /\ version' = [version EXCEPT ![s] = result[s]]
    /\ UNCHANGED <<transport, ours, wire, neg, result>>

Negotiated(s) ==
    /\ conn[s] = "negotiating" /\ result[s] \in Nat
    /\ conn' = [conn EXCEPT ![s] = "running"]
    /\ version' = [version EXCEPT ![s] = result[s]]
    /\ UNCHANGED <<transport, ours, wire, neg, result>>

\* start returns an error, the negotiator's or after ReadTimeout; the goroutine
\* goes on, and nobody closes the Communicator.
NegotiationFails(s) ==
    /\ conn[s] = "negotiating" /\ result[s] \in {Refused, Failed}
    /\ conn' = [conn EXCEPT ![s] = "failed"]
    /\ UNCHANGED <<transport, ours, wire, neg, result, version>>
NegotiationTimesOut(s) ==
    /\ conn[s] = "negotiating"
    /\ conn' = [conn EXCEPT ![s] = "failed"]
    /\ UNCHANGED <<transport, ours, wire, neg, result, version>>

----------------------------------------------------------------------------
(* A connection that runs *)

\* What Ping sends, but for a websocket's control frame
StreamPing == <<>>
Heartbeat == IF transport = "packet" THEN PacketPing ELSE StreamPing

\* Faulty: heartbeats are sent whatever became of the connection.
PingsOn(s) ==
    /\ conn[s] # "new" /\ transport # "websocket"
    /\ Len(wire[Other(s)]) < MaxWire
    /\ Puts(s, Heartbeat)
    /\ UNCHANGED <<transport, ours, neg, result, conn, version>>

Pings(s) ==
    /\ conn[s] = "running" /\ transport # "websocket"
    /\ Len(wire[Other(s)]) < MaxWire
    /\ Puts(s, Heartbeat)
    /\ UNCHANGED <<transport, ours, neg, result, conn, version>>

\* An empty message is a heartbeat; the codec refuses a list of versions and the
\* single byte ("short message"), which ends the connection.
Reads(s) ==
    /\ conn[s] = "running"
    /\ \E i \in Arrived(s) :
        /\ conn' = [conn EXCEPT ![s] = IF wire[s][i] = <<>> THEN @
                                                           ELSE "protocol"]
        /\ Takes(s, i)
    /\ UNCHANGED <<transport, ours, neg, result, version>>

\* The Communicator breaks, a read times out or the heartbeat check fires.
IsLost(s) ==
    /\ conn[s] = "running"
    /\ conn' = [conn EXCEPT ![s] = "lost"]
    /\ UNCHANGED <<transport, ours, wire, neg, result, version>>

Closes(s) ==
    /\ conn[s] = "running"
    /\ conn' = [conn EXCEPT ![s] = "closed"]
    /\ UNCHANGED <<transport, ours, wire, neg, result, version>>

----------------------------------------------------------------------------

Negotiator(s) == NegotiatorWrites(s) \/ NegotiatorReads(s) \/ NegotiatorFails(s)
Start(s) == Negotiated(s) \/ NegotiationFails(s) \/ NegotiationTimesOut(s)
Runs(s) == Pings(s) \/ Reads(s) \/ IsLost(s) \/ Closes(s)

Next == \E s \in Sides :
            Starts(s) \/ Negotiator(s) \/ Start(s) \/ Runs(s) \/ Loses(s)

Spec == Init /\ [][Next]_vars

\* Reads have a deadline but for the websocket's, whose connection has only the
\* pongs and the heartbeat check; they find nothing when the remote is silent.
HasDeadline == transport # "websocket"
Silent(s) == wire[s] = <<>> /\ conn[Other(s)] # "running"

\* Goroutines run, timeouts fire, and a remote that is silent is missed.
Fairness ==
    \A s \in Sides :
        /\ WF_vars(NegotiatorWrites(s) \/ NegotiatorReads(s))
        /\ WF_vars(HasDeadline /\ NegotiatorFails(s))
        /\ WF_vars(Start(s))
        /\ WF_vars(Reads(s))
        /\ WF_vars(Silent(s) /\ IsLost(s))

FairSpec == Spec /\ Fairness

----------------------------------------------------------------------------
(* Properties *)

Ended == {"closed", "lost", "protocol"}

\* Every variable keeps its type; an end has a version once it has run, and its
\* negotiator has a result when it is done.
TypeOK ==
    /\ transport \in Transports /\ ours \in [Sides -> Lists]
    /\ wire \in [Sides -> Seq(Lists \cup {<<>>, PacketPing})]
    /\ neg \in [Sides -> {"off", "write", "read", "done"}]
    /\ result \in [Sides -> Nat \cup {None, Refused, Failed}]
    /\ conn \in [Sides -> {"new", "negotiating", "running", "failed"}
                             \cup Ended]
    /\ version \in [Sides -> Nat \cup {None}]
    /\ \A s \in Sides :
        /\ version[s] # None <=> conn[s] \in {"running"} \cup Ended
        /\ version[s] # None => version[s] = result[s]
        /\ result[s] # None <=> neg[s] = "done"
        /\ neg[s] = "off" <=> conn[s] = "new"

\* Both ends read all of the other's list.
Fits == \A s \in Sides : Len(ours[s]) <= ReadLimit

\* Each end chooses by itself, from the two lists (proto.go:112): whoever runs,
\* runs the highest version that both know, so two that run understand each
\* other, whatever was lost, repeated or overtaken.  Only packets that are cut
\* off at the read's limit can make them differ.
Agreement ==
    transport # "packet" \/ Fits =>
        \A s \in Sides : version[s] # None =>
            /\ version[s] \in Range(ours["client"]) \cap Range(ours["server"])
            /\ \A v \in Range(ours["client"]) \cap Range(ours["server"]) :
                   v <= version[s]

\* An end that finds no version in common, however late, is not left alone by
\* one that did: the other never runs.  (A heartbeat that overtakes the packet
\* with the list is refused as a list.)
RejectsTogether ==
    transport # "packet" /\ Fits =>
        \A s \in Sides : result[s] = Refused => version[Other(s)] = None

\* Nobody takes a heartbeat or what is left of the negotiation for a message:
\* "heartbeats can be represented as empty buffers" (conn.go:427).  The packet
\* Communicators' are not empty, and end the connection.
HeartbeatsKeep ==
    transport # "packet" => \A s \in Sides : conn[s] # "protocol"

\* The end of a negotiation that one side gave up, which closes nothing and
\* tells nobody: the other does not run for ever, and the negotiator goroutine
\* returns, but for the websocket's, whose read has no deadline.
HalfOpenEnds ==
    \A s \in Sides :
        /\ conn[s] = "running" /\ conn[Other(s)] \in {"failed"} \cup Ended
               ~> conn[s] \in Ended
        /\ conn[s] = "failed" /\ HasDeadline ~> neg[s] = "done"

=============================================================================
