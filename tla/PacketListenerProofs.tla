------------------------ MODULE PacketListenerProofs ------------------------
(***************************************************************************)
(* Proofs about PacketListener, for any number of addresses,               *)
(* communicators and packets and any capacities: type correctness, what    *)
(* the map holds, the order of the packets, and what a late Close closes.  *)
(***************************************************************************)
EXTENDS PacketListener, SharedLemmas

----------------------------------------------------------------------------
(* The inductive invariant *)

\* The reader thread has a packet when it sends.
HandInv == rpc = "send" => rhand \in Packets

\* Communicators are made in turn, and one that was not made has got nothing.
MadeInv ==
    \A c \in Comms : comm[c] = "none" =>
        /\ got[c] = <<>> /\ inbox[c] = <<>> /\ c \notin asked
        /\ \A d \in Comms : c < d => comm[d] = "none"

\* No communicator was made of an address while another of it was open.
OnlyOpenInv ==
    \A c, d \in Comms :
        comm[c] = "open" /\ c < d /\ addrOf[d] = addrOf[c] => comm[d] = "none"

\* The packets are in order of arrival from the socket to the communicators.
InHand == IF rpc = "send" THEN rhand.n ELSE arrived + 1
FlowInv ==
    /\ rpc = "send" => rhand.n <= arrived
    /\ \A i \in 1 .. Len(reader) :
        /\ reader[i].n < InHand
        /\ \A j \in 1 .. i - 1 : reader[j].n < reader[i].n
    /\ \A c \in Comms : \A i \in 1 .. Len(Received(c)) :
        /\ Received(c)[i].n < InHand
        /\ \A j \in 1 .. Len(reader) : Received(c)[i].n < reader[j].n

\* What is asked to be closed is the address of a communicator that was made.
CloserInv ==
    \A i \in 1 .. Len(closer) : \E d \in asked : addrOf[d] = closer[i]

ListenerInv ==
    /\ TypeOK /\ HandInv /\ MapHoldsOpen /\ MadeInv /\ OnlyOpenInv
    /\ FlowInv /\ InOrder /\ CloserInv

----------------------------------------------------------------------------
(* Type correctness *)

\* A listener that has not listened yet.
LEMMA ListenerInit == Init => ListenerInv
<1> SUFFICES ASSUME Init PROVE ListenerInv
  OBVIOUS
<1> USE PacketBounds DEF Init
<1>1. TypeOK
  <2>1. (CHOOSE a \in Addrs : TRUE) \in Addrs
    OBVIOUS
  <2>2. arrived \in 0 .. MaxPackets
    OBVIOUS
  <2>3. addrOf \in [Comms -> Addrs]
    BY <2>1
  <2>4. /\ inbox \in [Comms -> Seq(Packets)] /\ got \in [Comms -> Seq(Packets)]
        /\ \A c \in Comms : Len(inbox[c]) <= InboxCap
    OBVIOUS
  <2>5. /\ reader \in Seq(Packets) /\ Len(reader) <= QueueCap
        /\ writer \in Seq(Comms) /\ Len(writer) <= QueueCap
        /\ closer \in Seq(Addrs) /\ Len(closer) <= QueueCap
        /\ accept \in Seq(Comms) /\ Len(accept) <= AcceptCap
    OBVIOUS
  <2> QED
    BY <2>2, <2>3, <2>4, <2>5 DEF TypeOK
<1>2. HandInv /\ MadeInv /\ CloserInv
  BY DEF HandInv, MadeInv, CloserInv
<1>3. MapHoldsOpen /\ OnlyOpenInv
  BY DEF MapHoldsOpen, OnlyOpenInv, Comms, NoComm
<1>4. \A c \in Comms : Received(c) = <<>>
  BY DEF Received
<1>5. FlowInv /\ InOrder
  BY <1>4 DEF FlowInv, InHand, InOrder
<1> QED
  BY <1>1, <1>2, <1>3, <1>5 DEF ListenerInv

\* What is put in a communicator's channel is a packet, if there is room.
LEMMA PutType ==
    ASSUME TypeOK, NEW c \in Comms, NEW p \in Packets, Put(c, p)
    PROVE  /\ inbox' \in [Comms -> Seq(Packets)]
           /\ \A d \in Comms : Len(inbox'[d]) <= InboxCap
           /\ inbox'[c] = inbox[c] \/ inbox'[c] = Append(inbox[c], p)
           /\ \A d \in Comms : d # c => inbox'[d] = inbox[d]
<1>1. /\ inbox \in [Comms -> Seq(Packets)] /\ InboxCap \in Nat
      /\ \A d \in Comms : Len(inbox[d]) <= InboxCap
  BY PacketBounds DEF TypeOK
<1>2. CASE Len(inbox[c]) < InboxCap
  <2>1. inbox' = [inbox EXCEPT ![c] = Append(@, p)]
    BY <1>2 DEF Put
  <2>2. /\ Append(inbox[c], p) \in Seq(Packets)
        /\ Len(Append(inbox[c], p)) = Len(inbox[c]) + 1 /\ Len(inbox[c]) \in Nat
    BY <1>1
  <2> QED
    BY <1>1, <1>2, <2>1, <2>2
<1>3. CASE ~ (Len(inbox[c]) < InboxCap)
  BY <1>1, <1>3 DEF Put
<1> QED
  BY <1>2, <1>3

\* Taking the first of a sequence.
LEMMA TailType ==
    ASSUME NEW S, NEW s \in Seq(S), s # <<>>
    PROVE  /\ Tail(s) \in Seq(S) /\ Len(Tail(s)) = Len(s) - 1 /\ Len(s) \in Nat
           /\ Len(s) > 0 /\ Head(s) \in S /\ Head(s) = s[1]
           /\ \A i \in 1 .. Len(s) - 1 : Tail(s)[i] = s[i + 1]
OBVIOUS

\* Adding one at its end.
LEMMA AppendType ==
    ASSUME NEW S, NEW s \in Seq(S), NEW x \in S
    PROVE  /\ Append(s, x) \in Seq(S) /\ Len(Append(s, x)) = Len(s) + 1
           /\ Len(s) \in Nat /\ Append(s, x)[Len(s) + 1] = x
           /\ \A i \in 1 .. Len(s) : Append(s, x)[i] = s[i]
OBVIOUS

Typed == TypeOK /\ HandInv

\* The types are kept by the listener's own calls and by its reader and writer
\* threads ...
LEMMA TypeThreads ==
    ASSUME Typed,
           \/ Close \/ Accept
           \/ \E a \in Addrs : ReaderReads(a)
           \/ ReaderFails \/ ReaderThread \/ WriterThread
    PROVE  Typed'
<1> USE PacketBounds DEF Typed, TypeOK, HandInv, threadVars, queueVars, commVars,
                         userVars
<1>1. CASE Close
  BY <1>1 DEF Close
<1>2. CASE Accept
  <2>1. accept \in Seq(Comms) /\ accept # <<>> /\ accept' = Tail(accept)
        /\ Len(accept) <= AcceptCap
    BY <1>2 DEF Accept
  <2>2. accept' \in Seq(Comms) /\ Len(accept') = Len(accept) - 1 /\ Len(accept) \in Nat
    BY <2>1, TailType
  <2>3. Len(accept') <= AcceptCap
    BY <2>1, <2>2
  <2> QED
    BY <1>2, <2>2, <2>3 DEF Accept
<1>3. ASSUME NEW a \in Addrs, ReaderReads(a) PROVE Typed'
  <2>1. arrived' \in 0 .. MaxPackets /\ arrived + 1 \in 1 .. MaxPackets
    BY <1>3 DEF ReaderReads
  <2>2. rhand' \in Packets
    BY <1>3, <2>1 DEF ReaderReads, Packets
  <2> QED
    BY <1>3, <2>1, <2>2 DEF ReaderReads
<1>4. CASE ReaderFails
  BY <1>4 DEF ReaderFails
<1>5. CASE ReaderSends
  <2>1. reader' \in Seq(Packets) /\ Len(reader') <= QueueCap
    BY <1>5, AppendType DEF ReaderSends
  <2> QED
    BY <1>5, <2>1 DEF ReaderSends
<1>6. CASE ReaderStops
  BY <1>6 DEF ReaderStops
<1>7. CASE WriterTakes
  <2>1. writer \in Seq(Comms) /\ writer # <<>> /\ Len(writer) <= QueueCap
    BY <1>7 DEF WriterTakes
  <2>2. writer' = Tail(writer) /\ whand' = Head(writer)
    BY <1>7 DEF WriterTakes
  <2>3. /\ Tail(writer) \in Seq(Comms) /\ Head(writer) \in Comms
        /\ Len(Tail(writer)) = Len(writer) - 1 /\ Len(writer) \in Nat
    BY <2>1, TailType
  <2>4. writer' \in Seq(Comms) /\ whand' \in Comms /\ Len(writer') <= QueueCap
    BY <2>1, <2>2, <2>3
  <2> QED
    BY <1>7, <2>4 DEF WriterTakes
<1>8. CASE WriterWrites \/ WriterStops
  BY <1>8 DEF WriterWrites, WriterStops
<1> QED
  BY <1>1, <1>2, <1>3, <1>4, <1>5, <1>6, <1>7, <1>8
     DEF ReaderThread, WriterThread

\* Closing communicators keeps theirs.
LEMMA CommCloseType ==
    ASSUME TypeOK, NEW S, CommClose(S)
    PROVE  /\ comm' \in [Comms -> {"none", "open", "closed"}]
           /\ comms' \in [Addrs -> Comms \cup {NoComm}]
           /\ \A c \in Comms : comm'[c] = IF c \in S THEN "closed" ELSE comm[c]
           /\ \A a \in Addrs :
                  comms'[a] = IF comms[a] \in S THEN NoComm ELSE comms[a]
BY DEF TypeOK, CommClose

\* ... by listen ...
LEMMA TypeListen ==
    ASSUME Typed, Listen \/ \E S \in SUBSET Mapped : CleanupTick(S)
    PROVE  Typed'
<1> USE PacketBounds DEF Typed, TypeOK, HandInv, threadVars, queueVars, commVars,
                         userVars
<1>1. CASE ListenFails \/ Listens \/ ListenReturns
  BY <1>1 DEF ListenFails, Listens, ListenReturns
<1>2. CASE CloserTaken
  BY <1>2, CommCloseType, TailType DEF CloserTaken
<1>3. CASE ListenJoins \/ \E S \in SUBSET Mapped : CleanupTick(S)
  BY <1>3, CommCloseType DEF ListenJoins, CleanupTick
<1>4. CASE PacketKnown
  <2> DEFINE p == Head(reader)
  <2>1. p \in Packets /\ Tail(reader) \in Seq(Packets)
        /\ Len(Tail(reader)) <= QueueCap
    BY <1>4, TailType DEF PacketKnown
  <2>2. comms[p.addr] \in Comms
    BY <1>4, <2>1 DEF PacketKnown, Known, Packets
  <2>3. Put(comms[p.addr], p)
    BY <1>4 DEF PacketKnown
  <2> HIDE DEF p
  <2>4. inbox' \in [Comms -> Seq(Packets)]
        /\ \A d \in Comms : Len(inbox'[d]) <= InboxCap
    BY <2>1, <2>2, <2>3, PutType
  <2> QED
    BY <1>4, <2>1, <2>4 DEF PacketKnown
<1>5. CASE PacketNew
  <2> DEFINE p == Head(reader)
  <2>1. p \in Packets /\ p.addr \in Addrs /\ Tail(reader) \in Seq(Packets)
        /\ Len(Tail(reader)) <= QueueCap
    <3>1. reader \in Seq(Packets) /\ reader # <<>> /\ Len(reader) <= QueueCap
          /\ QueueCap \in Nat
      BY <1>5 DEF PacketNew
    <3>2. Head(reader) \in Packets /\ Tail(reader) \in Seq(Packets)
          /\ Len(Tail(reader)) <= QueueCap
      BY <3>1, TailType
    <3> QED
      BY <3>2 DEF Packets
  <2>2. PICK c \in Comms :
            /\ comm' = [comm EXCEPT ![c] = "open"]
            /\ addrOf' = [addrOf EXCEPT ![c] = p.addr]
            /\ comms' = [comms EXCEPT ![p.addr] = c]
            /\ IF Len(accept) < AcceptCap
               THEN /\ accept' = Append(accept, c)
                    /\ Put(c, p)
                    /\ UNCHANGED lpc
               ELSE lpc' = "join" /\ UNCHANGED <<accept, inbox>>
    BY <1>5 DEF PacketNew
  <2> HIDE DEF p
  <2>3. /\ comm' \in [Comms -> {"none", "open", "closed"}]
        /\ addrOf' \in [Comms -> Addrs]
        /\ comms' \in [Addrs -> Comms \cup {NoComm}]
    BY <2>1, <2>2
  <2>4. /\ accept' \in Seq(Comms) /\ Len(accept') <= AcceptCap
        /\ lpc' \in {"start", "failed", "loop", "join", "done"}
    <3>1. /\ Append(accept, c) \in Seq(Comms) /\ Len(accept) \in Nat
          /\ Len(Append(accept, c)) = Len(accept) + 1 /\ AcceptCap \in Nat
      BY AppendType
    <3>2. /\ accept \in Seq(Comms) /\ Len(accept) <= AcceptCap
          /\ lpc \in {"start", "failed", "loop", "join", "done"}
      OBVIOUS
    <3>3. \/ /\ Len(accept) < AcceptCap /\ accept' = Append(accept, c)
             /\ lpc' = lpc
          \/ lpc' = "join" /\ accept' = accept
      BY <2>2
    <3> HIDE DEF Typed, TypeOK, HandInv
    <3> QED
      BY <3>1, <3>2, <3>3
  <2>5. inbox' \in [Comms -> Seq(Packets)]
        /\ \A d \in Comms : Len(inbox'[d]) <= InboxCap
    BY <2>1, <2>2, PutType
  <2>6. /\ reader' = Tail(reader)
        /\ UNCHANGED <<stop, threadVars, errc, writer, closer, userVars, arrived>>
    BY <1>5 DEF PacketNew
  <2> QED
    BY <2>1, <2>3, <2>4, <2>5, <2>6
<1> QED
  BY <1>1, <1>2, <1>3, <1>4, <1>5 DEF Listen

\* ... and by the connections.
LEMMA TypeConnections ==
    ASSUME Typed,
           \E c \in Comms : ReadMessage(c) \/ WriteMessage(c) \/ CommCloses(c)
    PROVE  Typed'
<1> USE PacketBounds DEF Typed, TypeOK, HandInv, threadVars, queueVars, commVars,
                         userVars
<1>1. ASSUME NEW c \in Comms, ReadMessage(c) PROVE Typed'
  <2>1. /\ Tail(inbox[c]) \in Seq(Packets) /\ Head(inbox[c]) \in Packets
        /\ Len(Tail(inbox[c])) <= InboxCap
    BY <1>1, TailType DEF ReadMessage
  <2>2. Append(got[c], Head(inbox[c])) \in Seq(Packets)
    BY <2>1, AppendType
  <2>3. /\ inbox' \in [Comms -> Seq(Packets)] /\ got' \in [Comms -> Seq(Packets)]
        /\ \A d \in Comms : Len(inbox'[d]) <= InboxCap
    BY <1>1, <2>1, <2>2 DEF ReadMessage
  <2> QED
    BY <1>1, <2>3 DEF ReadMessage
<1>2. ASSUME NEW c \in Comms, WriteMessage(c) PROVE Typed'
  <2>1. writer' \in Seq(Comms) /\ Len(writer') <= QueueCap
    BY <1>2, AppendType DEF WriteMessage
  <2> QED
    BY <1>2, <2>1 DEF WriteMessage
<1>3. ASSUME NEW c \in Comms, CommCloses(c) PROVE Typed'
  <2>1. closer' \in Seq(Addrs) /\ Len(closer') <= QueueCap
    <3>1. addrOf[c] \in Addrs /\ closer \in Seq(Addrs) /\ QueueCap \in Nat
      OBVIOUS
    <3>2. /\ Append(closer, addrOf[c]) \in Seq(Addrs) /\ Len(closer) \in Nat
          /\ Len(Append(closer, addrOf[c])) = Len(closer) + 1
      BY <3>1, AppendType
    <3>3. \/ Len(closer) < QueueCap /\ closer' = Append(closer, addrOf[c])
          \/ closer' = closer
      BY <1>3 DEF CommCloses
    <3>4. Len(closer) <= QueueCap
      OBVIOUS
    <3> HIDE DEF Typed, TypeOK, HandInv
    <3> QED
      BY <3>1, <3>2, <3>3, <3>4
  <2> QED
    BY <1>3, <2>1 DEF CommCloses
<1> QED
  BY <1>1, <1>2, <1>3

----------------------------------------------------------------------------
(* The map and the communicators *)

MapInv == MapHoldsOpen /\ MadeInv /\ OnlyOpenInv /\ CloserInv

\* Closing communicators takes them out of the map, and out of it only.
LEMMA MapCloses ==
    ASSUME Typed, MapInv, NEW S \in SUBSET Comms, CommClose(S),
           \A c \in S : comm[c] # "none",
           UNCHANGED <<addrOf, inbox, got, asked>>,
           closer' \in Seq(Addrs),
           \A i \in 1 .. Len(closer') :
               \E j \in 1 .. Len(closer) : closer'[i] = closer[j]
    PROVE  MapInv'
<1>1. /\ \A c \in Comms : comm'[c] = IF c \in S THEN "closed" ELSE comm[c]
      /\ \A a \in Addrs :
             comms'[a] = IF comms[a] \in S THEN NoComm ELSE comms[a]
  BY CommCloseType DEF Typed
<1>2. MapHoldsOpen'
  BY <1>1 DEF MapInv, MapHoldsOpen, Comms, NoComm
<1>3. MadeInv' /\ OnlyOpenInv'
  BY <1>1 DEF MapInv, MadeInv, OnlyOpenInv
<1>4. CloserInv'
  BY DEF MapInv, CloserInv
<1> QED
  BY <1>2, <1>3, <1>4 DEF MapInv

\* The communicators of the map were made.
LEMMA MappedMade ==
    ASSUME Typed, MapInv
    PROVE  /\ Mapped \in SUBSET Comms
           /\ \A c \in Mapped : comm[c] = "open"
           /\ \A a \in Addrs : {comms[a]} \ {NoComm} \in SUBSET Mapped
BY DEF Typed, TypeOK, MapInv, MapHoldsOpen, Mapped

\* A step that makes none and closes none, and gives only to those of the map.
LEMMA MapStays ==
    ASSUME MapInv, UNCHANGED <<comms, comm, addrOf>>,
           \A c \in Comms : comm[c] = "none" =>
               got'[c] = got[c] /\ inbox'[c] = inbox[c] /\ c \notin asked',
           asked \subseteq asked',
           \A i \in 1 .. Len(closer') : \E d \in asked' : addrOf[d] = closer'[i]
    PROVE  MapInv'
BY DEF MapInv, MapHoldsOpen, MadeInv, OnlyOpenInv, CloserInv

\* A step that leaves the communicators alone.
LEMMA MapUntouched ==
    ASSUME MapInv, UNCHANGED <<comms, comm, addrOf, inbox, got, asked, closer>>
    PROVE  MapInv'
BY DEF MapInv, MapHoldsOpen, MadeInv, OnlyOpenInv, CloserInv

\* What is queued is a packet of an address.
LEMMA FirstPacket ==
    ASSUME Typed, reader # <<>>
    PROVE  /\ Head(reader) \in Packets /\ Head(reader) = reader[1]
           /\ Head(reader).addr \in Addrs /\ Head(reader).n \in Nat
<1>1. reader \in Seq(Packets)
  BY DEF Typed, TypeOK
<1>2. Head(reader) \in Packets /\ Head(reader) = reader[1]
  BY <1>1, TailType
<1> QED
  BY <1>2 DEF Packets

\* The first packet of an address makes the next communicator, and there is no
\* other one of its address in the map.
LEMMA MapNew == ASSUME Typed, MapInv, PacketNew PROVE MapInv'
<1> DEFINE p == Head(reader)
<1>1. p.addr \in Addrs /\ comms[p.addr] = NoComm
  <2>1. reader # <<>> /\ ~Known(p.addr)
    BY DEF PacketNew
  <2> QED
    BY <2>1, FirstPacket DEF Known
<1>2. PICK c \in Comms :
          /\ comm[c] = "none" /\ \A b \in Comms : b < c => comm[b] # "none"
          /\ comm' = [comm EXCEPT ![c] = "open"]
          /\ addrOf' = [addrOf EXCEPT ![c] = p.addr]
          /\ comms' = [comms EXCEPT ![p.addr] = c]
          /\ IF Len(accept) < AcceptCap
             THEN Put(c, p) ELSE UNCHANGED inbox
  BY DEF PacketNew
<1>3. UNCHANGED <<got, asked, closer>>
  BY DEF PacketNew, userVars
<1> HIDE DEF p
<1>4. /\ \A d \in Comms : comm'[d] = IF d = c THEN "open" ELSE comm[d]
      /\ \A d \in Comms : addrOf'[d] = IF d = c THEN p.addr ELSE addrOf[d]
      /\ \A a \in Addrs : comms'[a] = IF a = p.addr THEN c ELSE comms[a]
      /\ \A d \in Comms : d # c => inbox'[d] = inbox[d]
  BY <1>2 DEF Typed, TypeOK, Put
<1>5. MapHoldsOpen'
  <2>1. c # NoComm
    BY DEF Comms, NoComm
  <2>2. ASSUME NEW d \in Comms, NEW a \in Addrs
        PROVE  comms'[a] = d <=> comm'[d] = "open" /\ addrOf'[d] = a
    <3>1. comms[a] = d <=> comm[d] = "open" /\ addrOf[d] = a
      BY DEF MapInv, MapHoldsOpen
    <3>2. comms[p.addr] # d
      BY <1>1 DEF Comms, NoComm
    <3>3. comms[a] # c
      BY <1>2 DEF MapInv, MapHoldsOpen
    <3> QED
      BY <1>4, <3>1, <3>2, <3>3
  <2> QED
    BY <2>2 DEF MapHoldsOpen
<1>6. MadeInv'
  <2> SUFFICES ASSUME NEW d \in Comms, comm'[d] = "none"
               PROVE  /\ got'[d] = <<>> /\ inbox'[d] = <<>> /\ d \notin asked'
                      /\ \A e \in Comms : d < e => comm'[e] = "none"
    BY DEF MadeInv
  <2>1. d # c /\ comm[d] = "none"
    BY <1>4
  <2>2. got[d] = <<>> /\ inbox[d] = <<>> /\ d \notin asked
        /\ \A e \in Comms : d < e => comm[e] = "none"
    BY <2>1 DEF MapInv, MadeInv
  <2>3. ~ (d < c)
    BY <1>2, <2>1
  <2> QED
    BY <1>3, <1>4, <2>1, <2>2, <2>3
<1>7. OnlyOpenInv'
  <2> SUFFICES ASSUME NEW d \in Comms, NEW e \in Comms, comm'[d] = "open",
                      d < e, addrOf'[e] = addrOf'[d]
               PROVE  comm'[e] = "none"
    BY DEF OnlyOpenInv
  <2>1. CASE d = c
    <3>1. e # c /\ comm[e] = "none"
      BY <1>2, <2>1 DEF MapInv, MadeInv, Comms
    <3> QED
      BY <1>4, <3>1
  <2>2. CASE e = c
    <3>1. d # c /\ comm[d] = "open" /\ addrOf[d] = p.addr
      BY <1>4, <2>2 DEF Comms
    <3>2. comms[p.addr] = d
      BY <1>1, <3>1 DEF MapInv, MapHoldsOpen
    <3> QED
      BY <1>1, <3>2 DEF Comms, NoComm
  <2>3. CASE d # c /\ e # c
    BY <1>4, <2>3 DEF MapInv, OnlyOpenInv
  <2> QED
    BY <2>1, <2>2, <2>3
<1>8. CloserInv'
  <2>1. \A d \in asked : d # c
    BY <1>2 DEF MapInv, MadeInv
  <2>2. asked \subseteq Comms
    BY DEF Typed, TypeOK
  <2> QED
    BY <1>3, <1>4, <2>1, <2>2 DEF MapInv, CloserInv
<1> QED
  BY <1>5, <1>6, <1>7, <1>8 DEF MapInv

\* Every step keeps the map.
LEMMA MapStep == ASSUME Typed, MapInv, Next PROVE MapInv'
<1> USE DEF threadVars, queueVars, commVars, userVars
<1>1. CASE \/ Close \/ Accept \/ ReaderFails \/ ReaderThread \/ WriterThread
           \/ \E a \in Addrs : ReaderReads(a)
           \/ ListenFails \/ Listens \/ ListenReturns
  BY <1>1, MapUntouched DEF Close, Accept, ReaderFails, ReaderThread, ReaderSends,
     ReaderStops, WriterThread, WriterTakes, WriterWrites, WriterStops,
     ReaderReads, ListenFails, Listens, ListenReturns
<1>2. CASE CloserTaken
  <2>1. closer \in Seq(Addrs) /\ closer # <<>>
    BY <1>2 DEF CloserTaken, Typed, TypeOK
  <2>2. /\ closer' \in Seq(Addrs) /\ Head(closer) \in Addrs
        /\ \A i \in 1 .. Len(closer') : closer'[i] = closer[i + 1]
                                        /\ i + 1 \in 1 .. Len(closer)
    BY <1>2, <2>1, TailType DEF CloserTaken
  <2>3. {comms[Head(closer)]} \ {NoComm} \in SUBSET Mapped
    BY <2>2, MappedMade
  <2> QED
    BY <1>2, <2>2, <2>3, MappedMade, MapCloses DEF CloserTaken
<1>3. CASE ListenJoins \/ \E S \in SUBSET Mapped : CleanupTick(S)
  <2>1. PICK S \in SUBSET Mapped : CommClose(S)
    BY <1>3 DEF ListenJoins, CleanupTick
  <2>2. UNCHANGED <<addrOf, inbox, got, asked, closer>> /\ closer \in Seq(Addrs)
    BY <1>3 DEF ListenJoins, CleanupTick, Typed, TypeOK
  <2> QED
    BY <2>1, <2>2, MappedMade, MapCloses
<1>4. CASE PacketKnown
  <2>1. Head(reader).addr \in Addrs
    BY <1>4, FirstPacket DEF PacketKnown
  <2>2. comm[comms[Head(reader).addr]] = "open"
    BY <1>4, <2>1 DEF PacketKnown, Known, MapInv, MapHoldsOpen, Typed, TypeOK
  <2>3. \A c \in Comms : comm[c] = "none" => inbox'[c] = inbox[c]
    BY <1>4, <2>2 DEF PacketKnown, Put, Typed, TypeOK
  <2>4. UNCHANGED <<comms, comm, addrOf, got, asked, closer>>
    BY <1>4 DEF PacketKnown
  <2> QED
    BY <2>3, <2>4, MapStays DEF MapInv, MadeInv, CloserInv
<1>5. CASE PacketNew
  BY <1>5, MapNew
<1>6. ASSUME NEW c \in Comms, ReadMessage(c) \/ WriteMessage(c) PROVE MapInv'
  <2>1. comm[c] # "none" /\ UNCHANGED <<comms, comm, addrOf, asked, closer>>
    BY <1>6 DEF ReadMessage, WriteMessage, Accepted
  <2>2. \A d \in Comms : d # c => got'[d] = got[d] /\ inbox'[d] = inbox[d]
    BY <1>6 DEF ReadMessage, WriteMessage, Typed, TypeOK
  <2> QED
    BY <2>1, <2>2, MapStays DEF MapInv, MadeInv, CloserInv
<1>7. ASSUME NEW c \in Comms, CommCloses(c) PROVE MapInv'
  <2>1. comm[c] # "none" /\ UNCHANGED <<comms, comm, addrOf, got, inbox>>
        /\ asked' = asked \cup {c} /\ addrOf[c] \in Addrs
        /\ closer \in Seq(Addrs)
    BY <1>7 DEF CommCloses, Accepted, Typed, TypeOK
  <2>2. ASSUME NEW i \in 1 .. Len(closer')
        PROVE  \E d \in asked' : addrOf[d] = closer'[i]
    <3>1. CASE closer' = closer
      BY <2>1, <2>2, <3>1 DEF MapInv, CloserInv
    <3>2. CASE closer' = Append(closer, addrOf[c])
      <4>1. i \in 1 .. Len(closer) \/ i = Len(closer) + 1
        BY <2>1, <3>2, AppendType
      <4> QED
        BY <2>1, <3>2, <4>1, AppendType DEF MapInv, CloserInv
    <3> QED
      BY <1>7, <3>1, <3>2 DEF CommCloses
  <2> QED
    BY <2>1, <2>2, MapStays DEF MapInv, MadeInv
<1> QED
  BY <1>1, <1>2, <1>3, <1>4, <1>5, <1>6, <1>7 DEF Next, Listen

----------------------------------------------------------------------------
(* The order of the packets *)

\* A read moves a packet from the channel to what was read: what a communicator
\* was given is the same.
LEMMA ReadKeeps ==
    ASSUME NEW S, NEW s \in Seq(S), NEW t \in Seq(S), t # <<>>
    PROVE  Append(s, Head(t)) \o Tail(t) = s \o t
<1> DEFINE a == Append(s, Head(t))
           b == Tail(t)
<1>1. a \in Seq(S) /\ Len(a) = Len(s) + 1 /\ a[Len(s) + 1] = t[1]
      /\ \A i \in 1 .. Len(s) : a[i] = s[i]
  BY AppendType, TailType
<1>2. b \in Seq(S) /\ Len(b) = Len(t) - 1
      /\ \A i \in 1 .. Len(t) - 1 : b[i] = t[i + 1]
  BY TailType
<1>3. Len(s) \in Nat /\ Len(t) \in Nat /\ Len(t) > 0
  BY TailType
<1> HIDE DEF a, b
<1>4. /\ a \o b \in Seq(S) /\ Len(a \o b) = Len(s) + Len(t)
      /\ \A j \in 1 .. Len(s) + Len(t) :
            (a \o b)[j] = IF j <= Len(s) + 1 THEN a[j] ELSE b[j - (Len(s) + 1)]
  <2>1. /\ a \o b \in Seq(S) /\ Len(a \o b) = Len(a) + Len(b)
        /\ \A j \in 1 .. Len(a) + Len(b) :
              (a \o b)[j] = IF j <= Len(a) THEN a[j] ELSE b[j - Len(a)]
    BY <1>1, <1>2, ConcatFacts
  <2>2. Len(a) + Len(b) = Len(s) + Len(t)
    BY <1>1, <1>2, <1>3
  <2> QED
    BY <1>1, <2>1, <2>2
<1>5. /\ s \o t \in Seq(S) /\ Len(s \o t) = Len(s) + Len(t)
      /\ \A j \in 1 .. Len(s) + Len(t) :
            (s \o t)[j] = IF j <= Len(s) THEN s[j] ELSE t[j - Len(s)]
  BY ConcatFacts
<1>6. ASSUME NEW j \in 1 .. Len(s) + Len(t) PROVE (a \o b)[j] = (s \o t)[j]
  <2>1. CASE j <= Len(s)
    <3>1. j \in 1 .. Len(s) /\ j <= Len(s) + 1
      BY <1>3, <2>1
    <3>2. (a \o b)[j] = a[j] /\ (s \o t)[j] = s[j]
      BY <1>4, <1>5, <2>1, <3>1
    <3> QED
      BY <1>1, <3>1, <3>2
  <2>2. CASE j = Len(s) + 1
    <3>1. j <= Len(s) + 1 /\ ~ (j <= Len(s)) /\ j - Len(s) = 1
      BY <1>3, <2>2
    <3>2. (a \o b)[j] = a[j] /\ (s \o t)[j] = t[j - Len(s)]
      BY <1>4, <1>5, <3>1
    <3> QED
      BY <1>1, <2>2, <3>1, <3>2
  <2>3. CASE j > Len(s) + 1
    <3>1. j - (Len(s) + 1) \in 1 .. Len(t) - 1
          /\ (j - (Len(s) + 1)) + 1 = j - Len(s)
          /\ ~ (j <= Len(s)) /\ ~ (j <= Len(s) + 1)
      BY <1>3, <2>3
    <3>2. (a \o b)[j] = b[j - (Len(s) + 1)] /\ (s \o t)[j] = t[j - Len(s)]
      BY <1>4, <1>5, <3>1
    <3>3. b[j - (Len(s) + 1)] = t[(j - (Len(s) + 1)) + 1]
      BY <1>2, <3>1
    <3> QED
      BY <3>1, <3>2, <3>3
  <2>4. j <= Len(s) \/ j = Len(s) + 1 \/ j > Len(s) + 1
    BY <1>3
  <2> QED
    BY <2>1, <2>2, <2>3, <2>4
<1> QED
  BY <1>4, <1>5, <1>6 DEF a, b

\* What is put in the channel comes last.
LEMMA PutComesLast ==
    ASSUME NEW S, NEW s \in Seq(S), NEW t \in Seq(S), NEW x \in S
    PROVE  /\ Len(s \o Append(t, x)) = Len(s \o t) + 1 /\ Len(s \o t) \in Nat
           /\ (s \o Append(t, x))[Len(s \o t) + 1] = x
           /\ \A i \in 1 .. Len(s \o t) : (s \o Append(t, x))[i] = (s \o t)[i]
<1> DEFINE u == Append(t, x)
<1>1. u \in Seq(S) /\ Len(u) = Len(t) + 1 /\ u[Len(t) + 1] = x
      /\ \A i \in 1 .. Len(t) : u[i] = t[i]
  BY AppendType
<1>2. Len(s) \in Nat /\ Len(t) \in Nat
  OBVIOUS
<1> HIDE DEF u
<1>3. /\ Len(s \o u) = Len(s) + Len(t) + 1
      /\ \A j \in 1 .. Len(s) + Len(t) + 1 :
            (s \o u)[j] = IF j <= Len(s) THEN s[j] ELSE u[j - Len(s)]
  <2>1. /\ Len(s \o u) = Len(s) + Len(u)
        /\ \A j \in 1 .. Len(s) + Len(u) :
              (s \o u)[j] = IF j <= Len(s) THEN s[j] ELSE u[j - Len(s)]
    BY <1>1, ConcatFacts
  <2>2. Len(s) + Len(u) = Len(s) + Len(t) + 1
    BY <1>1, <1>2
  <2> QED
    BY <2>1, <2>2
<1>4. /\ Len(s \o t) = Len(s) + Len(t)
      /\ \A j \in 1 .. Len(s) + Len(t) :
            (s \o t)[j] = IF j <= Len(s) THEN s[j] ELSE t[j - Len(s)]
  BY ConcatFacts
<1>5. (s \o u)[Len(s) + Len(t) + 1] = x
  BY <1>1, <1>2, <1>3
<1>6. ASSUME NEW i \in 1 .. Len(s) + Len(t) PROVE (s \o u)[i] = (s \o t)[i]
  <2>1. CASE i <= Len(s)
    BY <1>2, <1>3, <1>4, <2>1
  <2>2. CASE ~ (i <= Len(s))
    <3>1. i - Len(s) \in 1 .. Len(t) /\ i \in 1 .. Len(s) + Len(t) + 1
      BY <1>2, <2>2
    <3> QED
      BY <1>1, <1>3, <1>4, <2>2, <3>1
  <2> QED
    BY <2>1, <2>2
<1> QED
  BY <1>2, <1>3, <1>4, <1>5, <1>6 DEF u

\* What a communicator was given are packets.
LEMMA ReceivedType ==
    ASSUME Typed, NEW c \in Comms
    PROVE  /\ Received(c) \in Seq(Packets) /\ Len(Received(c)) \in Nat
           /\ DOMAIN Received(c) = 1 .. Len(Received(c))
           /\ \A i \in 1 .. Len(Received(c)) :
                  Received(c)[i].n \in Nat /\ Received(c)[i].addr \in Addrs
<1>1. got[c] \in Seq(Packets) /\ inbox[c] \in Seq(Packets)
  BY DEF Typed, TypeOK
<1>2. Received(c) \in Seq(Packets)
  BY <1>1, ConcatFacts DEF Received
<1>3. \A i \in 1 .. Len(Received(c)) : Received(c)[i] \in Packets
  BY <1>2
<1> QED
  BY <1>2, <1>3 DEF Packets

\* The queue's packets.
LEMMA ReaderType ==
    ASSUME Typed
    PROVE  /\ reader \in Seq(Packets) /\ Len(reader) \in Nat /\ arrived \in Nat
           /\ \A i \in 1 .. Len(reader) : reader[i].n \in Nat
           /\ InHand \in Nat
<1>1. reader \in Seq(Packets) /\ arrived \in Nat
  BY PacketBounds DEF Typed, TypeOK
<1>2. \A i \in 1 .. Len(reader) : reader[i] \in Packets
  BY <1>1
<1>3. rpc = "send" => rhand \in Packets
  BY DEF Typed, HandInv
<1> QED
  BY <1>1, <1>2, <1>3 DEF InHand, Packets

\* What comes next has a number, before a step and after it.
LEMMA NextInHand == ASSUME Typed' PROVE InHand' \in Nat
<1>1. arrived' \in Nat
  BY PacketBounds DEF Typed, TypeOK
<1>2. rpc' = "send" => rhand'.n \in Nat
  BY DEF Typed, HandInv, Packets
<1>3. arrived' + 1 \in Nat
  <2>1. \A k \in Nat : k + 1 \in Nat
    OBVIOUS
  <2> QED
    BY <1>1, <2>1
<1> QED
  BY <1>2, <1>3 DEF InHand

Flow == FlowInv /\ InOrder

\* A step that gives nothing to a communicator and queues nothing.
LEMMA FlowStays ==
    ASSUME Typed, Typed', Flow, \A c \in Comms : Received(c)' = Received(c),
           UNCHANGED addrOf, UNCHANGED reader,
           InHand' >= InHand, rpc' = "send" => rhand'.n <= arrived'
    PROVE  Flow'
<1>1. \A c \in Comms : /\ DOMAIN Received(c) = 1 .. Len(Received(c))
                       /\ \A i \in 1 .. Len(Received(c)) :
                              Received(c)[i].n \in Nat
  BY ReceivedType
<1>2. InHand \in Nat /\ \A i \in 1 .. Len(reader) : reader[i].n \in Nat
  BY ReaderType
<1>3. InHand' \in Nat
  BY NextInHand
<1>4. FlowInv'
  BY <1>1, <1>2, <1>3 DEF Flow, FlowInv
<1>5. InOrder'
  BY DEF Flow, InOrder
<1> QED
  BY <1>4, <1>5 DEF Flow

\* A packet that is read from the socket comes last in the queue.
LEMMA FlowSends == ASSUME Typed, Flow, ReaderSends PROVE Flow'
<1>1. /\ rpc = "send" /\ rpc' = "read" /\ reader' = Append(reader, rhand)
      /\ arrived' = arrived /\ UNCHANGED <<got, inbox, addrOf>>
  BY DEF ReaderSends, commVars, userVars
<1>2. /\ reader \in Seq(Packets) /\ Len(reader) \in Nat /\ arrived \in Nat
      /\ \A i \in 1 .. Len(reader) : reader[i].n \in Nat
  BY ReaderType
<1>3. rhand \in Packets /\ rhand.n \in Nat /\ rhand.n <= arrived
  BY <1>1 DEF Typed, HandInv, Packets, Flow, FlowInv
<1>4. InHand = rhand.n /\ InHand' = arrived + 1
  BY <1>1 DEF InHand
<1>5. /\ Len(reader') = Len(reader) + 1 /\ reader'[Len(reader) + 1] = rhand
      /\ \A i \in 1 .. Len(reader) : reader'[i] = reader[i]
  BY <1>1, <1>2, <1>3, AppendType
<1>6. \A c \in Comms : Received(c)' = Received(c)
  BY <1>1 DEF Received
<1>7. \A c \in Comms : /\ DOMAIN Received(c) = 1 .. Len(Received(c))
                       /\ \A i \in 1 .. Len(Received(c)) :
                              Received(c)[i].n \in Nat
  BY ReceivedType
<1>8. ASSUME NEW i \in 1 .. Len(reader')
      PROVE  /\ reader'[i].n < InHand'
             /\ \A j \in 1 .. i - 1 : reader'[j].n < reader'[i].n
  <2>1. CASE i \in 1 .. Len(reader)
    <3>1. reader[i].n < rhand.n /\ \A j \in 1 .. i - 1 : reader[j].n < reader[i].n
      BY <1>4, <2>1 DEF Flow, FlowInv
    <3>2. \A j \in 1 .. i - 1 : j \in 1 .. Len(reader)
      BY <1>2, <2>1
    <3>3. reader'[i] = reader[i] /\ \A j \in 1 .. i - 1 : reader'[j] = reader[j]
      BY <1>5, <2>1, <3>2
    <3>4. reader[i].n \in Nat
      BY <1>2, <2>1
    <3>5. reader[i].n < arrived + 1
      BY <1>2, <1>3, <3>1, <3>4
    <3> QED
      BY <1>4, <3>1, <3>3, <3>5
  <2>2. CASE i = Len(reader) + 1
    <3>1. \A j \in 1 .. Len(reader) : reader[j].n < rhand.n
      BY <1>4 DEF Flow, FlowInv
    <3>2. i - 1 = Len(reader)
      BY <1>2, <2>2
    <3> QED
      BY <1>2, <1>3, <1>4, <1>5, <2>2, <3>1, <3>2
  <2> QED
    BY <1>2, <1>5, <2>1, <2>2
<1>9. ASSUME NEW c \in Comms, NEW i \in 1 .. Len(Received(c))
      PROVE  /\ Received(c)[i].n < InHand'
             /\ \A j \in 1 .. Len(reader') : Received(c)[i].n < reader'[j].n
  <2>1. Received(c)[i].n < rhand.n
        /\ \A j \in 1 .. Len(reader) : Received(c)[i].n < reader[j].n
    BY <1>4 DEF Flow, FlowInv
  <2>2. \A j \in 1 .. Len(reader') : j \in 1 .. Len(reader) \/ j = Len(reader) + 1
    BY <1>2, <1>5
  <2>3. Received(c)[i].n \in Nat
    BY <1>7
  <2>4. ASSUME NEW j \in 1 .. Len(reader')
        PROVE  Received(c)[i].n < reader'[j].n
    <3>1. CASE j \in 1 .. Len(reader)
      <4>1. reader'[j] = reader[j]
        BY <1>5, <3>1
      <4> QED
        BY <2>1, <3>1, <4>1
    <3>2. CASE j = Len(reader) + 1
      BY <1>5, <2>1, <3>2
    <3> QED
      BY <2>2, <3>1, <3>2
  <2> QED
    BY <1>2, <1>3, <1>4, <2>1, <2>3, <2>4
<1>10. FlowInv'
  BY <1>1, <1>6, <1>8, <1>9 DEF FlowInv
<1>11. InOrder'
  BY <1>1, <1>6 DEF Flow, InOrder
<1> QED
  BY <1>10, <1>11 DEF Flow

\* The first packet of the queue is given to the communicator of its address that
\* is in the map, or is dropped.
LEMMA FlowGives ==
    ASSUME Typed, MapInv, MapInv', Flow, reader # <<>>, reader' = Tail(reader),
           NEW c \in Comms, comm'[c] = "open", addrOf'[c] = Head(reader).addr,
           \A d \in Comms : Received(d) # <<>> => addrOf'[d] = addrOf[d],
           got' = got, \A d \in Comms : d # c => inbox'[d] = inbox[d],
           \/ inbox'[c] = inbox[c]
           \/ inbox'[c] = Append(inbox[c], Head(reader)),
           UNCHANGED <<rpc, rhand, arrived>>
    PROVE  Flow'
<1> DEFINE p == Head(reader)
<1>1. /\ p \in Packets /\ p = reader[1] /\ p.addr \in Addrs /\ p.n \in Nat
  BY FirstPacket
<1>2. /\ reader \in Seq(Packets) /\ Len(reader) \in Nat /\ arrived \in Nat
      /\ \A i \in 1 .. Len(reader) : reader[i].n \in Nat
      /\ InHand \in Nat /\ InHand' = InHand
  BY ReaderType DEF InHand
<1>3. /\ Len(reader') = Len(reader) - 1 /\ Len(reader) > 0
      /\ \A i \in 1 .. Len(reader') : /\ reader'[i] = reader[i + 1]
                                      /\ i + 1 \in 1 .. Len(reader)
  BY <1>2, TailType
<1>4. \A d \in Comms : /\ DOMAIN Received(d) = 1 .. Len(Received(d))
                       /\ Len(Received(d)) \in Nat
                       /\ Received(d) \in Seq(Packets)
                       /\ \A i \in 1 .. Len(Received(d)) :
                              Received(d)[i].n \in Nat
  BY ReceivedType
<1>5. \A d \in Comms : d # c => Received(d)' = Received(d)
  BY DEF Received
<1>6. \/ Received(c)' = Received(c)
      \/ /\ Len(Received(c)') = Len(Received(c)) + 1
         /\ Received(c)'[Len(Received(c)) + 1] = p
         /\ \A i \in 1 .. Len(Received(c)) : Received(c)'[i] = Received(c)[i]
         /\ DOMAIN Received(c)' = 1 .. Len(Received(c)')
  <2>1. CASE inbox'[c] = inbox[c]
    BY <2>1 DEF Received
  <2>2. CASE inbox'[c] = Append(inbox[c], Head(reader))
    <3>1. got[c] \in Seq(Packets) /\ inbox[c] \in Seq(Packets)
          /\ Append(inbox[c], p) \in Seq(Packets)
      BY <1>1, AppendType DEF Typed, TypeOK
    <3>2. Received(c)' = got[c] \o Append(inbox[c], p)
      BY <2>2 DEF Received
    <3>3. DOMAIN (got[c] \o Append(inbox[c], p))
              = 1 .. Len(got[c] \o Append(inbox[c], p))
      BY <3>1, ConcatFacts
    <3> HIDE DEF p
    <3>4. /\ Len(got[c] \o Append(inbox[c], p)) = Len(got[c] \o inbox[c]) + 1
          /\ (got[c] \o Append(inbox[c], p))[Len(got[c] \o inbox[c]) + 1] = p
          /\ \A i \in 1 .. Len(got[c] \o inbox[c]) :
                (got[c] \o Append(inbox[c], p))[i] = (got[c] \o inbox[c])[i]
      <4>1. \A s, t \in Seq(Packets), x \in Packets :
                /\ Len(s \o Append(t, x)) = Len(s \o t) + 1
                /\ (s \o Append(t, x))[Len(s \o t) + 1] = x
                /\ \A i \in 1 .. Len(s \o t) :
                      (s \o Append(t, x))[i] = (s \o t)[i]
        BY PutComesLast
      <4> QED
        BY <1>1, <3>1, <4>1
    <3>5. Received(c) = got[c] \o inbox[c]
      BY DEF Received
    <3> QED
      BY <3>2, <3>3, <3>4, <3>5
  <2> QED
    BY <2>1, <2>2
<1> HIDE DEF p
<1>7. \A d \in Comms : \A i \in 1 .. Len(Received(d)) : Received(d)[i].n < p.n
  <2>1. 1 \in 1 .. Len(reader)
    BY <1>2, <1>3
  <2> QED
    BY <1>1, <2>1 DEF Flow, FlowInv
<1>8. /\ p.n < InHand
      /\ \A i \in 1 .. Len(reader') : p.n < reader'[i].n
  <2>1. 1 \in 1 .. Len(reader) /\ p.n < InHand
    BY <1>1, <1>2, <1>3 DEF Flow, FlowInv
  <2>2. ASSUME NEW i \in 1 .. Len(reader') PROVE p.n < reader'[i].n
    <3>1. i + 1 \in 1 .. Len(reader) /\ 1 \in 1 .. (i + 1) - 1
          /\ reader'[i] = reader[i + 1]
      BY <1>2, <1>3
    <3>2. reader[1].n < reader[i + 1].n
      BY <3>1 DEF Flow, FlowInv
    <3> QED
      BY <1>1, <3>1, <3>2
  <2> QED
    BY <2>1, <2>2
<1>9. ASSUME NEW d \in Comms, NEW i \in 1 .. Len(Received(d)')
      PROVE  \/ /\ i \in 1 .. Len(Received(d))
                /\ Received(d)'[i] = Received(d)[i]
             \/ /\ d = c /\ i = Len(Received(c)) + 1 /\ Received(d)'[i] = p
                /\ \A j \in 1 .. i - 1 : j \in 1 .. Len(Received(c))
  <2>1. CASE Received(d)' = Received(d)
    BY <2>1
  <2>2. CASE Received(d)' # Received(d)
    <3>1. d = c
      BY <1>5, <2>2
    <3>2. i \in 1 .. Len(Received(c)) \/ i = Len(Received(c)) + 1
      BY <1>4, <1>6, <2>2, <3>1
    <3> QED
      BY <1>4, <1>6, <2>2, <3>1, <3>2
  <2> QED
    BY <2>1, <2>2
<1>10. FlowInv'
  <2>1. ASSUME NEW i \in 1 .. Len(reader')
        PROVE  /\ reader'[i].n < InHand'
               /\ \A j \in 1 .. i - 1 : reader'[j].n < reader'[i].n
    <3>1. i + 1 \in 1 .. Len(reader) /\ reader'[i] = reader[i + 1]
      BY <1>3
    <3>2. reader[i + 1].n < InHand
      BY <3>1 DEF Flow, FlowInv
    <3>3. ASSUME NEW j \in 1 .. i - 1 PROVE reader'[j].n < reader'[i].n
      <4>1. j \in 1 .. Len(reader') /\ j + 1 \in 1 .. (i + 1) - 1
        BY <1>2, <1>3
      <4> QED
        BY <1>3, <3>1, <4>1 DEF Flow, FlowInv
    <3> QED
      BY <1>2, <3>1, <3>2, <3>3
  <2>2. ASSUME NEW d \in Comms, NEW i \in 1 .. Len(Received(d)')
        PROVE  /\ Received(d)'[i].n < InHand'
               /\ \A j \in 1 .. Len(reader') : Received(d)'[i].n < reader'[j].n
    <3>1. CASE i \in 1 .. Len(Received(d)) /\ Received(d)'[i] = Received(d)[i]
      BY <1>2, <1>3, <3>1 DEF Flow, FlowInv
    <3>2. CASE Received(d)'[i] = p
      BY <1>2, <1>8, <3>2
    <3> QED
      BY <1>9, <3>1, <3>2
  <2> QED
    BY <2>1, <2>2 DEF Flow, FlowInv
<1>11. InOrder'
  <2>1. ASSUME NEW d \in Comms, NEW i \in DOMAIN Received(d)'
        PROVE  /\ Received(d)'[i].addr = addrOf'[d]
               /\ \A j \in 1 .. (i - 1) :
                      Received(d)'[j].n < Received(d)'[i].n
    <3>1. i \in 1 .. Len(Received(d)')
      BY <1>4, <1>5, <1>6
    <3>2. CASE /\ i \in 1 .. Len(Received(d))
               /\ Received(d)'[i] = Received(d)[i]
      <4>1. addrOf'[d] = addrOf[d]
        BY <3>2
      <4>2. \A j \in 1 .. (i - 1) : Received(d)'[j] = Received(d)[j]
        <5>1. \A j \in 1 .. (i - 1) : j \in 1 .. Len(Received(d))
          BY <1>4, <3>2
        <5> QED
          BY <1>5, <1>6, <5>1
      <4> QED
        BY <1>4, <3>2, <4>1, <4>2 DEF Flow, InOrder
    <3>3. CASE /\ d = c /\ Received(d)'[i] = p
               /\ i = Len(Received(c)) + 1
               /\ \A j \in 1 .. i - 1 : j \in 1 .. Len(Received(c))
      <4>1. \A j \in 1 .. (i - 1) : Received(d)'[j] = Received(d)[j]
        BY <1>6, <3>3
      <4> QED
        BY <1>7, <3>3, <4>1 DEF p
    <3> QED
      BY <1>9, <3>1, <3>2, <3>3
  <2>2. ASSUME NEW d \in Comms, NEW e \in Comms, d < e,
               addrOf'[d] = addrOf'[e],
               NEW i \in DOMAIN Received(d)', NEW j \in DOMAIN Received(e)'
        PROVE  Received(d)'[i].n < Received(e)'[j].n
    <3>1. i \in 1 .. Len(Received(d)') /\ j \in 1 .. Len(Received(e)')
      BY <1>4, <1>5, <1>6
    <3>2. d # c
      <4>1. SUFFICES ASSUME d = c PROVE FALSE
        OBVIOUS
      <4>2. comm'[e] = "none"
        BY <2>2, <4>1 DEF MapInv, OnlyOpenInv
      <4>3. Received(e)' = <<>>
        BY <4>2 DEF MapInv, MadeInv, Received
      <4> QED
        BY <3>1, <4>3
    <3>3. i \in 1 .. Len(Received(d)) /\ Received(d)'[i] = Received(d)[i]
      BY <1>9, <3>1, <3>2
    <3>4. CASE j \in 1 .. Len(Received(e)) /\ Received(e)'[j] = Received(e)[j]
      <4>1. addrOf'[d] = addrOf[d] /\ addrOf'[e] = addrOf[e]
        BY <3>3, <3>4
      <4>2. i \in DOMAIN Received(d) /\ j \in DOMAIN Received(e)
        BY <1>4, <3>3, <3>4
      <4>3. addrOf[d] = addrOf[e]
        BY <2>2, <4>1
      <4>4. Received(d)[i].n < Received(e)[j].n
        BY <2>2, <4>2, <4>3 DEF Flow, InOrder
      <4> QED
        BY <3>3, <3>4, <4>4
    <3>5. CASE Received(e)'[j] = p
      BY <1>7, <3>3, <3>5
    <3> QED
      BY <1>9, <3>1, <3>4, <3>5
  <2> QED
    BY <2>1, <2>2 DEF InOrder
<1> QED
  BY <1>10, <1>11 DEF Flow

\* Every step keeps the packets' order.
LEMMA FlowStep ==
    ASSUME Typed, Typed', MapInv, MapInv', Flow, Next PROVE Flow'
<1> USE DEF threadVars, queueVars, commVars, userVars
<1>1. arrived \in Nat /\ InHand \in Nat
  BY ReaderType
<1>2. CASE \/ Close \/ Accept \/ ReaderFails \/ ReaderStops \/ WriterThread
           \/ ListenFails \/ Listens \/ ListenReturns \/ CloserTaken \/ ListenJoins
           \/ \E S \in SUBSET Mapped : CleanupTick(S)
           \/ \E c \in Comms : WriteMessage(c) \/ CommCloses(c)
  <2>1. /\ UNCHANGED <<got, inbox, addrOf, reader, arrived>>
        /\ \/ UNCHANGED <<rpc, rhand>>
           \/ rpc' # "send"
    BY <1>2 DEF Close, Accept, ReaderFails, ReaderStops, WriterThread, WriterTakes,
       WriterWrites, WriterStops, ListenFails, Listens, ListenReturns, CloserTaken,
       ListenJoins, CleanupTick, WriteMessage, CommCloses
  <2>2. InHand' >= InHand /\ (rpc' = "send" => rhand'.n <= arrived')
    <3>1. rpc = "send" => rhand.n <= arrived /\ rhand.n \in Nat
      BY DEF Flow, FlowInv, Typed, HandInv, Packets
    <3>2. CASE UNCHANGED <<rpc, rhand>>
      BY <1>1, <2>1, <3>1, <3>2 DEF InHand
    <3>3. CASE rpc' # "send"
      <4>1. InHand' = arrived + 1
        BY <2>1, <3>3 DEF InHand
      <4>2. InHand <= arrived + 1
        BY <1>1, <3>1 DEF InHand
      <4> QED
        BY <1>1, <3>3, <4>1, <4>2
    <3> QED
      BY <2>1, <3>2, <3>3
  <2>3. \A c \in Comms : Received(c)' = Received(c)
    BY <2>1 DEF Received
  <2> QED
    BY <2>1, <2>2, <2>3, FlowStays
<1>3. ASSUME NEW a \in Addrs, ReaderReads(a) PROVE Flow'
  <2>1. /\ UNCHANGED <<got, inbox, addrOf, reader>> /\ arrived' = arrived + 1
        /\ rpc = "read" /\ rpc' = "send" /\ rhand'.n = arrived + 1
    BY <1>3 DEF ReaderReads
  <2>2. InHand' = InHand
    BY <2>1 DEF InHand
  <2>3. \A c \in Comms : Received(c)' = Received(c)
    BY <2>1 DEF Received
  <2> QED
    BY <1>1, <2>1, <2>2, <2>3, FlowStays
<1>4. CASE ReaderSends
  BY <1>4, FlowSends
<1>5. CASE PacketKnown
  <2> DEFINE c == comms[Head(reader).addr]
  <2>1. /\ reader # <<>> /\ reader' = Tail(reader) /\ got' = got
        /\ UNCHANGED <<rpc, rhand, arrived, comm, addrOf>>
        /\ c # NoComm /\ Put(c, Head(reader))
    BY <1>5 DEF PacketKnown, Known
  <2>2. Head(reader) \in Packets /\ Head(reader).addr \in Addrs
    BY <2>1, FirstPacket
  <2>3. c \in Comms
    BY <2>1, <2>2 DEF Typed, TypeOK
  <2>4. comm[c] = "open" /\ addrOf[c] = Head(reader).addr
    BY <2>2, <2>3 DEF MapInv, MapHoldsOpen
  <2>5. /\ inbox'[c] = inbox[c] \/ inbox'[c] = Append(inbox[c], Head(reader))
        /\ \A d \in Comms : d # c => inbox'[d] = inbox[d]
    BY <2>1, <2>2, <2>3, PutType DEF Typed
  <2> HIDE DEF c
  <2> QED
    BY <2>1, <2>3, <2>4, <2>5, FlowGives
<1>6. CASE PacketNew
  <2>1. /\ reader # <<>> /\ reader' = Tail(reader) /\ got' = got
        /\ UNCHANGED <<rpc, rhand, arrived>>
    BY <1>6 DEF PacketNew
  <2>2. PICK c \in Comms :
            /\ comm[c] = "none"
            /\ comm' = [comm EXCEPT ![c] = "open"]
            /\ addrOf' = [addrOf EXCEPT ![c] = Head(reader).addr]
            /\ IF Len(accept) < AcceptCap
               THEN Put(c, Head(reader)) ELSE UNCHANGED inbox
    BY <1>6 DEF PacketNew
  <2>3. Head(reader) \in Packets
    BY <2>1, FirstPacket
  <2>4. /\ comm'[c] = "open" /\ addrOf'[c] = Head(reader).addr
        /\ \A d \in Comms : d # c => addrOf'[d] = addrOf[d]
    BY <2>2 DEF Typed, TypeOK
  <2>5. Received(c) = <<>>
    BY <2>2 DEF MapInv, MadeInv, Received
  <2>6. /\ inbox'[c] = inbox[c] \/ inbox'[c] = Append(inbox[c], Head(reader))
        /\ \A d \in Comms : d # c => inbox'[d] = inbox[d]
    BY <2>2, <2>3, PutType DEF Typed
  <2>7. \A d \in Comms : Received(d) # <<>> => addrOf'[d] = addrOf[d]
    BY <2>4, <2>5
  <2> QED
    BY <2>1, <2>4, <2>6, <2>7, FlowGives
<1>7. ASSUME NEW c \in Comms, ReadMessage(c) PROVE Flow'
  <2>1. /\ UNCHANGED <<addrOf, reader, rpc, rhand, arrived>> /\ inbox[c] # <<>>
        /\ inbox' = [inbox EXCEPT ![c] = Tail(@)]
        /\ got' = [got EXCEPT ![c] = Append(@, Head(inbox[c]))]
    BY <1>7 DEF ReadMessage
  <2>2. inbox \in [Comms -> Seq(Packets)] /\ got \in [Comms -> Seq(Packets)]
    BY DEF Typed, TypeOK
  <2>3. ASSUME NEW d \in Comms PROVE Received(d)' = Received(d)
    <3>1. CASE d # c
      BY <2>1, <2>2, <3>1 DEF Received
    <3>2. CASE d = c
      <4>1. Received(d)' = Append(got[c], Head(inbox[c])) \o Tail(inbox[c])
        BY <2>1, <2>2, <3>2 DEF Received
      <4>2. \A s, t \in Seq(Packets) :
                t # <<>> => Append(s, Head(t)) \o Tail(t) = s \o t
        BY ReadKeeps
      <4>3. Append(got[c], Head(inbox[c])) \o Tail(inbox[c]) = got[c] \o inbox[c]
        BY <2>1, <2>2, <4>2
      <4> QED
        BY <3>2, <4>1, <4>3 DEF Received
    <3> QED
      BY <3>1, <3>2
  <2>4. InHand' = InHand /\ (rpc' = "send" => rhand'.n <= arrived')
    BY <2>1 DEF InHand, Flow, FlowInv
  <2> QED
    BY <1>1, <2>1, <2>3, <2>4, FlowStays
<1> QED
  BY <1>2, <1>3, <1>4, <1>5, <1>6, <1>7 DEF Next, Listen, ReaderThread

----------------------------------------------------------------------------
(* The theorems *)

\* No step leaves the inductive invariant.
LEMMA ListenerStep == ASSUME ListenerInv, [Next]_vars PROVE ListenerInv'
<1>1. Typed /\ MapInv /\ Flow
  BY DEF ListenerInv, Typed, MapInv, Flow
<1>2. CASE Next
  <2>1. Typed'
    BY <1>1, <1>2, TypeThreads, TypeListen, TypeConnections DEF Next
  <2>2. MapInv'
    BY <1>1, <1>2, MapStep
  <2>3. Flow'
    BY <1>1, <1>2, <2>1, <2>2, FlowStep
  <2> QED
    BY <2>1, <2>2, <2>3 DEF ListenerInv, Typed, MapInv, Flow
<1>3. CASE UNCHANGED vars
  <2> USE <1>3 DEF vars, threadVars, queueVars, commVars, userVars
  <2>1. Typed'
    BY <1>1 DEF Typed, TypeOK, HandInv
  <2>2. MapInv'
    BY <1>1, MapUntouched
  <2>3. Flow'
    <3>1. \A c \in Comms : Received(c)' = Received(c)
      BY DEF Received
    <3>2. InHand' = InHand /\ UNCHANGED <<addrOf, reader, rpc, rhand, arrived>>
      BY DEF InHand
    <3>3. InHand \in Nat
      BY <1>1, ReaderType
    <3> QED
      BY <1>1, <2>1, <3>1, <3>2, <3>3, FlowStays DEF Flow, FlowInv
  <2> QED
    BY <2>1, <2>2, <2>3 DEF ListenerInv, Typed, MapInv, Flow
<1> QED
  BY <1>2, <1>3

\* ListenerInv holds in every state: the basis of the theorems below.
THEOREM Invariance == Spec => []ListenerInv
<1>1. Init => ListenerInv
  BY ListenerInit
<1>2. ListenerInv /\ [Next]_vars => ListenerInv'
  BY ListenerStep
<1> QED
  BY <1>1, <1>2, PTL DEF Spec

\* Every variable keeps its type, and no channel holds more than its capacity.
THEOREM TypeCorrect == Spec => []TypeOK
<1>1. ListenerInv => TypeOK
  BY DEF ListenerInv
<1> QED
  BY <1>1, Invariance, PTL

\* The map of listen holds the open communicators and no other: no packet is
\* sent to a closed channel, none is closed twice, none is forgotten.
THEOREM MapHoldsOpenAlways == Spec => []MapHoldsOpen
<1>1. ListenerInv => MapHoldsOpen
  BY DEF ListenerInv
<1> QED
  BY <1>1, Invariance, PTL

\* What a communicator is given are packets of its address in the order they
\* arrived, and two communicators of one address never share a packet nor swap
\* the order of two.
THEOREM InOrderAlways == Spec => []InOrder
<1>1. ListenerInv => InOrder
  BY DEF ListenerInv
<1> QED
  BY <1>1, Invariance, PTL

\* Only listen's taking an address from closer both closes a communicator and
\* changes that queue.
LEMMA CloserOnly ==
    ASSUME Typed, [Next]_vars, NEW c \in Comms, comm[c] = "open",
           comm'[c] = "closed", closer' # closer
    PROVE  CloserTaken
<1> USE DEF threadVars, queueVars, commVars, userVars
<1>1. comm' # comm /\ closer' # closer
  OBVIOUS
<1> QED
  BY <1>1 DEF vars, Next, Close, Accept, ReaderReads, ReaderFails, ReaderThread,
     ReaderSends, ReaderStops, WriterThread, WriterTakes, WriterWrites, WriterStops,
     Listen, ListenFails, Listens, PacketKnown, PacketNew, ListenReturns,
     ListenJoins, CleanupTick, ReadMessage, WriteMessage, CommCloses

\* A communicator that is closed through the closer queue was asked to close, or
\* another of its address was that was made before it and is closed.
LEMMA LateOrItself ==
    ASSUME ListenerInv, [Next]_vars, NEW c \in Comms, comm[c] = "open",
           comm'[c] = "closed", closer' # closer
    PROVE  \/ c \in asked
           \/ \E d \in asked : /\ d < c /\ addrOf[d] = addrOf[c]
                               /\ comm[d] = "closed"
<1>1. CloserTaken
  BY CloserOnly DEF ListenerInv, Typed
<1>2. closer \in Seq(Addrs) /\ closer # <<>>
  BY <1>1 DEF CloserTaken, ListenerInv, TypeOK
<1>3. Head(closer) = closer[1] /\ 1 \in 1 .. Len(closer) /\ Head(closer) \in Addrs
  BY <1>2, TailType
<1>4. PICK d \in asked : addrOf[d] = Head(closer)
  BY <1>3 DEF ListenerInv, CloserInv
<1>5. c \in {comms[Head(closer)]} \ {NoComm}
  <2>1. CommClose({comms[Head(closer)]} \ {NoComm})
    BY <1>1 DEF CloserTaken
  <2> QED
    BY <2>1, CommCloseType DEF ListenerInv
<1>6. addrOf[c] = Head(closer)
  BY <1>3, <1>5 DEF ListenerInv, MapHoldsOpen
<1>7. d \in Comms /\ comm[d] # "none"
  BY DEF ListenerInv, MadeInv, TypeOK
<1>8. SUFFICES ASSUME d # c PROVE d < c /\ comm[d] = "closed"
  BY <1>4, <1>6
<1>9. comm[d] = "closed"
  <2>1. comm[d] # "open"
    BY <1>3, <1>4, <1>5, <1>7, <1>8 DEF ListenerInv, MapHoldsOpen
  <2> QED
    BY <1>7, <2>1 DEF ListenerInv, TypeOK
<1>10. ~ (c < d)
  BY <1>4, <1>6, <1>7 DEF ListenerInv, OnlyOpenInv
<1> QED
  BY <1>7, <1>8, <1>9, <1>10 DEF Comms

\* A Close that takes effect closes its own communicator, or comes too late: then
\* what it closes was made after its own, of the same address.
THEOREM ClosesItselfOrLateAlways == Spec => ClosesItselfOrLate
<1>1. ListenerInv /\ [Next]_vars => [\A c \in Comms :
        comm[c] = "open" /\ comm'[c] = "closed" /\ closer' # closer =>
            \/ c \in asked
            \/ \E d \in asked : /\ d < c /\ addrOf[d] = addrOf[c]
                               /\ comm[d] = "closed"]_vars
  BY LateOrItself
<1> QED
  BY <1>1, Invariance, PTL DEF Spec, ClosesItselfOrLate

=============================================================================
