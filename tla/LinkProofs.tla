----------------------------- MODULE LinkProofs -----------------------------
(***************************************************************************)
(* Proofs about Link, for every set of lists and every limit: type         *)
(* correctness, the agreement on a version, and what a transport that      *)
(* delivers in order adds to it.                                           *)
(***************************************************************************)
EXTENDS Link, SharedLemmas

----------------------------------------------------------------------------
(* The inductive invariant: what is on the way to an end, and what its      *)
(* negotiator can have made of it.                                          *)

Common == Range(ours["client"]) \cap Range(ours["server"])
IsHighest(v) == v \in Common /\ \A w \in Common : w <= v

\* An end has sent its list, and not failed since.
HasSent(s) == neg[s] = "read" \/ result[s] \in Nat \cup {Refused}
\* It has yet to read a list, and will not if it has failed.
Unread(s) == result[s] \in {None, Failed}

WireInv ==
    \A s \in Sides : \A i \in 1 .. Len(wire[s]) :
        wire[s][i] \in {ours[Other(s)], StreamPing, PacketPing}

HeartbeatsFrom(s, n) == \A i \in n .. Len(wire[s]) : wire[s][i] = StreamPing

\* In order: the list comes first, and then heartbeats.
Ordered(s) ==
    /\ Unread(s) => \/ wire[s] = <<>>
                    \/ wire[s][1] = ours[Other(s)] /\ HeartbeatsFrom(s, 2)
    /\ ~Unread(s) => HeartbeatsFrom(s, 1)
    /\ neg[Other(s)] \in {"off", "write"} => wire[s] = <<>> /\ Unread(s)
    /\ HasSent(Other(s)) /\ Unread(s) => wire[s] # <<>>

OrderInv == transport # "packet" => \A s \in Sides : Ordered(s)

ResultInv ==
    \A s \in Sides :
        /\ (transport # "packet" \/ Fits) /\ result[s] \in Nat
               => IsHighest(result[s])
        /\ (transport # "packet" /\ Fits) /\ result[s] = Refused
               => Common = {}

LinkInv == TypeOK /\ WireInv /\ OrderInv /\ ResultInv

----------------------------------------------------------------------------
(* What a message is made into *)

\* What may be on the way.
Messages == Lists \cup {StreamPing, PacketPing}

\* A message but for the packets' heartbeat is a sequence of versions, and a list
\* is not empty.
LEMMA MessageType ==
    /\ \A m \in Messages : m # PacketPing => m \in Seq(Nat)
    /\ \A l \in Lists : l \in Seq(Nat) /\ l # <<>> /\ l # PacketPing
    /\ StreamPing \in Seq(Nat) /\ StreamPing # PacketPing
<1>1. <<>> \in Seq(Nat)
  OBVIOUS
<1> QED
  BY <1>1, ListsAssumption, LimitsAssumption DEF Messages, StreamPing

\* What an end reads of a message is a sequence of versions.
LEMMA ReadType ==
    ASSUME NEW s \in Sides, NEW m \in Seq(Nat)
    PROVE  Read(s, m) \in Seq(Nat)
<1>1. Len(m) > ReadLimit => SubSeq(m, 1, ReadLimit) \in Seq(Nat)
  BY LimitsAssumption
<1> QED
  BY <1>1 DEF Read

\* The versions of a message that an end knows are finitely many.
LEMMA KnownType ==
    ASSUME NEW s, NEW m \in Seq(Nat)
    PROVE  IsFiniteSet(Known(s, m)) /\ Known(s, m) \subseteq Nat
<1>1. IsFiniteSet(Range(m)) /\ Range(m) \subseteq Nat
  BY RangeFinite
<1>2. Known(s, m) \in SUBSET Range(m)
  BY DEF Known
<1> QED
  BY <1>1, <1>2, FS_Subset

\* The outcome of a message is one of the versions read that the end knows, and
\* the highest; or there is none, or the message is no list.
LEMMA OutcomeFacts ==
    ASSUME NEW s \in Sides, NEW m \in Messages
    PROVE  \/ Outcome(s, m) = Refused
              /\ (m = PacketPing \/ TooLong(m) \/ Known(s, Read(s, m)) = {})
           \/ /\ m # PacketPing /\ ~TooLong(m)
              /\ Outcome(s, m) \in Nat
              /\ Outcome(s, m) \in Known(s, Read(s, m))
              /\ \A v \in Known(s, Read(s, m)) : v <= Outcome(s, m)
<1>1. CASE m = PacketPing \/ TooLong(m) \/ Known(s, Read(s, m)) = {}
  BY <1>1 DEF Outcome
<1>2. CASE ~ (m = PacketPing \/ TooLong(m) \/ Known(s, Read(s, m)) = {})
  <2>1. Read(s, m) \in Seq(Nat)
    BY <1>2, MessageType, ReadType
  <2>2. /\ IsFiniteSet(Known(s, Read(s, m))) /\ Known(s, Read(s, m)) \subseteq Int
        /\ Known(s, Read(s, m)) \subseteq Nat
    BY <2>1, KnownType
  <2>3. Outcome(s, m) = Max(Known(s, Read(s, m)))
    BY <1>2 DEF Outcome
  <2> QED
    BY <1>2, <2>2, <2>3, MaxOfFinite
<1> QED
  BY <1>1, <1>2

\* Of the other end's list: the highest version in common, unless it is cut off.
LEMMA OutcomeOfList ==
    ASSUME TypeOK, NEW s \in Sides, transport # "packet" \/ Fits
    PROVE  /\ Outcome(s, ours[Other(s)]) \in Nat
                  => IsHighest(Outcome(s, ours[Other(s)]))
           /\ Fits /\ Outcome(s, ours[Other(s)]) = Refused => Common = {}
<1> DEFINE m == ours[Other(s)]
<1>1. m \in Lists /\ m \in Messages /\ m # PacketPing
  BY MessageType DEF TypeOK, Other, Sides, Messages
<1>2. Known(s, m) = Common
  BY DEF Known, Common, Other, Sides
<1>3. Fits => Len(m) <= ReadLimit /\ Len(m) \in Nat
  BY <1>1, MessageType DEF Fits, Other, Sides
<1>4. ReadLimit \in Nat
  BY LimitsAssumption
<1>5. Read(s, m) = m
  BY <1>3, <1>4 DEF Read
<1>6. Fits => ~TooLong(m)
  BY <1>3, <1>4 DEF TooLong
<1> HIDE DEF m
<1>7. Outcome(s, m) \in Nat => IsHighest(Outcome(s, m))
  BY <1>1, <1>2, <1>5, OutcomeFacts DEF Refused, IsHighest
<1>8. Fits /\ Outcome(s, m) = Refused => Common = {}
  BY <1>1, <1>2, <1>5, <1>6, OutcomeFacts DEF Refused
<1> QED
  BY <1>7, <1>8 DEF m

\* A heartbeat is never made into a version.
LEMMA OutcomeOfHeartbeat ==
    ASSUME NEW s \in Sides, NEW m \in {StreamPing, PacketPing}
    PROVE  Outcome(s, m) = Refused
<1>1. CASE m = PacketPing
  BY <1>1 DEF Outcome
<1>2. CASE m = StreamPing
  <2>1. ReadLimit \in Nat /\ Len(<<>>) = 0
    BY LimitsAssumption
  <2>2. Read(s, <<>>) = <<>>
    BY <2>1 DEF Read
  <2>3. Known(s, <<>>) = {}
    BY DEF Known, Range
  <2> QED
    BY <1>2, <2>2, <2>3 DEF Outcome, StreamPing
<1> QED
  BY <1>1, <1>2

----------------------------------------------------------------------------
(* Type correctness *)

\* The two ends.
LEMMA SidesFacts ==
    /\ \A s \in Sides : Other(s) \in Sides /\ Other(Other(s)) = s /\ Other(s) # s
    /\ \A s, t \in Sides : t # s => t = Other(s)
BY DEF Sides, Other

\* A message is put at the end of what is on the way to the other end.
LEMMA PutsFacts ==
    ASSUME TypeOK, NEW s \in Sides, NEW m \in Messages, Puts(s, m)
    PROVE  /\ wire' \in [Sides -> Seq(Messages)]
           /\ wire'[s] = wire[s]
           /\ wire'[Other(s)] = Append(wire[Other(s)], m)
           /\ Len(wire'[Other(s)]) = Len(wire[Other(s)]) + 1
           /\ wire'[Other(s)][Len(wire[Other(s)]) + 1] = m
           /\ \A i \in 1 .. Len(wire[Other(s)]) :
                  wire'[Other(s)][i] = wire[Other(s)][i]
<1>1. wire \in [Sides -> Seq(Messages)] /\ Other(s) \in Sides /\ Other(s) # s
  BY SidesFacts DEF TypeOK, Messages, StreamPing
<1>2. wire[Other(s)] \in Seq(Messages)
  BY <1>1
<1> QED
  BY <1>1, <1>2 DEF Puts

\* What is read is taken off, or is left where packets may come twice.
LEMMA TakesFacts ==
    ASSUME TypeOK, NEW s \in Sides, NEW i \in 1 .. Len(wire[s]),
           \/ Takes(s, i)
           \/ wire' = [wire EXCEPT ![s] = RemoveAt(@, i)]
    PROVE  /\ wire' \in [Sides -> Seq(Messages)]
           /\ wire'[Other(s)] = wire[Other(s)]
           /\ \/ wire'[s] = RemoveAt(wire[s], i)
              \/ transport = "packet" /\ wire'[s] = wire[s]
           /\ \A j \in 1 .. Len(wire'[s]) :
                  \E k \in 1 .. Len(wire[s]) : wire'[s][j] = wire[s][k]
<1>1. wire \in [Sides -> Seq(Messages)] /\ Other(s) \in Sides /\ Other(s) # s
  BY SidesFacts DEF TypeOK, Messages, StreamPing
<1>2. wire[s] \in Seq(Messages)
  BY <1>1
<1>3. CASE wire' = wire /\ transport = "packet"
  BY <1>1, <1>3
<1>4. CASE wire' = [wire EXCEPT ![s] = RemoveAt(@, i)]
  <2>1. wire'[s] = RemoveAt(wire[s], i) /\ wire'[Other(s)] = wire[Other(s)]
    BY <1>1, <1>4
  <2>2. RemoveAt(wire[s], i) \in Seq(Messages)
        /\ Len(RemoveAt(wire[s], i)) = Len(wire[s]) - 1
    BY <1>2, RemoveAtFacts
  <2>3. wire' \in [Sides -> Seq(Messages)]
    BY <1>1, <1>4, <2>2
  <2>4. ASSUME NEW j \in 1 .. Len(wire'[s])
        PROVE  \E k \in 1 .. Len(wire[s]) : wire'[s][j] = wire[s][k]
    <3>1. Len(wire[s]) \in Nat /\ j \in 1 .. Len(wire[s]) - 1
      BY <1>2, <2>1, <2>2
    <3>2. wire'[s][j] = wire[s][j] \/ wire'[s][j] = wire[s][j + 1]
      <4>1. RemoveAt(wire[s], i)[j] = IF j < i THEN wire[s][j] ELSE wire[s][j + 1]
        BY <1>2, <3>1, RemoveAtFacts
      <4> QED
        BY <2>1, <4>1
    <3>3. j \in 1 .. Len(wire[s]) /\ j + 1 \in 1 .. Len(wire[s])
      BY <3>1
    <3> QED
      BY <3>2, <3>3
  <2> QED
    BY <2>1, <2>3, <2>4
<1> QED
  BY <1>3, <1>4 DEF Takes

\* What has arrived is on the way.
LEMMA ArrivedFacts ==
    ASSUME TypeOK, NEW s \in Sides, NEW i \in Arrived(s)
    PROVE  /\ i \in 1 .. Len(wire[s])
           /\ wire[s][i] \in Messages
           /\ transport # "packet" => i = 1
<1>1. wire[s] \in Seq(Messages)
  BY DEF TypeOK, Messages, StreamPing
<1>2. i \in 1 .. Len(wire[s])
  BY <1>1 DEF Arrived
<1> QED
  BY <1>1, <1>2 DEF Arrived

\* An outcome is a version, or there is none.
LEMMA OutcomeType ==
    ASSUME NEW s \in Sides, NEW m \in Messages
    PROVE  Outcome(s, m) \in Nat \cup {Refused}
BY OutcomeFacts

\* A heartbeat is a message.
LEMMA HeartbeatType == Heartbeat \in Messages /\ \A l \in Lists : l \in Messages
BY DEF Heartbeat, Messages

\* No value of a result stands for two things.
LEMMA ResultValues ==
    /\ None \notin Nat /\ Refused \notin Nat /\ Failed \notin Nat
    /\ None # Refused /\ None # Failed /\ Refused # Failed
BY DEF None, Refused, Failed

\* Both ends before they start are type correct.
LEMMA TypeInit == Init => TypeOK
BY DEF Init, TypeOK, None, Ended

\* A step keeps the types.
LEMMA TypeStep == ASSUME TypeOK, [Next]_vars PROVE TypeOK'
<1>1. CASE UNCHANGED vars
  BY <1>1 DEF TypeOK, vars
<1>2. CASE Next
  <2>1. PICK s \in Sides :
            Starts(s) \/ Negotiator(s) \/ Start(s) \/ Runs(s) \/ Loses(s)
    BY <1>2 DEF Next
  <2> USE ResultValues DEF TypeOK, Ended, Messages, StreamPing
  <2>2. CASE Starts(s)
    BY <2>2 DEF Starts
  <2>3. CASE NegotiatorWrites(s)
    BY <2>3, PutsFacts, HeartbeatType DEF NegotiatorWrites
  <2>4. CASE NegotiatorReads(s)
    <3>1. PICK i \in Arrived(s) :
              /\ result' = [result EXCEPT ![s] = Outcome(s, wire[s][i])]
              /\ Takes(s, i)
      BY <2>4 DEF NegotiatorReads
    <3>2. wire' \in [Sides -> Seq(Messages)]
      BY <3>1, ArrivedFacts, TakesFacts
    <3>3. Outcome(s, wire[s][i]) \in Nat \cup {Refused}
      BY <3>1, ArrivedFacts, OutcomeType
    <3> QED
      BY <2>4, <3>1, <3>2, <3>3 DEF NegotiatorReads
  <2>5. CASE NegotiatorFails(s)
    BY <2>5 DEF NegotiatorFails
  <2>6. CASE Negotiated(s)
    BY <2>6 DEF Negotiated
  <2>7. CASE NegotiationFails(s) \/ NegotiationTimesOut(s)
    BY <2>7 DEF NegotiationFails, NegotiationTimesOut
  <2>8. CASE Pings(s)
    BY <2>8, PutsFacts, HeartbeatType DEF Pings
  <2>9. CASE Reads(s)
    <3>1. PICK i \in Arrived(s) :
              /\ conn' = [conn EXCEPT ![s] = IF wire[s][i] = <<>> THEN @
                                                                ELSE "protocol"]
              /\ Takes(s, i)
      BY <2>9 DEF Reads
    <3>2. wire' \in [Sides -> Seq(Messages)]
      BY <3>1, ArrivedFacts, TakesFacts
    <3> QED
      BY <2>9, <3>1, <3>2 DEF Reads
  <2>10. CASE IsLost(s) \/ Closes(s)
    BY <2>10 DEF IsLost, Closes
  <2>11. CASE Loses(s)
    <3>1. wire' \in [Sides -> Seq(Messages)]
      BY <2>11, TakesFacts DEF Loses
    <3> QED
      BY <2>11, <3>1 DEF Loses
  <2> QED
    BY <2>1, <2>2, <2>3, <2>4, <2>5, <2>6, <2>7, <2>8, <2>9, <2>10, <2>11
       DEF Negotiator, Start, Runs
<1> QED
  BY <1>1, <1>2

\* Every variable keeps its type; an end has a version from when it runs, and
\* its negotiator has a result when it is done.
THEOREM TypeCorrect == Spec => []TypeOK
BY TypeInit, TypeStep, PTL DEF Spec

----------------------------------------------------------------------------
(* What is on the way *)

\* A step of the negotiators, of the starts or of the connections: the lists and
\* the transport are never changed.
LEMMA Unchanged == ASSUME [Next]_vars PROVE transport' = transport /\ ours' = ours
BY DEF Next, vars, Starts, Negotiator, NegotiatorWrites, NegotiatorReads,
   NegotiatorFails, Start, Negotiated, NegotiationFails, NegotiationTimesOut,
   Runs, Pings, Reads, IsLost, Closes, Loses

\* A read or a loss brings nothing new.
LEMMA WireShrinks ==
    ASSUME TypeOK, WireInv, ours' = ours, NEW s \in Sides,
           wire'[Other(s)] = wire[Other(s)],
           \A j \in 1 .. Len(wire'[s]) :
               \E k \in 1 .. Len(wire[s]) : wire'[s][j] = wire[s][k]
    PROVE  WireInv'
<1>1. ASSUME NEW t \in Sides, NEW j \in 1 .. Len(wire'[t])
      PROVE  wire'[t][j] \in {ours[Other(t)], StreamPing, PacketPing}
  <2>1. CASE t = s
    BY <1>1, <2>1 DEF WireInv
  <2>2. CASE t = Other(s)
    BY <1>1, <2>2 DEF WireInv
  <2> QED
    BY <2>1, <2>2, SidesFacts
<1> QED
  BY <1>1 DEF WireInv

\* Nor does a list or a heartbeat.
LEMMA WireGrows ==
    ASSUME TypeOK, WireInv, ours' = ours, NEW s \in Sides,
           NEW m \in {ours[s], StreamPing, PacketPing}, Puts(s, m)
    PROVE  WireInv'
<1>1. m \in Messages
  BY DEF TypeOK, Messages
<1>2. wire[Other(s)] \in Seq(Messages) /\ Other(Other(s)) = s
  BY SidesFacts DEF TypeOK, Messages, StreamPing
<1>3. ASSUME NEW t \in Sides, NEW j \in 1 .. Len(wire'[t])
      PROVE  wire'[t][j] \in {ours[Other(t)], StreamPing, PacketPing}
  <2>1. CASE t = s
    BY <1>1, <1>3, <2>1, PutsFacts DEF WireInv
  <2>2. CASE t = Other(s)
    <3>1. j \in 1 .. Len(wire[Other(s)]) \/ j = Len(wire[Other(s)]) + 1
      BY <1>1, <1>2, <1>3, <2>2, PutsFacts
    <3> QED
      BY <1>1, <1>2, <2>2, <3>1, PutsFacts DEF WireInv
  <2> QED
    BY <2>1, <2>2, SidesFacts
<1> QED
  BY <1>3 DEF WireInv

\* Only the other's list and heartbeats are ever on the way to an end.
LEMMA WireStep == ASSUME TypeOK, WireInv, [Next]_vars PROVE WireInv'
<1>1. ours' = ours /\ transport' = transport
  BY Unchanged
<1>2. CASE wire' = wire
  BY <1>1, <1>2 DEF WireInv
<1>3. ASSUME NEW s \in Sides, NegotiatorWrites(s) PROVE WireInv'
  BY <1>1, <1>3, WireGrows DEF NegotiatorWrites
<1>4. ASSUME NEW s \in Sides, Pings(s) PROVE WireInv'
  BY <1>1, <1>4, WireGrows DEF Pings, Heartbeat
<1>5. ASSUME NEW s \in Sides, NEW i \in 1 .. Len(wire[s]),
             Takes(s, i) \/ wire' = [wire EXCEPT ![s] = RemoveAt(@, i)]
      PROVE  WireInv'
  BY <1>1, <1>5, TakesFacts, WireShrinks
<1>6. ASSUME NEW s \in Sides, NegotiatorReads(s) \/ Reads(s) PROVE WireInv'
  BY <1>5, <1>6, ArrivedFacts DEF NegotiatorReads, Reads
<1>7. ASSUME NEW s \in Sides, Loses(s) PROVE WireInv'
  BY <1>5, <1>7 DEF Loses
<1> QED
  BY <1>2, <1>3, <1>4, <1>6, <1>7 DEF Next, vars, Starts, Negotiator,
     NegotiatorFails, Start, Negotiated, NegotiationFails, NegotiationTimesOut,
     Runs, IsLost, Closes

----------------------------------------------------------------------------
(* What a transport that delivers in order adds *)

\* Taking the first message leaves the rest.
LEMMA TakesFirst ==
    ASSUME TypeOK, NEW s \in Sides, wire[s] # <<>>, Takes(s, 1),
           transport # "packet"
    PROVE  /\ wire'[Other(s)] = wire[Other(s)]
           /\ Len(wire'[s]) = Len(wire[s]) - 1
           /\ Len(wire[s]) \in Nat /\ Len(wire'[s]) \in Nat
           /\ \A j \in 1 .. Len(wire'[s]) : wire'[s][j] = wire[s][j + 1]
           /\ wire'[s] = <<>> <=> Len(wire'[s]) = 0
<1>1. wire[s] \in Seq(Messages)
  BY DEF TypeOK, Messages, StreamPing
<1>2. 1 \in 1 .. Len(wire[s]) /\ Len(wire[s]) \in Nat
  BY <1>1
<1>3. wire'[s] = RemoveAt(wire[s], 1) /\ wire'[Other(s)] = wire[Other(s)]
  BY <1>2, TakesFacts
<1>4. /\ RemoveAt(wire[s], 1) \in Seq(Messages)
      /\ Len(RemoveAt(wire[s], 1)) = Len(wire[s]) - 1
  BY <1>1, <1>2, RemoveAtFacts
<1>5. ASSUME NEW j \in 1 .. Len(wire'[s]) PROVE wire'[s][j] = wire[s][j + 1]
  <2>1. j \in 1 .. Len(wire[s]) - 1 /\ ~ (j < 1)
    BY <1>3, <1>4, <1>5
  <2>2. RemoveAt(wire[s], 1)[j] = IF j < 1 THEN wire[s][j] ELSE wire[s][j + 1]
    BY <1>1, <1>2, <2>1, RemoveAtFacts
  <2> QED
    BY <1>3, <2>1, <2>2
<1> QED
  BY <1>2, <1>3, <1>4, <1>5

\* An end that runs, or has run, has read the other's list.
LEMMA RunsHasRead ==
    ASSUME TypeOK, NEW s \in Sides, version[s] # None \/ conn[s] = "running"
    PROVE  result[s] \in Nat /\ version[s] = result[s] /\ neg[s] = "done"
BY ResultValues DEF TypeOK

\* The order is kept when nothing moves on the way to an end.
LEMMA OrderedStays ==
    ASSUME NEW s \in Sides, Ordered(s), wire'[s] = wire[s], ours' = ours,
           result'[s] = result[s] \/ (Unread(s) /\ Unread(s)'),
           neg'[Other(s)] \in {"off", "write"} => neg[Other(s)] \in {"off", "write"},
           HasSent(Other(s))' => HasSent(Other(s))
    PROVE  Ordered(s)'
BY DEF Ordered, Unread, HeartbeatsFrom

\* The list that an end writes is the first message on the way to the other.
LEMMA OrderWrites ==
    ASSUME TypeOK, OrderInv, transport # "packet", [Next]_vars,
           NEW s \in Sides, NegotiatorWrites(s)
    PROVE  \A t \in Sides : Ordered(t)'
<1>1. /\ wire'[s] = wire[s] /\ ours' = ours /\ result' = result
      /\ Len(wire'[Other(s)]) = Len(wire[Other(s)]) + 1
      /\ wire'[Other(s)][Len(wire[Other(s)]) + 1] = ours[s]
  BY PutsFacts, HeartbeatType DEF NegotiatorWrites, TypeOK
<1>2. neg' = [neg EXCEPT ![s] = "read"] /\ neg[s] = "write"
  BY DEF NegotiatorWrites
<1>3. Ordered(s) /\ Ordered(Other(s)) /\ Other(s) \in Sides
      /\ Other(Other(s)) = s /\ Other(s) # s
  BY SidesFacts DEF OrderInv
<1>4. wire[Other(s)] = <<>> /\ Unread(Other(s)) /\ Unread(Other(s))'
  BY <1>1, <1>2, <1>3 DEF Ordered, Unread
<1>5. Len(wire'[Other(s)]) = 1 /\ wire'[Other(s)][1] = ours[s]
      /\ wire'[Other(s)] # <<>>
  BY <1>1, <1>4
<1>6. Ordered(Other(s))'
  BY <1>1, <1>2, <1>3, <1>4, <1>5 DEF Ordered, HeartbeatsFrom, TypeOK
<1>7. Ordered(s)'
  BY <1>1, <1>2, <1>3, OrderedStays DEF HasSent, TypeOK
<1> QED
  BY <1>6, <1>7, SidesFacts

\* What is left when an end has read the list are heartbeats.
LEMMA OrderReads ==
    ASSUME TypeOK, OrderInv, transport # "packet", [Next]_vars,
           NEW s \in Sides, NegotiatorReads(s)
    PROVE  \A t \in Sides : Ordered(t)'
<1>1. PICK i \in Arrived(s) :
          /\ result' = [result EXCEPT ![s] = Outcome(s, wire[s][i])]
          /\ Takes(s, i)
  BY DEF NegotiatorReads
<1>2. i = 1 /\ 1 \in 1 .. Len(wire[s]) /\ wire[s] # <<>>
  BY <1>1, ArrivedFacts DEF Arrived, TypeOK
<1>3. Outcome(s, wire[s][1]) \in Nat \cup {Refused}
  BY <1>1, <1>2, ArrivedFacts, OutcomeType
<1>4. /\ neg' = [neg EXCEPT ![s] = "done"] /\ neg[s] = "read" /\ ours' = ours
      /\ result[s] = None
  BY DEF NegotiatorReads, TypeOK
<1>5. Ordered(s) /\ Ordered(Other(s)) /\ Other(s) \in Sides
      /\ Other(Other(s)) = s /\ Other(s) # s
  BY SidesFacts DEF OrderInv
<1>6. /\ wire'[Other(s)] = wire[Other(s)] /\ Len(wire'[s]) = Len(wire[s]) - 1
      /\ Len(wire[s]) \in Nat
      /\ \A j \in 1 .. Len(wire'[s]) : wire'[s][j] = wire[s][j + 1]
  BY <1>1, <1>2, TakesFirst
<1>7. HeartbeatsFrom(s, 2) /\ ~ (neg[Other(s)] \in {"off", "write"})
  BY <1>2, <1>4, <1>5 DEF Ordered, Unread
<1>8. HeartbeatsFrom(s, 1)'
  BY <1>6, <1>7 DEF HeartbeatsFrom
<1>9. ~Unread(s)' /\ HasSent(s)
  BY <1>1, <1>2, <1>3, <1>4, ResultValues DEF Unread, TypeOK, HasSent
<1>10. Ordered(s)'
  BY <1>4, <1>5, <1>7, <1>8, <1>9 DEF Ordered, TypeOK
<1>11. Ordered(Other(s))'
  BY <1>1, <1>4, <1>5, <1>6, <1>9, OrderedStays DEF TypeOK
<1> QED
  BY <1>10, <1>11, SidesFacts

\* A heartbeat comes after the list.
LEMMA OrderPings ==
    ASSUME TypeOK, OrderInv, transport # "packet", [Next]_vars,
           NEW s \in Sides, Pings(s)
    PROVE  \A t \in Sides : Ordered(t)'
<1>1. /\ wire'[s] = wire[s] /\ ours' = ours /\ result' = result /\ neg' = neg
      /\ Len(wire'[Other(s)]) = Len(wire[Other(s)]) + 1
      /\ wire'[Other(s)][Len(wire[Other(s)]) + 1] = StreamPing
      /\ \A i \in 1 .. Len(wire[Other(s)]) :
             wire'[Other(s)][i] = wire[Other(s)][i]
  BY PutsFacts, HeartbeatType DEF Pings, Heartbeat
<1>2. result[s] \in Nat /\ HasSent(s) /\ neg[s] = "done"
  BY RunsHasRead DEF Pings, HasSent
<1>3. Ordered(s) /\ Ordered(Other(s)) /\ Other(s) \in Sides
      /\ Other(Other(s)) = s /\ Other(s) # s
  BY SidesFacts DEF OrderInv
<1>4. wire[Other(s)] \in Seq(Messages) /\ wire'[Other(s)] \in Seq(Messages)
  BY <1>3, PutsFacts, HeartbeatType DEF Pings, TypeOK, Messages, StreamPing
<1>5. Ordered(Other(s))'
  <2>1. wire'[Other(s)] # <<>>
    BY <1>1, <1>4
  <2>2. CASE Unread(Other(s))
    <3>1. wire[Other(s)] # <<>>
      BY <1>2, <1>3, <2>2 DEF Ordered
    <3>2. 1 \in 1 .. Len(wire[Other(s)]) /\ Len(wire[Other(s)]) \in Nat
      BY <1>4, <3>1
    <3>3. wire'[Other(s)][1] = ours[s] /\ HeartbeatsFrom(Other(s), 2)
      BY <1>1, <1>3, <2>2, <3>1, <3>2 DEF Ordered
    <3>4. HeartbeatsFrom(Other(s), 2)'
      BY <1>1, <3>2, <3>3 DEF HeartbeatsFrom
    <3> QED
      BY <1>1, <1>2, <1>3, <2>1, <2>2, <3>3, <3>4 DEF Ordered, Unread
  <2>3. CASE ~Unread(Other(s))
    <3>1. HeartbeatsFrom(Other(s), 1)
      BY <1>3, <2>3 DEF Ordered
    <3>2. Len(wire[Other(s)]) \in Nat
      BY <1>4
    <3>3. HeartbeatsFrom(Other(s), 1)'
      BY <1>1, <3>1, <3>2 DEF HeartbeatsFrom
    <3> QED
      BY <1>1, <1>2, <1>3, <2>3, <3>3 DEF Ordered, Unread
  <2> QED
    BY <2>2, <2>3
<1>6. Ordered(s)'
  BY <1>1, <1>3, OrderedStays DEF HasSent
<1> QED
  BY <1>5, <1>6, SidesFacts

\* A connection reads heartbeats only, and they keep it.
LEMMA OrderRuns ==
    ASSUME TypeOK, OrderInv, transport # "packet", [Next]_vars,
           NEW s \in Sides, Reads(s)
    PROVE  conn' = conn /\ \A t \in Sides : Ordered(t)'
<1>1. PICK i \in Arrived(s) :
          /\ conn' = [conn EXCEPT ![s] = IF wire[s][i] = <<>> THEN @
                                                            ELSE "protocol"]
          /\ Takes(s, i)
  BY DEF Reads
<1>2. i = 1 /\ 1 \in 1 .. Len(wire[s]) /\ wire[s] # <<>>
  BY <1>1, ArrivedFacts DEF Arrived, TypeOK
<1>3. neg' = neg /\ ours' = ours /\ result' = result /\ result[s] \in Nat
  BY RunsHasRead DEF Reads
<1>4. Ordered(s) /\ Ordered(Other(s)) /\ Other(s) \in Sides
      /\ Other(Other(s)) = s /\ Other(s) # s
  BY SidesFacts DEF OrderInv
<1>5. /\ wire'[Other(s)] = wire[Other(s)] /\ Len(wire'[s]) = Len(wire[s]) - 1
      /\ Len(wire[s]) \in Nat
      /\ \A j \in 1 .. Len(wire'[s]) : wire'[s][j] = wire[s][j + 1]
  BY <1>1, <1>2, TakesFirst
<1>6. ~Unread(s) /\ ~Unread(s)'
  BY <1>3, ResultValues DEF Unread
<1>7. HeartbeatsFrom(s, 1) /\ ~ (neg[Other(s)] \in {"off", "write"})
  BY <1>4, <1>6 DEF Ordered
<1>8. HeartbeatsFrom(s, 1)'
  BY <1>5, <1>7 DEF HeartbeatsFrom
<1>9. Ordered(s)'
  BY <1>3, <1>4, <1>6, <1>7, <1>8 DEF Ordered
<1>10. Ordered(Other(s))'
  BY <1>3, <1>4, <1>5, OrderedStays DEF HasSent
<1>11. conn' = conn
  BY <1>1, <1>2, <1>7 DEF HeartbeatsFrom, StreamPing, TypeOK
<1> QED
  BY <1>9, <1>10, <1>11, SidesFacts

\* The order is kept by every step.
LEMMA OrderStep == ASSUME TypeOK, OrderInv, [Next]_vars PROVE OrderInv'
<1>1. ours' = ours /\ transport' = transport
  BY Unchanged
<1> SUFFICES ASSUME transport # "packet" PROVE \A t \in Sides : Ordered(t)'
  BY <1>1 DEF OrderInv
<1>2. \A t \in Sides : Ordered(t)
  BY DEF OrderInv
<1>3. ASSUME wire' = wire, neg' = neg, result' = result
      PROVE  \A t \in Sides : Ordered(t)'
  BY <1>1, <1>2, <1>3, OrderedStays DEF HasSent
<1>4. ASSUME NEW s \in Sides, Starts(s) PROVE \A t \in Sides : Ordered(t)'
  <2>1. wire' = wire /\ result' = result /\ neg[s] = "off"
        /\ \A t \in Sides : neg'[t] = IF t = s THEN "write" ELSE neg[t]
    BY <1>4 DEF Starts, TypeOK
  <2>2. ASSUME NEW t \in Sides
        PROVE  /\ neg'[Other(t)] \in {"off", "write"}
                      => neg[Other(t)] \in {"off", "write"}
               /\ HasSent(Other(t))' => HasSent(Other(t))
    BY <2>1, SidesFacts DEF HasSent
  <2> QED
    BY <1>1, <1>2, <2>1, <2>2, OrderedStays
<1>5. ASSUME NEW s \in Sides, NegotiatorFails(s)
      PROVE  \A t \in Sides : Ordered(t)'
  <2>1. /\ wire' = wire /\ result[s] = None
        /\ \A t \in Sides : neg'[t] = IF t = s THEN "done" ELSE neg[t]
        /\ \A t \in Sides : result'[t] = IF t = s THEN Failed ELSE result[t]
    BY <1>5 DEF NegotiatorFails, TypeOK
  <2>2. ASSUME NEW t \in Sides
        PROVE  /\ result'[t] = result[t] \/ (Unread(t) /\ Unread(t)')
               /\ neg'[Other(t)] \in {"off", "write"}
                      => neg[Other(t)] \in {"off", "write"}
               /\ HasSent(Other(t))' => HasSent(Other(t))
    BY <2>1, SidesFacts, ResultValues DEF HasSent, Unread
  <2> QED
    BY <1>1, <1>2, <2>1, <2>2, OrderedStays
<1>6. ASSUME NEW s \in Sides, Loses(s) PROVE FALSE
  BY <1>6 DEF Loses
<1> QED
  BY <1>3, <1>4, <1>5, <1>6, OrderWrites, OrderReads, OrderPings, OrderRuns
     DEF Next, vars, Negotiator, Start, Negotiated, NegotiationFails,
     NegotiationTimesOut, Runs, IsLost, Closes

----------------------------------------------------------------------------
(* What the negotiators make of it *)

\* Whoever has a version has the highest in common; whoever refuses, if nothing
\* was cut off or overtaken, found none.
LEMMA ResultStep ==
    ASSUME TypeOK, WireInv, OrderInv, ResultInv, [Next]_vars
    PROVE  ResultInv'
<1>1. ours' = ours /\ transport' = transport
  BY Unchanged
<1>2. ASSUME NEW s \in Sides, NegotiatorReads(s) PROVE ResultInv'
  <2>1. PICK i \in Arrived(s) :
            /\ result' = [result EXCEPT ![s] = Outcome(s, wire[s][i])]
            /\ Takes(s, i)
    BY <1>2 DEF NegotiatorReads
  <2> DEFINE m == wire[s][i]
  <2>2. m \in Messages /\ i \in 1 .. Len(wire[s])
    BY <2>1, ArrivedFacts
  <2>3. m \in {ours[Other(s)], StreamPing, PacketPing}
    BY <2>2 DEF WireInv
  <2>4. transport # "packet" => m = ours[Other(s)]
    <3>1. SUFFICES ASSUME transport # "packet" PROVE m = ours[Other(s)]
      OBVIOUS
    <3>2. i = 1 /\ wire[s] # <<>>
      BY <2>1, <3>1, ArrivedFacts DEF Arrived
    <3>3. Unread(s) /\ Ordered(s)
      BY <1>2, <3>1 DEF NegotiatorReads, TypeOK, Unread, OrderInv
    <3> QED
      BY <3>2, <3>3 DEF Ordered
  <2> DEFINE o == Outcome(s, m)
  <2>5. (transport # "packet" \/ Fits) /\ o \in Nat => IsHighest(o)
    BY <2>3, OutcomeOfList, OutcomeOfHeartbeat, ResultValues
  <2>6. transport # "packet" /\ Fits /\ o = Refused => Common = {}
    BY <2>4, OutcomeOfList
  <2>7. \A t \in Sides : result'[t] = IF t = s THEN o ELSE result[t]
    BY <2>1 DEF TypeOK
  <2> HIDE DEF o
  <2> QED
    BY <1>1, <2>5, <2>6, <2>7 DEF ResultInv, IsHighest, Common, Fits
<1>3. ASSUME NEW s \in Sides, NegotiatorFails(s) PROVE ResultInv'
  <2>1. \A t \in Sides : result'[t] = IF t = s THEN Failed ELSE result[t]
    BY <1>3 DEF NegotiatorFails, TypeOK
  <2> QED
    BY <1>1, <2>1, ResultValues DEF ResultInv, IsHighest, Common, Fits
<1>4. ASSUME result' = result PROVE ResultInv'
  BY <1>1, <1>4 DEF ResultInv, IsHighest, Common, Fits
<1> QED
  BY <1>2, <1>3, <1>4 DEF Next, vars, Starts, Negotiator, NegotiatorWrites,
     Start, Negotiated, NegotiationFails, NegotiationTimesOut, Runs, Pings,
     Reads, IsLost, Closes, Loses

----------------------------------------------------------------------------
(* The theorems *)

\* Before they start nothing is on the way, and nobody has a result.
LEMMA LinkInit == Init => LinkInv
<1> SUFFICES ASSUME Init PROVE LinkInv
  OBVIOUS
<1>1. TypeOK
  BY TypeInit
<1>2. WireInv
  BY DEF Init, WireInv
<1>3. OrderInv
  BY SidesFacts, ResultValues
     DEF Init, OrderInv, Ordered, Unread, HasSent
<1>4. ResultInv
  BY ResultValues DEF Init, ResultInv
<1> QED
  BY <1>1, <1>2, <1>3, <1>4 DEF LinkInv

\* The invariant is inductive.
THEOREM Invariance == Spec => []LinkInv
<1>1. LinkInv /\ [Next]_vars => LinkInv'
  BY TypeStep, WireStep, OrderStep, ResultStep DEF LinkInv
<1> QED
  BY LinkInit, <1>1, PTL DEF Spec

\* Whoever runs, runs the highest version that both ends know, whatever lists
\* they have and whatever was lost, repeated or overtaken, unless a packet with a
\* list was cut off.
THEOREM AgreementAlways == Spec => []Agreement
<1>1. LinkInv => Agreement
  <2> SUFFICES ASSUME LinkInv, transport # "packet" \/ Fits,
                      NEW s \in Sides, version[s] # None
               PROVE  version[s] \in Common /\ \A v \in Common : v <= version[s]
    BY DEF Agreement, Common
  <2> QED
    BY RunsHasRead DEF LinkInv, ResultInv, IsHighest
<1> QED
  BY <1>1, Invariance, PTL

\* An end that refuses the other's list is never left with one that runs.
THEOREM RejectsTogetherAlways == Spec => []RejectsTogether
<1>1. LinkInv => RejectsTogether
  <2> SUFFICES ASSUME LinkInv, transport # "packet" /\ Fits, NEW s \in Sides,
                      result[s] = Refused, version[Other(s)] # None
               PROVE  FALSE
    BY DEF RejectsTogether
  <2>1. Common = {}
    BY DEF LinkInv, ResultInv
  <2> QED
    BY <2>1, RunsHasRead, SidesFacts DEF LinkInv, ResultInv, IsHighest
<1> QED
  BY <1>1, Invariance, PTL

\* Over a stream or a websocket a heartbeat never ends a connection, and no list
\* is left for a connection to read.
THEOREM HeartbeatsKeepAlways == Spec => []HeartbeatsKeep
<1>1. Init => HeartbeatsKeep
  BY DEF Init, HeartbeatsKeep
<1>2. LinkInv /\ HeartbeatsKeep /\ [Next]_vars => HeartbeatsKeep'
  <2> SUFFICES ASSUME LinkInv, HeartbeatsKeep, [Next]_vars,
                      transport # "packet", NEW t \in Sides
               PROVE  conn'[t] # "protocol"
    BY Unchanged DEF HeartbeatsKeep
  <2>1. conn[t] # "protocol" /\ conn = [s \in Sides |-> conn[s]]
    BY DEF HeartbeatsKeep, LinkInv, TypeOK
  <2>2. ASSUME NEW s \in Sides, Reads(s) PROVE conn' = conn
    BY <2>2, OrderRuns DEF LinkInv
  <2> QED
    BY <2>1, <2>2 DEF Next, vars, Starts, Negotiator, NegotiatorWrites,
       NegotiatorReads, NegotiatorFails, Start, Negotiated, NegotiationFails,
       NegotiationTimesOut, Runs, Pings, IsLost, Closes, Loses
<1> QED
  BY <1>1, <1>2, Invariance, PTL DEF Spec

=============================================================================
