-------------------------- MODULE ReconnectorProofs --------------------------
(***************************************************************************)
(* Proofs about Reconnector, for any number of runs and clients: type      *)
(* correctness, that there is always exactly one thing that leads to the   *)
(* next dial, and what becomes of the clients.                             *)
(***************************************************************************)
EXTENDS Reconnector, FiniteSetTheorems, TLAPS

----------------------------------------------------------------------------
(* The inductive invariant *)

\* Dial has begun a run, or the reactor is in its loop.
Looping == dp["Dial"] # "off" \/ rpc \in {"select", "sleep", "signal"}

\* Goroutines: Dial is over when run and the connector start, and the connector
\* is when the reactor returns.  A reactor leaves its loop when rc is stopped,
\* and nothing makes it run again.
GoroutinesInv ==
    /\ dp["Dial"] # "off" => rpc = "off"
    /\ rpc = "off" => dp["connector"] = "off"
    /\ dp["connector"] # "failed"
    /\ running => run > 0
    /\ ~stopped => run <= 1
    /\ ~stopped /\ run > 0 => Looping

\* Whatever belongs to a run belongs to one that began, and done is closed when
\* the loop is over.
RunsInv ==
    /\ errc \subseteq 1 .. run /\ done \subseteq 1 .. run
    /\ \A c \in Clients : /\ runOf[c] \in 0 .. run
                          /\ conn[c] = "none" <=> runOf[c] = 0
    /\ Looping => run \notin done

\* What of errc, the reactor and next holds the signal.
Tokens ==
    {s \in {"errc", "reactor", "next"} :
        \/ s = "errc" /\ run \in errc
        \/ s = "reactor" /\ rpc \in {"sleep", "signal"}
        \/ s = "next" /\ next}

\* There is one signal from when Dial begins, not only in the reactor's loop.
OneSource ==
    \/ Unsettled = {} /\ Dialing = {} /\ \E s \in Tokens : Tokens = {s}
    \/ Unsettled = {} /\ (\E t \in Dialers : Dialing = {t}) /\ Tokens = {}
    \/ (\E c \in Clients : Unsettled = {c}) /\ Dialing = {} /\ Tokens = {}
SignalInv == Looping => OneSource

\* A client that was not stored is the only one that can live.
StoreInv ==
    Looping => \A t \in Dialers : dp[t] = "store" => Unsettled \subseteq {hand[t]}

InStore(c) == \E t \in Dialers : dp[t] = "store" /\ hand[t] = c
ClientInv ==
    ~stopped => \A c \in Clients : conn[c] = "live" => client = c \/ InStore(c)

ReconnectorInv ==
    /\ TypeOK /\ GoroutinesInv /\ RunsInv
    /\ SignalInv /\ StoreInv /\ ClientInv /\ ClosedButLate

----------------------------------------------------------------------------
(* Types and goroutines *)

\* A reconnector that was never used.
LEMMA ReconnectorInit == Init => ReconnectorInv
<1> SUFFICES ASSUME Init PROVE ReconnectorInv
  OBVIOUS
<1> USE DEF Init, Dialers, NoClient
<1>1. TypeOK
  <2>1. run \in 0 .. MaxRuns /\ runOf \in [Clients -> 0 .. MaxRuns]
    BY BoundsAssumption
  <2>2. stopped \in BOOLEAN /\ running \in BOOLEAN
        /\ next \in BOOLEAN /\ nextClosed \in BOOLEAN
    OBVIOUS
  <2> QED
    BY <2>1, <2>2 DEF TypeOK, DialerPCs, ReactorPCs, ConnStates
<1>2. ~Looping
  BY DEF Looping
<1>3. GoroutinesInv /\ RunsInv
  BY <1>2, BoundsAssumption DEF GoroutinesInv, RunsInv, Clients
<1>4. SignalInv /\ StoreInv /\ ClientInv /\ ClosedButLate
  BY <1>2 DEF SignalInv, StoreInv, ClientInv, ClosedButLate
<1> QED
  BY <1>1, <1>3, <1>4 DEF ReconnectorInv

BaseInv == TypeOK /\ GoroutinesInv /\ RunsInv

\* A client that was made belongs to a run.
LEMMA MadeInARun ==
    ASSUME BaseInv, NEW c \in Clients, conn[c] # "none"
    PROVE  runOf[c] \in Runs /\ runOf[c] \in 1 .. run
BY BoundsAssumption DEF BaseInv, TypeOK, RunsInv, Runs

\* The types, which goroutines run and what belongs to the runs are kept by Close
\* and by what happens to the clients ...
LEMMA BaseClients ==
    ASSUME BaseInv,
           Close \/ \E c \in Clients : Breaks(c) \/ Halts(c) \/ Tells(c)
    PROVE  BaseInv'
<1> USE DEF BaseInv, TypeOK, GoroutinesInv, RunsInv, Looping,
            rcVars, chanVars, clientVars
<1>1. CASE Close
  <2>1. /\ conn' \in [Clients -> ConnStates] /\ stopped' = TRUE
        /\ \A c \in Clients : conn'[c] = "none" <=> conn[c] = "none"
    BY <1>1 DEF Close, CloseBody, ClosedConn, ConnStates
  <2> QED
    BY <1>1, <2>1 DEF Close
<1>2. ASSUME NEW c \in Clients, Breaks(c) \/ Halts(c) PROVE BaseInv'
  <2>1. /\ conn' \in [Clients -> ConnStates]
        /\ \A d \in Clients : conn'[d] = "none" <=> conn[d] = "none"
    BY <1>2 DEF Breaks, Halts, ConnStates
  <2>2. UNCHANGED <<rcVars, chanVars, runOf, byDial, run, dp, hand, rpc, late>>
    BY <1>2 DEF Breaks, Halts
  <2>3. TypeOK'
    BY <2>1, <2>2
  <2>4. GoroutinesInv' /\ RunsInv'
    BY <2>1, <2>2
  <2> QED
    BY <2>3, <2>4
<1>3. ASSUME NEW c \in Clients, Tells(c) PROVE BaseInv'
  <2>1. /\ conn' \in [Clients -> ConnStates]
        /\ \A d \in Clients : conn'[d] = "none" <=> conn[d] = "none"
    BY <1>3 DEF Tells, ConnStates
  <2>2. runOf[c] \in Runs /\ runOf[c] \in 1 .. run
    BY <1>3, MadeInARun DEF Tells
  <2>3. errc' \in SUBSET Runs /\ errc' \subseteq 1 .. run
    BY <1>3, <2>2 DEF Tells
  <2>4. UNCHANGED <<rcVars, done, next, nextClosed, runOf, byDial, run, dp, hand,
                    rpc, late>>
    BY <1>3 DEF Tells
  <2>5. TypeOK'
    BY <2>1, <2>3, <2>4
  <2>6. GoroutinesInv' /\ RunsInv'
    BY <2>1, <2>3, <2>4
  <2> QED
    BY <2>5, <2>6
<1> QED
  BY <1>1, <1>2, <1>3

\* ... by Dial ...
LEMMA BaseDial == ASSUME BaseInv, DialBegins \/ DialSteps PROVE BaseInv'
<1> USE DEF BaseInv, TypeOK, GoroutinesInv, RunsInv, Looping, Dialers, DialerPCs,
            ReactorPCs, Runs, rcVars, chanVars, clientVars
<1>1. CASE DialBegins
  <2>1. ~running /\ ~Looping /\ run < MaxRuns /\ run' = run + 1 /\ run \in Nat
        /\ (~stopped => run = 0)
    BY <1>1, BoundsAssumption DEF DialBegins
  <2>2. RunsInv'
    <3>1. 1 .. run \subseteq 1 .. run' /\ 0 .. run \subseteq 0 .. run'
          /\ run' \notin 1 .. run
      BY <2>1
    <3> QED
      BY <1>1, <3>1 DEF DialBegins
  <2>3. TypeOK'
    <3>1. run' \in 0 .. MaxRuns
      BY <2>1, BoundsAssumption
    <3>2. dp' \in [Dialers -> DialerPCs]
      BY <1>1 DEF DialBegins
    <3> QED
      BY <1>1, <3>1, <3>2 DEF DialBegins
  <2>4. GoroutinesInv'
    BY <1>1, <2>1 DEF DialBegins
  <2> QED
    BY <2>2, <2>3, <2>4
<1>2. CASE Connects("Dial")
  <2>1. PICK c \in Clients :
            /\ conn[c] = "none"
            /\ conn' = [conn EXCEPT ![c] = "live"]
            /\ runOf' = [runOf EXCEPT ![c] = run]
            /\ byDial' = byDial \cup {c}
            /\ hand' = [hand EXCEPT !["Dial"] = c]
    BY <1>2 DEF Connects
  <2>2. /\ conn' \in [Clients -> ConnStates] /\ byDial' \in SUBSET Clients
        /\ runOf' \in [Clients -> 0 .. MaxRuns]
        /\ hand' \in [Dialers -> Clients \cup {NoClient}]
    BY <2>1 DEF ConnStates
  <2>3. running /\ run > 0 /\ run \in Nat
    BY <1>2, BoundsAssumption DEF Connects
  <2>4. \A d \in Clients : /\ runOf'[d] \in 0 .. run
                           /\ conn'[d] = "none" <=> runOf'[d] = 0
    BY <2>1, <2>3
  <2> QED
    BY <1>2, <2>2, <2>4 DEF Connects
<1>3. CASE DialFails("Dial")
  BY <1>3 DEF DialFails
<1>4. CASE DialReports
  BY <1>4, BoundsAssumption DEF DialReports
<1>5. CASE DialStores
  <2>1. client' \in Clients \cup {NoClient} /\ late' \in SUBSET Clients
    BY <1>5 DEF DialStores, Stores
  <2> QED
    BY <1>5, <2>1 DEF DialStores, Stores
<1> QED
  BY <1>1, <1>2, <1>3, <1>4, <1>5 DEF DialSteps

\* ... by the connector ...
LEMMA BaseConnector == ASSUME BaseInv, Connector PROVE BaseInv'
<1> USE DEF BaseInv, TypeOK, GoroutinesInv, RunsInv, Looping, Dialers, DialerPCs,
            ReactorPCs, Runs, rcVars, chanVars, clientVars
<1>1. CASE ConnectorTakes \/ ConnectorReturns
  BY <1>1 DEF ConnectorTakes, ConnectorReturns
<1>2. CASE Connects("connector")
  <2>1. PICK c \in Clients :
            /\ conn[c] = "none"
            /\ conn' = [conn EXCEPT ![c] = "live"]
            /\ runOf' = [runOf EXCEPT ![c] = run]
            /\ byDial' = byDial
            /\ hand' = [hand EXCEPT !["connector"] = c]
    BY <1>2 DEF Connects
  <2>2. /\ conn' \in [Clients -> ConnStates]
        /\ runOf' \in [Clients -> 0 .. MaxRuns]
        /\ hand' \in [Dialers -> Clients \cup {NoClient}]
    BY <2>1 DEF ConnStates
  <2>3. running /\ run > 0 /\ run \in Nat
    BY <1>2, BoundsAssumption DEF Connects
  <2>4. \A d \in Clients : /\ runOf'[d] \in 0 .. run
                           /\ conn'[d] = "none" <=> runOf'[d] = 0
    BY <2>1, <2>3
  <2> QED
    BY <1>2, <2>1, <2>2, <2>4 DEF Connects
<1>3. CASE DialFails("connector")
  BY <1>3 DEF DialFails
<1>4. CASE ConnectorStores
  <2>1. client' \in Clients \cup {NoClient} /\ late' \in SUBSET Clients
    BY <1>4 DEF ConnectorStores, Stores
  <2> QED
    BY <1>4, <2>1 DEF ConnectorStores, Stores
<1>5. CASE ConnectorReports
  <2>1. run \in Nat /\ run > 0 /\ run \in 1 .. run /\ run \in Runs
    BY <1>5, BoundsAssumption DEF ConnectorReports
  <2>2. errc' \in SUBSET Runs /\ errc' \subseteq 1 .. run
    BY <1>5, <2>1 DEF ConnectorReports
  <2>3. dp' \in [Dialers -> DialerPCs] /\ dp'["Dial"] = dp["Dial"]
        /\ dp'["connector"] \in {"wait", "off"} /\ rpc # "off"
    BY <1>5 DEF ConnectorReports
  <2>4. \A t \in Dialers : t \in {"Dial", "connector"}
    OBVIOUS
  <2>5. TypeOK'
    BY <1>5, <2>2, <2>3 DEF ConnectorReports
  <2>6. GoroutinesInv' /\ RunsInv'
    BY <1>5, <2>2, <2>3 DEF ConnectorReports
  <2> QED
    BY <2>5, <2>6
<1> QED
  BY <1>1, <1>2, <1>3, <1>4, <1>5 DEF Connector

\* ... and by the reactor.
LEMMA BaseReactor == ASSUME BaseInv, Reactor PROVE BaseInv'
<1> USE DEF BaseInv, TypeOK, GoroutinesInv, RunsInv, Looping, Dialers, DialerPCs,
            ReactorPCs, Runs, rcVars, chanVars, clientVars, ReactorGoes
<1>1. CASE ReactorTakes \/ ReactorWakes \/ ReactorHalted \/ ReactorSignals
           \/ ReactorStops
  BY <1>1 DEF ReactorTakes, ReactorWakes, ReactorHalted, ReactorSignals,
     ReactorStops
<1>2. CASE ReactorCloses
  BY <1>2, BoundsAssumption DEF ReactorCloses
<1>3. CASE ReactorClosesClient
  <2>1. /\ conn' \in [Clients -> ConnStates] /\ stopped' \in BOOLEAN
        /\ \A c \in Clients : conn'[c] = "none" <=> conn[c] = "none"
        /\ stopped => stopped'
    BY <1>3 DEF ReactorClosesClient, CloseBody, ClosedConn, ConnStates
  <2> QED
    BY <1>3, <2>1 DEF ReactorClosesClient
<1>4. CASE ReactorJoins
  BY <1>4 DEF ReactorJoins
<1> QED
  BY <1>1, <1>2, <1>3, <1>4 DEF Reactor

----------------------------------------------------------------------------
(* One signal *)

\* Sets that are not changed do not change the signal.
LEMMA SourceStays ==
    ASSUME OneSource, Unsettled' = Unsettled, Dialing' = Dialing, Tokens' = Tokens
    PROVE  OneSource'
BY DEF OneSource

\* What is the signal is the only one.
LEMMA SourceIsOne ==
    ASSUME OneSource
    PROVE  /\ Tokens # {} => /\ Unsettled = {} /\ Dialing = {}
                             /\ \A r, s \in Tokens : r = s
           /\ Dialing # {} => /\ Unsettled = {} /\ Tokens = {}
                              /\ \A t, u \in Dialing : t = u
           /\ Unsettled # {} => /\ Dialing = {} /\ Tokens = {}
                                /\ \A c, d \in Unsettled : c = d
BY DEF OneSource

\* ... and moves from a channel to another thing like it,
LEMMA TokenMoves ==
    ASSUME OneSource, NEW s \in Tokens, NEW r, Unsettled' = Unsettled,
           Dialing' = Dialing, Tokens' = (Tokens \ {s}) \cup {r}
    PROVE  OneSource'
<1>1. Tokens' = {r}
  BY SourceIsOne
<1> QED
  BY <1>1, SourceIsOne DEF OneSource

\* from a channel to a dial,
LEMMA TokenIsTaken ==
    ASSUME OneSource, NEW s \in Tokens, NEW t \in Dialers, Unsettled' = Unsettled,
           Dialing' = Dialing \cup {t}, Tokens' = Tokens \ {s}
    PROVE  OneSource'
<1>1. Tokens' = {} /\ Dialing' = {t} /\ Unsettled' = {}
  BY SourceIsOne
<1> QED
  BY <1>1 DEF OneSource

\* from a dial to the client it makes,
LEMMA DialMakes ==
    ASSUME OneSource, NEW t \in Dialing, NEW c \in Clients, Tokens' = Tokens,
           Dialing' = Dialing \ {t}, Unsettled' = Unsettled \cup {c}
    PROVE  OneSource'
<1>1. Tokens' = {} /\ Dialing' = {} /\ Unsettled' = {c}
  BY SourceIsOne
<1> QED
  BY <1>1 DEF OneSource

\* from a dial that failed to a channel,
LEMMA DialReportsOne ==
    ASSUME OneSource, NEW t \in Dialing, NEW r, Unsettled' = Unsettled,
           Dialing' = Dialing \ {t}, Tokens' = Tokens \cup {r}
    PROVE  OneSource'
<1>1. Tokens' = {r} /\ Dialing' = {} /\ Unsettled' = {}
  BY SourceIsOne
<1> QED
  BY <1>1 DEF OneSource

\* and from a client that tells of its end to a channel.
LEMMA ClientTells ==
    ASSUME OneSource, NEW c \in Unsettled, NEW r, Dialing' = Dialing,
           Unsettled' = Unsettled \ {c}, Tokens' = Tokens \cup {r}
    PROVE  OneSource'
<1>1. Tokens' = {r} /\ Dialing' = {} /\ Unsettled' = {}
  BY SourceIsOne
<1> QED
  BY <1>1 DEF OneSource

\* What the signal is in depends on these alone.
LEMMA SourceDependsOn ==
    ASSUME run' = run
    PROVE  /\ conn' = conn /\ runOf' = runOf => Unsettled' = Unsettled
           /\ dp' = dp /\ hand' = hand => Dialing' = Dialing
           /\ errc' = errc /\ rpc' = rpc /\ next' = next => Tokens' = Tokens
BY DEF Unsettled, Dialing, Tokens

\* Closing a client leaves it unsettled, and makes none live.
LEMMA ClosedConnFacts ==
    ASSUME BaseInv
    PROVE  \A c \in Clients :
               /\ ClosedConn(client)[c] =
                      IF c = client /\ conn[c] = "live" THEN "closing" ELSE conn[c]
               /\ ClosedConn(client)[c] \in {"live", "closing", "ended"}
                      <=> conn[c] \in {"live", "closing", "ended"}
BY DEF BaseInv, TypeOK, ClosedConn, Clients, NoClient

\* The signal is kept by Close and by what happens to the clients ...
LEMMA SignalClients ==
    ASSUME BaseInv, SignalInv,
           Close \/ \E c \in Clients : Breaks(c) \/ Halts(c) \/ Tells(c)
    PROVE  SignalInv'
<1> USE DEF rcVars, chanVars, clientVars
<1>1. run' = run /\ dp' = dp /\ hand' = hand /\ rpc' = rpc /\ next' = next
      /\ runOf' = runOf
  BY DEF Close, Breaks, Halts, Tells
<1>2. Dialing' = Dialing /\ (Looping' <=> Looping)
  BY <1>1, SourceDependsOn DEF Looping
<1> SUFFICES ASSUME Looping, OneSource PROVE OneSource'
  BY <1>2 DEF SignalInv
<1>3. CASE Close
  <2>1. \A c \in Clients : conn'[c] \in {"live", "closing", "ended"}
                           <=> conn[c] \in {"live", "closing", "ended"}
    BY <1>3, ClosedConnFacts DEF Close, CloseBody
  <2>2. Unsettled' = Unsettled
    BY <1>1, <2>1 DEF Unsettled
  <2>3. Tokens' = Tokens
    BY <1>1, <1>3, SourceDependsOn DEF Close
  <2> QED
    BY <1>2, <2>2, <2>3, SourceStays
<1>4. ASSUME NEW c \in Clients, Breaks(c) \/ Halts(c) PROVE OneSource'
  <2>1. \A d \in Clients : conn'[d] \in {"live", "closing", "ended"}
                           <=> conn[d] \in {"live", "closing", "ended"}
    BY <1>4 DEF Breaks, Halts, BaseInv, TypeOK
  <2>2. Unsettled' = Unsettled
    BY <1>1, <2>1 DEF Unsettled
  <2>3. Tokens' = Tokens
    BY <1>1, <1>4, SourceDependsOn DEF Breaks, Halts
  <2> QED
    BY <1>2, <2>2, <2>3, SourceStays
<1>5. ASSUME NEW c \in Clients, Tells(c) PROVE OneSource'
  <2>1. \A d \in Clients : conn'[d] = IF d = c THEN "over" ELSE conn[d]
    BY <1>5 DEF Tells, BaseInv, TypeOK
  <2>2. CASE runOf[c] = run
    <3>1. c \in Unsettled /\ Unsettled' = Unsettled \ {c}
      BY <1>1, <1>5, <2>1, <2>2 DEF Unsettled, Tells
    <3>2. run \notin errc /\ errc' = errc \cup {run}
      BY <1>5, <2>2 DEF Tells, BaseInv, RunsInv
    <3>3. Tokens' = Tokens \cup {"errc"}
      BY <1>1, <3>2 DEF Tokens
    <3> QED
      BY <1>2, <3>1, <3>3, ClientTells
  <2>3. CASE runOf[c] # run
    <3>1. Unsettled' = Unsettled
      BY <1>1, <2>1, <2>3 DEF Unsettled
    <3>2. run \in errc' <=> run \in errc
      BY <1>5, <2>3 DEF Tells
    <3>3. Tokens' = Tokens
      BY <1>1, <3>2 DEF Tokens
    <3> QED
      BY <1>2, <3>1, <3>3, SourceStays
  <2> QED
    BY <2>2, <2>3
<1> QED
  BY <1>3, <1>4, <1>5

\* A dial of t makes a client c.
Makes(t, c) ==
    /\ dp[t] = "dialing" /\ conn[c] = "none"
    /\ conn' = [conn EXCEPT ![c] = "live"]
    /\ runOf' = [runOf EXCEPT ![c] = run]
    /\ hand' = [hand EXCEPT ![t] = c]
    /\ dp' = [dp EXCEPT ![t] = "store"]

\* The client a dial makes takes the signal over.
LEMMA SignalConnects ==
    ASSUME BaseInv, OneSource, NEW t \in Dialers, Connects(t)
    PROVE  /\ OneSource'
           /\ \E c \in Clients : Makes(t, c) /\ Unsettled = {} /\ Unsettled' = {c}
<1>1. PICK c \in Clients : Makes(t, c)
  BY DEF Connects, Makes
<1>2. run' = run /\ errc' = errc /\ rpc' = rpc /\ next' = next
  BY DEF Connects, chanVars
<1>3. \A d \in Clients : /\ conn'[d] = IF d = c THEN "live" ELSE conn[d]
                         /\ runOf'[d] = IF d = c THEN run ELSE runOf[d]
  BY <1>1 DEF BaseInv, TypeOK, Makes
<1>4. \A u \in Dialers : /\ dp'[u] = IF u = t THEN "store" ELSE dp[u]
                         /\ hand'[u] = IF u = t THEN c ELSE hand[u]
  BY <1>1 DEF BaseInv, TypeOK, Makes
<1>5. Unsettled' = Unsettled \cup {c}
  BY <1>1, <1>2, <1>3 DEF Unsettled
<1>6. t \in Dialing /\ Dialing' = Dialing \ {t}
  BY <1>1, <1>4 DEF Dialing, Makes, Clients, NoClient
<1>7. Tokens' = Tokens
  BY <1>2, SourceDependsOn
<1>8. Unsettled = {}
  BY <1>6, SourceIsOne
<1> QED
  BY <1>1, <1>5, <1>6, <1>7, <1>8, DialMakes

\* ... by Dial, which is the signal when it begins, and hands it on ...
LEMMA SignalDial ==
    ASSUME BaseInv, SignalInv, StoreInv, DialBegins \/ DialSteps
    PROVE  SignalInv'
<1> USE DEF rcVars, chanVars, clientVars, Dialers
<1>1. CASE DialBegins
  <2>1. ~running /\ run' = run + 1 /\ run \in Nat /\ dp["connector"] = "off"
        /\ rpc = "off"
    BY <1>1, BoundsAssumption DEF DialBegins, BaseInv, TypeOK
  <2>2. dp' = [dp EXCEPT !["Dial"] = "dialing"] /\ dp \in [Dialers -> DialerPCs]
        /\ rpc' = rpc /\ next' = FALSE /\ errc' = errc /\ runOf' = runOf
        /\ conn' = conn
    BY <1>1 DEF DialBegins, BaseInv, TypeOK
  <2>3. Dialing' = {"Dial"}
    BY <2>1, <2>2 DEF Dialing
  <2>4. run' \notin errc
    BY <2>1 DEF BaseInv, RunsInv
  <2>5. Tokens' = {}
    BY <2>1, <2>2, <2>4 DEF Tokens
  <2>6. \A c \in Clients : runOf[c] # run'
    BY <2>1 DEF BaseInv, RunsInv
  <2>7. Unsettled' = {}
    BY <2>2, <2>6 DEF Unsettled
  <2> QED
    BY <2>3, <2>5, <2>7 DEF SignalInv, OneSource
<1>2. CASE DialSteps
  <2>1. OneSource /\ dp["Dial"] # "off"
    BY <1>2 DEF DialSteps, Connects, DialFails, DialReports, DialStores, Stores,
       SignalInv, Looping
  <2>2. CASE Connects("Dial")
    BY <2>1, <2>2, SignalConnects DEF SignalInv
  <2>3. CASE DialFails("Dial")
    <3>1. \A u \in Dialers :
              /\ dp'[u] = IF u = "Dial" THEN "failed" ELSE dp[u]
              /\ hand'[u] = IF u = "Dial" THEN NoClient ELSE hand[u]
      BY <2>3 DEF DialFails, BaseInv, TypeOK
    <3>2. Dialing' = Dialing
      BY <2>3, <3>1 DEF Dialing, DialFails
    <3>3. Unsettled' = Unsettled /\ Tokens' = Tokens
      BY <2>3, SourceDependsOn DEF DialFails
    <3> QED
      BY <2>1, <3>2, <3>3, SourceStays DEF SignalInv
  <2>4. CASE DialReports
    <3>1. \A u \in Dialers : dp'[u] = IF u = "Dial" THEN "store" ELSE dp[u]
      BY <2>4 DEF DialReports, BaseInv, TypeOK
    <3>2. "Dial" \in Dialing /\ Dialing' = Dialing \ {"Dial"}
      BY <2>4, <3>1 DEF Dialing, DialReports
    <3>3. Tokens' = Tokens \cup {"errc"}
      BY <2>4 DEF Tokens, DialReports
    <3>4. Unsettled' = Unsettled
      BY <2>4, SourceDependsOn DEF DialReports
    <3> QED
      BY <2>1, <3>2, <3>3, <3>4, DialReportsOne DEF SignalInv
  <2>5. CASE DialStores
    <3>1. \A u \in Dialers : dp'[u] = IF u = "Dial" THEN "off" ELSE "wait"
      BY <2>5 DEF DialStores, Stores, BaseInv, TypeOK
    <3>2. rpc = "off" /\ dp["connector"] = "off" /\ dp["Dial"] = "store"
      BY <2>1, <2>5 DEF BaseInv, GoroutinesInv, DialStores, Stores
    <3>3. Dialing' = Dialing
      BY <3>1, <3>2 DEF Dialing
    <3>4. Tokens' = Tokens
      BY <2>5, <3>2 DEF Tokens, DialStores, Stores
    <3>5. Unsettled' = Unsettled
      BY <2>5, SourceDependsOn DEF DialStores, Stores
    <3> QED
      BY <2>1, <3>3, <3>4, <3>5, SourceStays DEF SignalInv
  <2> QED
    BY <1>2, <2>2, <2>3, <2>4, <2>5 DEF DialSteps
<1> QED
  BY <1>1, <1>2

\* ... by the connector ...
LEMMA SignalConnector ==
    ASSUME BaseInv, SignalInv, Connector
    PROVE  SignalInv'
<1> USE DEF rcVars, chanVars, clientVars, Dialers
<1>1. dp'["Dial"] = dp["Dial"] /\ rpc' = rpc /\ run' = run
  BY DEF Connector, ConnectorTakes, ConnectorReturns, Connects, DialFails,
     ConnectorStores, Stores, ConnectorReports, BaseInv, TypeOK
<1> SUFFICES ASSUME Looping, OneSource PROVE OneSource'
  BY <1>1 DEF SignalInv, Looping
<1>2. CASE ConnectorTakes
  <2>1. \A u \in Dialers : dp'[u] = IF u = "connector" THEN "dialing" ELSE dp[u]
    BY <1>2 DEF ConnectorTakes, BaseInv, TypeOK
  <2>2. Dialing' = Dialing \cup {"connector"}
    BY <1>2, <2>1 DEF Dialing, ConnectorTakes
  <2>3. "next" \in Tokens /\ Tokens' = Tokens \ {"next"}
    BY <1>2 DEF Tokens, ConnectorTakes
  <2>4. Unsettled' = Unsettled
    BY <1>2, SourceDependsOn DEF ConnectorTakes
  <2> QED
    BY <2>2, <2>3, <2>4, TokenIsTaken
<1>3. CASE ConnectorReturns
  <2>1. \A u \in Dialers : dp'[u] = IF u = "connector" THEN "off" ELSE dp[u]
    BY <1>3 DEF ConnectorReturns, BaseInv, TypeOK
  <2>2. Dialing' = Dialing
    BY <1>3, <2>1 DEF Dialing, ConnectorReturns
  <2>3. Unsettled' = Unsettled /\ Tokens' = Tokens
    BY <1>3, SourceDependsOn DEF ConnectorReturns
  <2> QED
    BY <2>2, <2>3, SourceStays
<1>4. CASE Connects("connector")
  BY <1>4, SignalConnects
<1>5. CASE DialFails("connector")
  <2>1. \A u \in Dialers :
            /\ dp'[u] = IF u = "connector" THEN "store" ELSE dp[u]
            /\ hand'[u] = IF u = "connector" THEN NoClient ELSE hand[u]
    BY <1>5 DEF DialFails, BaseInv, TypeOK
  <2>2. Dialing' = Dialing
    BY <1>5, <2>1 DEF Dialing, DialFails
  <2>3. Unsettled' = Unsettled /\ Tokens' = Tokens
    BY <1>5, SourceDependsOn DEF DialFails
  <2> QED
    BY <2>2, <2>3, SourceStays
<1>6. CASE ConnectorStores
  <2>1. \A u \in Dialers :
            dp'[u] = IF u # "connector" THEN dp[u]
                     ELSE IF hand["connector"] = NoClient THEN "report"
                     ELSE "wait"
    BY <1>6 DEF ConnectorStores, BaseInv, TypeOK
  <2>2. Dialing' = Dialing
    BY <1>6, <2>1 DEF Dialing, ConnectorStores, Stores
  <2>3. Unsettled' = Unsettled /\ Tokens' = Tokens
    BY <1>6, SourceDependsOn DEF ConnectorStores, Stores
  <2> QED
    BY <2>2, <2>3, SourceStays
<1>7. CASE ConnectorReports
  <2>1. run \notin done
    BY DEF BaseInv, RunsInv
  <2>2. \A u \in Dialers : dp'[u] = IF u = "connector" THEN "wait" ELSE dp[u]
    BY <1>7, <2>1 DEF ConnectorReports, BaseInv, TypeOK
  <2>3. "connector" \in Dialing /\ Dialing' = Dialing \ {"connector"}
    BY <1>7, <2>2 DEF Dialing, ConnectorReports
  <2>4. Tokens' = Tokens \cup {"errc"}
    BY <1>7, <2>1 DEF Tokens, ConnectorReports
  <2>5. Unsettled' = Unsettled
    BY <1>7, SourceDependsOn DEF ConnectorReports
  <2> QED
    BY <2>3, <2>4, <2>5, DialReportsOne
<1> QED
  BY <1>2, <1>3, <1>4, <1>5, <1>6, <1>7 DEF Connector

\* ... and by the reactor, until it leaves its loop.
LEMMA SignalReactor ==
    ASSUME BaseInv, SignalInv, Reactor
    PROVE  SignalInv'
<1> USE DEF rcVars, chanVars, clientVars, ReactorGoes
<1>1. dp' = dp /\ hand' = hand /\ run' = run /\ runOf' = runOf
      /\ dp["Dial"] = "off" /\ Dialing' = Dialing
  <2>1. dp' = dp /\ hand' = hand /\ run' = run /\ runOf' = runOf /\ rpc # "off"
    BY DEF Reactor, ReactorTakes, ReactorWakes, ReactorHalted, ReactorSignals,
       ReactorStops, ReactorCloses, ReactorClosesClient, ReactorJoins
  <2> QED
    BY <2>1, SourceDependsOn DEF BaseInv, GoroutinesInv
<1>2. CASE ReactorTakes
  <2>1. "errc" \in Tokens /\ Tokens' = (Tokens \ {"errc"}) \cup {"reactor"}
    BY <1>2 DEF Tokens, ReactorTakes
  <2>2. Unsettled' = Unsettled /\ OneSource
    BY <1>2, SourceDependsOn DEF ReactorTakes, SignalInv, Looping
  <2> QED
    BY <1>1, <2>1, <2>2, TokenMoves DEF SignalInv
<1>3. CASE ReactorWakes
  <2>1. Tokens' = Tokens
    BY <1>3 DEF Tokens, ReactorWakes
  <2>2. Unsettled' = Unsettled /\ OneSource
    BY <1>3, SourceDependsOn DEF ReactorWakes, SignalInv, Looping
  <2> QED
    BY <1>1, <2>1, <2>2, SourceStays DEF SignalInv
<1>4. CASE ReactorSignals
  <2>1. "reactor" \in Tokens /\ Tokens' = (Tokens \ {"reactor"}) \cup {"next"}
    BY <1>4 DEF Tokens, ReactorSignals
  <2>2. Unsettled' = Unsettled /\ OneSource
    BY <1>4, SourceDependsOn DEF ReactorSignals, SignalInv, Looping
  <2> QED
    BY <1>1, <2>1, <2>2, TokenMoves DEF SignalInv
<1>5. CASE ReactorHalted \/ ReactorStops \/ ReactorCloses \/ ReactorClosesClient
           \/ ReactorJoins
  <2>1. ~Looping'
    BY <1>1, <1>5 DEF Looping, ReactorHalted, ReactorStops, ReactorCloses,
       ReactorClosesClient, ReactorJoins
  <2> QED
    BY <2>1 DEF SignalInv
<1> QED
  BY <1>2, <1>3, <1>4, <1>5 DEF Reactor

----------------------------------------------------------------------------
(* What becomes of the clients *)

ClientsInv == StoreInv /\ ClientInv /\ ClosedButLate

\* Dial and the connector do not run together.
LEMMA OneDialer ==
    ASSUME BaseInv, NEW t \in Dialers, NEW u \in Dialers,
           dp[t] # "off", dp[u] # "off"
    PROVE  t = u
BY DEF BaseInv, GoroutinesInv, Dialers

\* Until it is stopped a reconnector has one run, and all that lives is of it.
LEMMA LivesUnsettled ==
    ASSUME BaseInv, ~stopped, NEW c \in Clients, conn[c] = "live"
    PROVE  c \in Unsettled /\ Looping
<1>1. runOf[c] \in 1 .. run
  BY MadeInARun
<1>2. run \in Nat /\ run <= 1
  BY BoundsAssumption DEF BaseInv, TypeOK, GoroutinesInv
<1>3. runOf[c] = run /\ run > 0
  BY <1>1, <1>2
<1> QED
  BY <1>3 DEF BaseInv, GoroutinesInv, Unsettled

\* A step that makes no client live or unsettled and leaves the dialers, the
\* current client and the flag alone keeps what is said of the clients.
LEMMA ClientsStay ==
    ASSUME ClientsInv,
           dp' = dp /\ hand' = hand /\ client' = client /\ late' = late,
           stopped' = stopped,
           Looping' => Looping /\ Unsettled' \subseteq Unsettled,
           \A c \in Clients : conn'[c] = "live" => conn[c] = "live"
    PROVE  ClientsInv'
BY DEF ClientsInv, StoreInv, ClientInv, ClosedButLate, InStore

\* They are kept by Close and by what happens to the clients ...
LEMMA ClientsClients ==
    ASSUME BaseInv, ClientsInv,
           Close \/ \E c \in Clients : Breaks(c) \/ Halts(c) \/ Tells(c)
    PROVE  ClientsInv'
<1> USE DEF rcVars, chanVars, clientVars
<1>1. /\ run' = run /\ dp' = dp /\ hand' = hand /\ rpc' = rpc /\ late' = late
      /\ runOf' = runOf /\ client' = client
      /\ (Looping' <=> Looping)
  BY DEF Close, Breaks, Halts, Tells, Looping
<1>2. CASE Close
  <2>1. ~stopped /\ stopped' = TRUE /\ conn' = ClosedConn(client)
    BY <1>2 DEF Close, CloseBody
  <2>2. \A c \in Clients :
            /\ conn'[c] = IF c = client /\ conn[c] = "live" THEN "closing"
                                                            ELSE conn[c]
            /\ conn'[c] \in {"live", "closing", "ended"}
                   <=> conn[c] \in {"live", "closing", "ended"}
    BY <2>1, ClosedConnFacts
  <2>3. Unsettled' = Unsettled
    BY <1>1, <2>2 DEF Unsettled
  <2>4. StoreInv'
    BY <1>1, <2>3 DEF ClientsInv, StoreInv
  <2>5. ClosedButLate'
    BY <1>1, <2>1, <2>2 DEF ClientsInv, ClientInv, ClosedButLate, InStore
  <2> QED
    BY <2>1, <2>4, <2>5 DEF ClientsInv, ClientInv
<1>3. ASSUME NEW c \in Clients, Breaks(c) \/ Halts(c) \/ Tells(c)
      PROVE  ClientsInv'
  <2>1. /\ conn[c] \in {"live", "closing", "ended"} /\ stopped' = stopped
        /\ conn'[c] \in {"ended", "over"}
        /\ \A d \in Clients : d # c => conn'[d] = conn[d]
    BY <1>3 DEF Breaks, Halts, Tells, BaseInv, TypeOK
  <2>2. Unsettled' \subseteq Unsettled
    BY <1>1, <2>1 DEF Unsettled
  <2> QED
    BY <1>1, <2>1, <2>2, ClientsStay
<1> QED
  BY <1>2, <1>3

\* ... when a dial makes a client, which is the only one then ...
LEMMA ClientsConnects ==
    ASSUME BaseInv, SignalInv, ClientsInv, NEW t \in Dialers, Connects(t)
    PROVE  ClientsInv'
<1>1. PICK c \in Clients : Makes(t, c)
  BY DEF Connects, Makes
<1>2. /\ run' = run /\ rpc' = rpc /\ client' = client /\ stopped' = stopped
      /\ late' = late /\ dp[t] = "dialing"
  BY DEF Connects, rcVars
<1>3. \A d \in Clients : conn'[d] = IF d = c THEN "live" ELSE conn[d]
  BY <1>1 DEF BaseInv, TypeOK, Makes
<1>4. \A u \in Dialers : /\ dp'[u] = IF u = t THEN "store" ELSE dp[u]
                         /\ hand'[u] = IF u = t THEN c ELSE hand[u]
  BY <1>1 DEF BaseInv, TypeOK, Makes
<1>5. InStore(c)' /\ \A d \in Clients : InStore(d) => InStore(d)'
  BY <1>2, <1>4 DEF InStore
<1>6. Looping => /\ \A u \in Dialers : dp'[u] = "store" => u = t
                 /\ Unsettled = {} /\ Unsettled' = {c}
  <2>1. ASSUME NEW u \in Dialers, dp'[u] = "store", u # t PROVE FALSE
    BY <1>2, <1>4, <2>1, OneDialer
  <2>2. Looping => \E d \in Clients : Makes(t, d) /\ Unsettled = {}
                                      /\ Unsettled' = {d}
    BY SignalConnects DEF SignalInv
  <2>3. \A d \in Clients : Makes(t, d) => d = c
    BY <1>1 DEF Makes, BaseInv, TypeOK
  <2> QED
    BY <2>1, <2>2, <2>3
<1>7. Looping' => Looping
  BY <1>2, <1>4 DEF Looping, Dialers
<1>8. StoreInv'
  BY <1>4, <1>6, <1>7 DEF StoreInv
<1>9. ClientInv'
  <2>1. ASSUME ~stopped, NEW d \in Clients, conn[d] = "live" PROVE FALSE
    BY <1>6, <2>1, LivesUnsettled
  <2> QED
    BY <1>2, <1>3, <1>5, <2>1 DEF ClientInv
<1>10. ClosedButLate'
  BY <1>2, <1>3, <1>5 DEF ClientsInv, ClosedButLate, InStore
<1> QED
  BY <1>8, <1>9, <1>10 DEF ClientsInv

\* ... when one is stored, which is then the current one ...
LEMMA ClientsStores ==
    ASSUME BaseInv, ClientsInv, NEW t \in Dialers, Stores(t),
           dp' \in [Dialers -> DialerPCs],
           \A u \in Dialers : dp'[u] # "store", Looping' => Looping
    PROVE  ClientsInv'
<1>1. /\ client' = hand[t] /\ conn' = conn /\ stopped' = stopped /\ hand' = hand
      /\ dp[t] = "store"
      /\ late' = IF stopped THEN late \cup ({hand[t]} \ {NoClient}) ELSE late
  BY DEF Stores, clientVars
<1>2. StoreInv'
  BY DEF StoreInv
<1>3. ClientInv'
  <2>1. ASSUME ~stopped, NEW c \in Clients, conn[c] = "live"
        PROVE  c = hand[t]
    <3>1. c \in Unsettled /\ Looping
      BY <2>1, LivesUnsettled
    <3> QED
      BY <1>1, <3>1 DEF ClientsInv, StoreInv
  <2> QED
    BY <1>1, <2>1 DEF ClientInv
<1>4. ClosedButLate'
  <2>1. ASSUME stopped, NEW c \in Clients, conn[c] = "live"
        PROVE  c \in late'
    <3>1. c \in late \/ InStore(c)
      BY <2>1 DEF ClientsInv, ClosedButLate, InStore
    <3>2. InStore(c) => c = hand[t]
      BY <1>1, OneDialer DEF InStore
    <3> QED
      BY <1>1, <2>1, <3>1, <3>2 DEF Clients, NoClient
  <2> QED
    BY <1>1, <2>1 DEF ClosedButLate
<1> QED
  BY <1>2, <1>3, <1>4 DEF ClientsInv

\* ... and when a dialer makes a step that does neither.
LEMMA ClientsDialer ==
    ASSUME BaseInv, SignalInv, ClientsInv, NEW t \in Dialers,
           \A u \in Dialers : u # t => dp'[u] = dp[u] /\ hand'[u] = hand[u],
           dp[t] # "store",
           dp'[t] = "store" => t \in Dialing /\ dp[t] # "off",
           UNCHANGED <<run, rpc, client, stopped, late, conn, runOf>>,
           Looping' => Looping
    PROVE  ClientsInv'
<1>1. \A c \in Clients : InStore(c) => InStore(c)'
  BY DEF InStore
<1>2. Unsettled' = Unsettled
  BY DEF Unsettled
<1>3. ASSUME Looping, NEW u \in Dialers, dp'[u] = "store"
      PROVE  Unsettled \subseteq {hand'[u]}
  <2>1. CASE u = t
    <3>1. Dialing # {} /\ OneSource
      BY <1>3, <2>1 DEF SignalInv
    <3> QED
      BY <3>1, SourceIsOne
  <2>2. CASE u # t
    BY <1>3, <2>2 DEF ClientsInv, StoreInv
  <2> QED
    BY <2>1, <2>2
<1>4. StoreInv'
  BY <1>2, <1>3 DEF StoreInv
<1>5. ClientInv' /\ ClosedButLate'
  BY <1>1 DEF ClientsInv, ClientInv, ClosedButLate, InStore
<1> QED
  BY <1>4, <1>5 DEF ClientsInv

\* So Dial and the connector keep what is said of the clients ...
LEMMA ClientsDialers ==
    ASSUME BaseInv, SignalInv, ClientsInv, DialBegins \/ DialSteps \/ Connector
    PROVE  ClientsInv'
<1> USE DEF rcVars, chanVars, clientVars, Dialers
<1>1. CASE DialBegins
  <2>1. /\ \A u \in Dialers : dp[u] = "off" /\ dp'[u] # "store"
        /\ UNCHANGED <<client, stopped, late, conn, hand>>
    BY <1>1 DEF DialBegins, BaseInv, TypeOK
  <2> QED
    BY <2>1 DEF ClientsInv, StoreInv, ClientInv, ClosedButLate, InStore
<1>2. CASE Connects("Dial") \/ Connects("connector")
  BY <1>2, ClientsConnects
<1>3. CASE DialFails("Dial") \/ DialReports
  <2>1. \A u \in Dialers : u # "Dial" => dp'[u] = dp[u] /\ hand'[u] = hand[u]
    BY <1>3 DEF DialFails, DialReports, BaseInv, TypeOK
  <2>2. /\ dp["Dial"] \in {"dialing", "failed"}
        /\ dp'["Dial"] = "store" => "Dial" \in Dialing
        /\ UNCHANGED <<run, rpc, client, stopped, late, conn, runOf>>
    BY <1>3 DEF DialFails, DialReports, Dialing, BaseInv, TypeOK
  <2> QED
    BY <2>1, <2>2, ClientsDialer DEF Looping
<1>4. CASE ConnectorTakes \/ ConnectorReturns \/ DialFails("connector")
           \/ ConnectorReports
  <2>1. \A u \in Dialers :
            u # "connector" => dp'[u] = dp[u] /\ hand'[u] = hand[u]
    BY <1>4 DEF ConnectorTakes, ConnectorReturns, DialFails, ConnectorReports,
       BaseInv, TypeOK
  <2>2. /\ dp["connector"] \in {"wait", "dialing", "report"}
        /\ dp'["connector"] = "store" => "connector" \in Dialing
        /\ UNCHANGED <<run, rpc, client, stopped, late, conn, runOf>>
    BY <1>4 DEF ConnectorTakes, ConnectorReturns, DialFails, ConnectorReports,
       Dialing, BaseInv, TypeOK
  <2> QED
    BY <2>1, <2>2, ClientsDialer DEF Looping
<1>5. CASE DialStores
  <2>1. dp' = [dp EXCEPT !["Dial"] = "off", !["connector"] = "wait"]
        /\ dp["Dial"] = "store"
    BY <1>5 DEF DialStores, Stores
  <2>2. \A u \in Dialers : dp'[u] # "store"
    BY <2>1 DEF BaseInv, TypeOK
  <2>3. Looping /\ dp' \in [Dialers -> DialerPCs]
    BY <2>1 DEF Looping, BaseInv, TypeOK, DialerPCs
  <2> QED
    BY <1>5, <2>2, <2>3, ClientsStores DEF DialStores
<1>6. CASE ConnectorStores
  <2>1. dp["connector"] = "store" /\ rpc' = rpc
        /\ \A u \in Dialers : dp'[u] = IF u # "connector" THEN dp[u]
                                       ELSE IF hand["connector"] = NoClient
                                       THEN "report" ELSE "wait"
    BY <1>6 DEF ConnectorStores, Stores, BaseInv, TypeOK
  <2>2. \A u \in Dialers : dp'[u] # "store"
    BY <2>1, OneDialer
  <2>3. (Looping' => Looping) /\ dp' \in [Dialers -> DialerPCs]
    BY <1>6, <2>1
       DEF ConnectorStores, Looping, BaseInv, TypeOK, DialerPCs
  <2> QED
    BY <1>6, <2>2, <2>3, ClientsStores DEF ConnectorStores
<1> QED
  BY <1>1, <1>2, <1>3, <1>4, <1>5, <1>6 DEF DialSteps, Connector

\* ... and so does the reactor, which closes a client only when rc is stopped.
LEMMA ClientsReactor == ASSUME BaseInv, ClientsInv, Reactor PROVE ClientsInv'
<1> USE DEF rcVars, chanVars, clientVars, ReactorGoes
<1>1. rpc # "off" /\ dp["Dial"] = "off" /\ run > 0
  BY DEF Reactor, ReactorTakes, ReactorWakes, ReactorHalted, ReactorSignals,
     ReactorStops, ReactorCloses, ReactorClosesClient, ReactorJoins, BaseInv,
     GoroutinesInv, TypeOK
<1>2. ReactorClosesClient => stopped
  BY <1>1 DEF ReactorClosesClient, BaseInv, GoroutinesInv, Looping
<1>3. UNCHANGED <<run, dp, hand, client, stopped, late, conn, runOf>>
  BY <1>2 DEF Reactor, ReactorTakes, ReactorWakes, ReactorHalted, ReactorSignals,
     ReactorStops, ReactorCloses, ReactorClosesClient, ReactorJoins, CloseBody
<1>4. Looping' => Looping
  BY <1>1 DEF Reactor, ReactorTakes, ReactorWakes, ReactorHalted, ReactorSignals,
     ReactorStops, ReactorCloses, ReactorClosesClient, ReactorJoins, Looping
<1>5. Unsettled' = Unsettled
  BY <1>3, SourceDependsOn
<1> QED
  BY <1>3, <1>4, <1>5, ClientsStay

----------------------------------------------------------------------------
(* The theorems *)

\* A step keeps the invariant.
LEMMA ReconnectorStep ==
    ASSUME ReconnectorInv, [Next]_vars PROVE ReconnectorInv'
<1> USE DEF ReconnectorInv, BaseInv, ClientsInv
<1>1. CASE UNCHANGED vars
  <2>1. UNCHANGED <<stopped, running, client, errc, done, next, nextClosed, conn,
                    runOf, byDial, run, dp, hand, rpc, late>>
    BY <1>1 DEF vars, rcVars, chanVars, clientVars
  <2>2. TypeOK'
    BY <2>1 DEF TypeOK
  <2>3. GoroutinesInv' /\ RunsInv' /\ (Looping' <=> Looping)
    BY <2>1 DEF GoroutinesInv, RunsInv, Looping
  <2>4. SignalInv' /\ Unsettled' = Unsettled
    BY <2>1, <2>3, SourceDependsOn, SourceStays DEF SignalInv
  <2>5. ClientsInv'
    BY <2>1, <2>3, <2>4, ClientsStay
  <2> QED
    BY <2>2, <2>3, <2>4, <2>5
<1>2. CASE Close \/ \E c \in Clients : Breaks(c) \/ Client(c)
  BY <1>2, BaseClients, SignalClients, ClientsClients DEF Client
<1>3. CASE DialBegins \/ DialSteps
  BY <1>3, BaseDial, SignalDial, ClientsDialers
<1>4. CASE Connector
  BY <1>4, BaseConnector, SignalConnector, ClientsDialers
<1>5. CASE Reactor
  BY <1>5, BaseReactor, SignalReactor, ClientsReactor
<1> QED
  BY <1>1, <1>2, <1>3, <1>4, <1>5 DEF Next, Resting

\* The invariant is inductive.
THEOREM Invariance == Spec => []ReconnectorInv
BY ReconnectorInit, ReconnectorStep, PTL DEF Spec

\* Every variable keeps its type, and no goroutine runs that rc.running hides.
THEOREM TypeCorrect == Spec => []TypeOK
<1>1. ReconnectorInv => TypeOK
  BY DEF ReconnectorInv
<1> QED
  BY <1>1, Invariance, PTL

\* While the reactor loops exactly one thing leads to the next dial, however many
\* clients there were and in whatever order they, the dials and Close came.
THEOREM OneSignalAlways == Spec => []OneSignal
<1>1. ReconnectorInv => OneSignal
  <2> SUFFICES ASSUME OneSource PROVE Signals = 1
    BY DEF ReconnectorInv, SignalInv, Looping, OneSignal
  <2>1. Cardinality({}) = 0 /\ \A x : Cardinality({x}) = 1
    BY FS_EmptySet, FS_Singleton
  <2>2. Signals = Cardinality(Unsettled) + Cardinality(Dialing)
                  + Cardinality(Tokens)
    BY DEF Signals, Tokens
  <2> QED
    <3>1. CASE Tokens # {}
      <4>1. Unsettled = {} /\ Dialing = {} /\ \E s : Tokens = {s}
        BY <3>1 DEF OneSource
      <4>2. Cardinality(Unsettled) = 0 /\ Cardinality(Dialing) = 0
        BY <2>1, <4>1
      <4>3. Cardinality(Tokens) = 1
        BY <2>1, <4>1
      <4> QED
        BY <2>2, <4>2, <4>3
    <3>2. CASE Dialing # {}
      <4>1. Unsettled = {} /\ Tokens = {} /\ \E t : Dialing = {t}
        BY <3>2 DEF OneSource
      <4>2. Cardinality(Unsettled) = 0 /\ Cardinality(Tokens) = 0
        BY <2>1, <4>1
      <4>3. Cardinality(Dialing) = 1
        BY <2>1, <4>1
      <4> QED
        BY <2>2, <4>2, <4>3
    <3>3. CASE Unsettled # {}
      <4>1. Dialing = {} /\ Tokens = {} /\ \E c : Unsettled = {c}
        BY <3>3 DEF OneSource
      <4>2. Cardinality(Dialing) = 0 /\ Cardinality(Tokens) = 0
        BY <2>1, <4>1
      <4>3. Cardinality(Unsettled) = 1
        BY <2>1, <4>1
      <4> QED
        BY <2>2, <4>2, <4>3
    <3> QED
      BY <3>1, <3>2, <3>3 DEF OneSource
<1> QED
  BY <1>1, Invariance, PTL

\* A reconnector that was not stopped has no live client but the current one,
\* from when the dial has stored it.
THEOREM ClientIsCurrentAlways == Spec => []ClientIsCurrent
<1>1. ReconnectorInv => ClientIsCurrent
  BY DEF ReconnectorInv, ClientInv, ClientIsCurrent, InStore
<1> QED
  BY <1>1, Invariance, PTL

\* A client that outlives Close was stored after it, or is about to be.
THEOREM ClosedButLateAlways == Spec => []ClosedButLate
<1>1. ReconnectorInv => ClosedButLate
  BY DEF ReconnectorInv
<1> QED
  BY <1>1, Invariance, PTL

=============================================================================
