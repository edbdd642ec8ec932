---------------------------- MODULE Reconnector ----------------------------
(***************************************************************************)
(* The Reconnector (src/reconnector.go): a client that dials again when    *)
(* its connection breaks.  Its goroutines are                              *)
(*                                                                         *)
(*   - the application, in Dial or in Close;                               *)
(*   - the reactor, run's own loop, which decides when to dial;            *)
(*   - the connector, which dials when the reactor says so;                *)
(*   - one per client: the disconnect callback the dialer makes.           *)
(*                                                                         *)
(* A client is known by the number of the call of rc.dial that made it.    *)
(* rc.dial is the application's function; what it promises (a client and   *)
(* later one callback, or an error) is what Dialer.Client does.            *)
(***************************************************************************)
EXTENDS Integers, FiniteSets

CONSTANTS
    MaxRuns,       \* bound: the calls of Dial that start a run
    MaxClients     \* bound: the clients rc.dial makes

ASSUME BoundsAssumption == MaxRuns \in Nat \ {0} /\ MaxClients \in Nat \ {0}

Runs == 1 .. MaxRuns
Clients == 1 .. MaxClients
NoClient == 0                  \* Go's nil
Dialers == {"Dial", "connector"}

VARIABLES
    stopped,     \* rc.stopped; rc.stop is closed with it
    running,     \* rc.running
    client,      \* rc.client
    run,         \* number of runs begun; each has its errc, next and done
    errc,        \* the runs whose errc (capacity 1) is full
    done,        \* the runs whose done is closed
    next,        \* the current run's channel next (capacity 1) is full
    nextClosed,  \* ... and is closed
    dp,          \* where Dial and the connector are
    hand,        \* the client their call of rc.dial has made
    rpc,         \* where the reactor is
    conn,        \* the clients' connections
    runOf,       \* history: the run each client was made in
    byDial,      \* history: clients made by Dial's own call of rc.dial
    late         \* history: clients stored in rc.client when it was stopped

rcVars     == <<stopped, running, client>>
chanVars   == <<errc, done, next, nextClosed>>
clientVars == <<conn, runOf, byDial>>
vars == <<rcVars, chanVars, clientVars, run, dp, hand, rpc, late>>

DialerPCs == {"off", "wait", "dialing", "failed", "store", "report"}
ReactorPCs == {"off", "select", "sleep", "signal", "defer", "close", "join"}
ConnStates == {"none", "live", "closing", "ended", "over"}

Init ==
    /\ stopped = FALSE /\ running = FALSE
    /\ client = NoClient
    /\ run = 0
    /\ errc = {} /\ done = {}
    /\ next = FALSE /\ nextClosed = FALSE
    /\ dp = [t \in Dialers |-> "off"]
    /\ hand = [t \in Dialers |-> NoClient]
    /\ rpc = "off"
    /\ conn = [c \in Clients |-> "none"]
    /\ runOf = [c \in Clients |-> 0]
    /\ byDial = {} /\ late = {}

----------------------------------------------------------------------------
(* The clients: a connection ends by itself or because it was closed, and  *)
(* tells its reconnector afterwards.                                       *)

Breaks(c) ==
    /\ conn[c] = "live"
    /\ conn' = [conn EXCEPT ![c] = "ended"]
    /\ UNCHANGED <<rcVars, chanVars, runOf, byDial, run, dp, hand, rpc, late>>

Halts(c) ==
    /\ conn[c] = "closing"
    /\ conn' = [conn EXCEPT ![c] = "ended"]
    /\ UNCHANGED <<rcVars, chanVars, runOf, byDial, run, dp, hand, rpc, late>>

\* Faulty: errc has no room, so only a reactor in its select receives; the
\* callback ignores a client that is not the current one.
TellsUnbuffered(c) ==
    /\ conn[c] = "ended"
    /\ conn' = [conn EXCEPT ![c] = "over"]
    /\ \/ /\ runOf[c] = run /\ rpc = "select"
          /\ run \notin errc /\ errc' = errc \cup {run}
       \/ c \notin byDial /\ runOf[c] \in done /\ UNCHANGED errc
    /\ UNCHANGED <<rcVars, done, next, nextClosed, runOf, byDial, run, dp, hand,
                   rpc, late>>
TellsCurrent(c) ==
    /\ conn[c] = "ended"
    /\ conn' = [conn EXCEPT ![c] = "over"]
    /\ errc' = IF client = c THEN errc \cup {runOf[c]} ELSE errc
    /\ UNCHANGED <<rcVars, done, next, nextClosed, runOf, byDial, run, dp, hand,
                   rpc, late>>

\* The callback sends to the errc of its run; but for that of Dial it also
\* looks at done.
Tells(c) ==
    /\ conn[c] = "ended"
    /\ conn' = [conn EXCEPT ![c] = "over"]
    /\ \/ runOf[c] \notin errc /\ errc' = errc \cup {runOf[c]}
       \/ c \notin byDial /\ runOf[c] \in done /\ UNCHANGED errc
    /\ UNCHANGED <<rcVars, done, next, nextClosed, runOf, byDial, run, dp, hand,
                   rpc, late>>

\* Close of a connection; closing it again is an error and changes nothing.
ClosedConn(c) ==
    IF c # NoClient /\ conn[c] = "live"
    THEN [conn EXCEPT ![c] = "closing"] ELSE conn

----------------------------------------------------------------------------
(* Close and Dial *)

\* Faulty: the client is not closed.
CloseBodyStops ==
    IF stopped \/ ~running
    THEN UNCHANGED <<stopped, conn>>
    ELSE stopped' = TRUE /\ UNCHANGED conn

\* All of it under the lock; refused when stopped or not running.
CloseBody ==
    IF stopped \/ ~running
    THEN UNCHANGED <<stopped, conn>>
    ELSE stopped' = TRUE /\ conn' = ClosedConn(client)

Close ==
    /\ running /\ ~stopped
    /\ CloseBody
    /\ UNCHANGED <<running, client, chanVars, runOf, byDial, run, dp, hand, rpc,
                   late>>

\* Dial claims the reconnector, which may be one that was stopped.
DialBegins ==
    /\ ~running /\ run < MaxRuns
    /\ running' = TRUE
    /\ run' = run + 1
    /\ next' = FALSE /\ nextClosed' = FALSE
    /\ dp' = [dp EXCEPT !["Dial"] = "dialing"]
    /\ UNCHANGED <<stopped, client, errc, done, clientVars, hand, rpc, late>>

\* rc.dial makes a client, whose connection is running from then on ...
Connects(t) ==
    /\ dp[t] = "dialing"
    /\ \E c \in Clients :
        /\ conn[c] = "none" /\ \A b \in Clients : b < c => conn[b] # "none"
        /\ conn' = [conn EXCEPT ![c] = "live"]
        /\ runOf' = [runOf EXCEPT ![c] = run]
        /\ byDial' = IF t = "Dial" THEN byDial \cup {c} ELSE byDial
        /\ hand' = [hand EXCEPT ![t] = c]
    /\ dp' = [dp EXCEPT ![t] = "store"]
    /\ UNCHANGED <<rcVars, chanVars, run, rpc, late>>

\* ... or returns an error, which Dial reports before it stores the nil client.
DialFails(t) ==
    /\ dp[t] = "dialing"
    /\ hand' = [hand EXCEPT ![t] = NoClient]
    /\ dp' = [dp EXCEPT ![t] = IF t = "Dial" THEN "failed" ELSE "store"]
    /\ UNCHANGED <<rcVars, chanVars, clientVars, run, rpc, late>>

DialReports ==
    /\ dp["Dial"] = "failed"
    /\ run \notin errc /\ errc' = errc \cup {run}
    /\ dp' = [dp EXCEPT !["Dial"] = "store"]
    /\ UNCHANGED <<rcVars, done, next, nextClosed, clientVars, run, hand, rpc,
                   late>>

\* Faulty: a client that is there is kept.
StoresFirst(t) ==
    /\ dp[t] = "store"
    /\ client' = IF client = NoClient THEN hand[t] ELSE client
    /\ late' = IF stopped THEN late \cup ({hand[t]} \ {NoClient}) ELSE late
    /\ UNCHANGED <<stopped, running, chanVars, clientVars, run, hand>>

\* rc.client = client, under the lock, whether or not rc is stopped.
Stores(t) ==
    /\ dp[t] = "store"
    /\ client' = hand[t]
    /\ late' = IF stopped THEN late \cup ({hand[t]} \ {NoClient}) ELSE late
    /\ UNCHANGED <<stopped, running, chanVars, clientVars, run, hand>>

\* go rc.run(errc)
DialStores ==
    /\ Stores("Dial")
    /\ rpc' = "select"
    /\ dp' = [dp EXCEPT !["Dial"] = "off", !["connector"] = "wait"]

----------------------------------------------------------------------------
(* The connector *)

ConnectorTakes ==
    /\ dp["connector"] = "wait" /\ next
    /\ next' = FALSE
    /\ dp' = [dp EXCEPT !["connector"] = "dialing"]
    /\ UNCHANGED <<rcVars, errc, done, nextClosed, clientVars, run, hand, rpc,
                   late>>

\* next is closed and drained, or done is closed
ConnectorReturns ==
    /\ dp["connector"] = "wait"
    /\ (nextClosed /\ ~next) \/ run \in done
    /\ dp' = [dp EXCEPT !["connector"] = "off"]
    /\ UNCHANGED <<rcVars, chanVars, clientVars, run, hand, rpc, late>>

\* Faulty: reports whether or not there is an error.
ConnectorStoresReports ==
    /\ Stores("connector")
    /\ dp' = [dp EXCEPT !["connector"] = "report"]
    /\ UNCHANGED rpc

ConnectorStores ==
    /\ Stores("connector")
    /\ dp' = [dp EXCEPT !["connector"] =
                 IF hand["connector"] = NoClient THEN "report" ELSE "wait"]
    /\ UNCHANGED rpc

ConnectorReports ==
    /\ dp["connector"] = "report"
    /\ \/ /\ run \notin errc /\ errc' = errc \cup {run}
          /\ dp' = [dp EXCEPT !["connector"] = "wait"]
       \/ /\ run \in done
          /\ dp' = [dp EXCEPT !["connector"] = "off"]
          /\ UNCHANGED errc
    /\ UNCHANGED <<rcVars, done, next, nextClosed, clientVars, run, hand, rpc,
                   late>>

----------------------------------------------------------------------------
(* The reactor.  cctx.Done() is the channel done, which only the reactor    *)
(* closes, as it returns: those cases of its selects never run.             *)

ReactorGoes(from, at) ==
    /\ rpc = from /\ rpc' = at
    /\ UNCHANGED <<clientVars, run, hand, late>>

ReactorTakes ==
    /\ run \in errc
    /\ errc' = errc \ {run}
    /\ ReactorGoes("select", "sleep")
    /\ UNCHANGED <<rcVars, done, next, nextClosed, dp>>

\* sleep: the delay passes, or it is halted.
ReactorWakes ==
    /\ ReactorGoes("sleep", "signal")
    /\ UNCHANGED <<rcVars, chanVars, dp>>

ReactorHalted ==
    /\ stopped
    /\ ReactorGoes("sleep", "defer")
    /\ UNCHANGED <<rcVars, chanVars, dp>>

ReactorSignals ==
    /\ ~next /\ next' = TRUE
    /\ ReactorGoes("signal", "select")
    /\ UNCHANGED <<rcVars, errc, done, nextClosed, dp>>

ReactorStops ==
    /\ stopped
    /\ nextClosed' = TRUE
    /\ ReactorGoes("select", "defer")
    /\ UNCHANGED <<rcVars, errc, done, next, dp>>

\* Faulty: done is not closed; the connector is not waited for.
ReactorClosesNot ==
    /\ ReactorGoes("defer", "close")
    /\ UNCHANGED <<rcVars, chanVars, dp>>
ReactorJoinsNot ==
    /\ running' = FALSE
    /\ ReactorGoes("join", "off")
    /\ UNCHANGED <<stopped, client, chanVars, dp>>

\* The deferred function: close(done); rc.Close(); wg.Wait()
ReactorCloses ==
    /\ done' = done \cup {run}
    /\ ReactorGoes("defer", "close")
    /\ UNCHANGED <<rcVars, errc, next, nextClosed, dp>>

ReactorClosesClient ==
    /\ rpc = "close" /\ rpc' = "join"
    /\ CloseBody
    /\ UNCHANGED <<running, client, chanVars, runOf, byDial, run, dp, hand,
                   late>>

ReactorJoins ==
    /\ dp["connector"] = "off"
    /\ running' = FALSE
    /\ ReactorGoes("join", "off")
    /\ UNCHANGED <<stopped, client, chanVars, dp>>

----------------------------------------------------------------------------

Client(c) == Halts(c) \/ Tells(c)
DialSteps == Connects("Dial") \/ DialFails("Dial") \/ DialReports \/ DialStores
Connector == ConnectorTakes \/ ConnectorReturns \/ Connects("connector")
             \/ DialFails("connector") \/ ConnectorStores \/ ConnectorReports
Reactor == ReactorTakes \/ ReactorWakes \/ ReactorHalted \/ ReactorSignals
           \/ ReactorStops \/ ReactorCloses \/ ReactorClosesClient
           \/ ReactorJoins

\* The application may leave a connected or an idle reconnector alone.
Resting ==
    /\ rpc = "select" \/ (~running /\ run = MaxRuns)
    /\ UNCHANGED vars

Next ==
    \/ Close \/ DialBegins \/ DialSteps
    \/ Connector \/ Reactor
    \/ \E c \in Clients : Breaks(c) \/ Client(c)
    \/ Resting

Spec == Init /\ [][Next]_vars

\* Every goroutine that can run does: rc.dial returns, a delay passes, a closed
\* connection ends.  Nothing is expected of the application or of the remote.  A
\* select that finds rc.stop closed time after time takes that case in the end,
\* as it chooses at random among the cases that are ready.
Fairness ==
    /\ WF_vars(DialSteps) /\ WF_vars(Connector) /\ WF_vars(Reactor)
    /\ SF_vars(ReactorHalted \/ ReactorStops)
    /\ \A c \in Clients : WF_vars(Client(c))

FairSpec == Spec /\ Fairness

----------------------------------------------------------------------------
(* Properties *)

\* Every variable keeps its type, and goroutines run only while rc.running.
TypeOK ==
    /\ stopped \in BOOLEAN /\ running \in BOOLEAN
    /\ client \in Clients \cup {NoClient}
    /\ run \in 0 .. MaxRuns
    /\ errc \in SUBSET Runs /\ done \in SUBSET Runs
    /\ next \in BOOLEAN /\ nextClosed \in BOOLEAN
    /\ dp \in [Dialers -> DialerPCs]
    /\ hand \in [Dialers -> Clients \cup {NoClient}]
    /\ rpc \in ReactorPCs
    /\ conn \in [Clients -> ConnStates]
    /\ runOf \in [Clients -> 0 .. MaxRuns]
    /\ byDial \in SUBSET Clients /\ late \in SUBSET Clients
    /\ ~running => rpc = "off" /\ \A t \in Dialers : dp[t] = "off"

\* What will make the current run dial again: a client that has yet to end and
\* to tell so, a call of rc.dial, its error on the way to the reactor, the
\* reactor between taking one and signalling, the signal.
Unsettled ==
    {c \in Clients : /\ runOf[c] = run
                     /\ conn[c] \in {"live", "closing", "ended"}}
Dialing ==
    {t \in Dialers :
        \/ dp[t] \in {"dialing", "failed", "report"}
        \/ t = "connector" /\ dp[t] = "store" /\ hand[t] = NoClient}
Signals ==
    Cardinality(Unsettled) + Cardinality(Dialing)
    + Cardinality({s \in {"errc", "reactor", "next"} :
                      \/ s = "errc" /\ run \in errc
                      \/ s = "reactor" /\ rpc \in {"sleep", "signal"}
                      \/ s = "next" /\ next})

\* "we are guaranteed only one send to errc per iteration of the connector"
\* (reconnector.go:176), whenever a client ends: while the reactor loops there
\* is always exactly one thing that leads to the next dial.  With none it would
\* never reconnect, with two there would be two connections.
OneSignal == rpc \in {"select", "sleep", "signal"} => Signals = 1

\* A client of a reconnector that was not stopped is the one Send and Request
\* use, from when its dial has stored it: they never use another's connection,
\* and find errUnavailable only if there is none.
ClientIsCurrent ==
    ~stopped /\ (\A t \in Dialers : dp[t] # "store") =>
        \A c \in Clients : conn[c] = "live" => client = c

\* Close closes the connection: one that lives on was stored after Close, by a
\* dial it had overtaken or by a Dial that came later.
ClosedButLate ==
    stopped => \A c \in Clients : conn[c] = "live" =>
                  \/ c \in late
                  \/ \E t \in Dialers : dp[t] = "store" /\ hand[t] = c

\* No client's callback is blocked for ever, though that of Dial sends to errc
\* whether or not anybody receives.
CallbacksReturn == \A c \in Clients : conn[c] = "ended" ~> conn[c] = "over"

\* A stopped reconnector comes to rest: its reactor and connector return.
StopsRunning == stopped ~> ~running

\* A connection that ended is dialled anew unless the reconnector is stopped.
Reconnects ==
    \A c \in Clients :
        conn[c] = "ended" ~> stopped \/ dp["connector"] = "dialing"

=============================================================================
