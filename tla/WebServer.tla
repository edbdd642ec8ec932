----------------------------- MODULE WebServer -----------------------------
(***************************************************************************)
(* The Server with the websocket listener (src/wsocketsrv/listener.go):    *)
(* ServeHTTP, which net/http runs for each request, upgrades it and hands  *)
(* its Communicator to Accept through the queue l.comms, unless the        *)
(* application closes the listener.                                        *)
(***************************************************************************)
EXTENDS Server

CONSTANTS
    Requests,      \* the HTTP requests that are upgraded
    QueueCap       \* of l.comms: 1024

ASSUME WebServerAssumption ==
    QueueCap \in Nat \ {0} /\ Cardinality(Requests) <= MaxConns

VARIABLES
    web,        \* each request: its ServeHTTP, then its Communicator
    comms,      \* l.comms
    stop        \* is l.stop closed?

listenerVars == <<web, comms, stop>>
webVars == <<vars, listenerVars>>

WebInit ==
    /\ Init
    /\ web = [r \in Requests |-> "new"]
    /\ comms = <<>>
    /\ stop = FALSE

----------------------------------------------------------------------------
(* ServeHTTP *)

Upgrades(r) ==
    /\ web[r] = "new"
    /\ web' = [web EXCEPT ![r] = "waiting"]
    /\ UNCHANGED <<vars, comms, stop>>

Queues(r) ==
    /\ web[r] = "waiting" /\ Len(comms) < QueueCap
    /\ comms' = Append(comms, r)
    /\ web' = [web EXCEPT ![r] = "queued"]
    /\ UNCHANGED <<vars, stop>>

\* Faulty: the select has no case for l.stop.
DropsNever(r) == web[r] = "waiting" /\ FALSE /\ UNCHANGED webVars

\* case <-l.stop: the handler returns; the websocket stays open.
Drops(r) ==
    /\ web[r] = "waiting" /\ stop
    /\ web' = [web EXCEPT ![r] = "dropped"]
    /\ UNCHANGED <<vars, comms, stop>>

----------------------------------------------------------------------------
(* Accept and Close *)

\* Accept's select may take a Communicator when the listener is closed, too.
AcceptsComm ==
    /\ comms # <<>> /\ Accepts
    /\ comms' = Tail(comms)
    /\ web' = [web EXCEPT ![Head(comms)] = "accepted"]
    /\ UNCHANGED stop

\* "wslistener: listener closed": Serve's own Close finds it closed.
AcceptStops == stop /\ ServeReturns /\ UNCHANGED listenerVars

\* The application's Close; a second one is refused.
Close ==
    /\ ~stop /\ stop' = TRUE
    /\ UNCHANGED <<vars, web, comms>>

----------------------------------------------------------------------------

ServeStarts == ServeBegins /\ UNCHANGED listenerVars
ServerRuns(c) == (RunConn(c) \/ OnEnd(c)) /\ UNCHANGED listenerVars
ConnEndsWeb(c) == ConnEnds(c) /\ UNCHANGED listenerVars
ServeHTTP(r) == Queues(r) \/ Drops(r)

WebNext ==
    /\ ~crashed
    /\ \/ ServeStarts \/ AcceptsComm \/ AcceptStops \/ Close
       \/ \E c \in Conns : ServerRuns(c) \/ ConnEndsWeb(c)
       \/ \E r \in Requests : Upgrades(r) \/ ServeHTTP(r)

WebSpec == WebInit /\ [][WebNext]_webVars

\* The goroutines run: runConn and onEnd, whose negotiation ends within
\* ReadTimeout (negotiate), Serve's loop and the handlers.  Each waits for the
\* lock or the queue once, so weak fairness is enough.
WebFairness ==
    /\ \A c \in Conns :
        /\ WF_webVars(~crashed /\ RunConn(c) /\ UNCHANGED listenerVars)
        /\ WF_webVars(~crashed /\ OnEnd(c) /\ UNCHANGED listenerVars)
    /\ WF_webVars(~crashed /\ (AcceptsComm \/ AcceptStops))
    /\ \A r \in Requests : WF_webVars(~crashed /\ ServeHTTP(r))

FairWebSpec == WebSpec /\ WebFairness

----------------------------------------------------------------------------
(* Properties *)

\* A full queue holds up the handlers in ServeHTTP (listener.go:38); Accept
\* frees them, or the Close of the listener does, which Serve must see as well.
\* While the server serves, every websocket is accepted; a handler waits for
\* ever only if nobody serves and nobody closes the listener.
HandlersReturn ==
    /\ \A r \in Requests :
        web[r] \in {"waiting", "queued"} ~>
            \/ web[r] = "accepted" \/ crashed
            \/ stop /\ web[r] # "waiting"
            \/ ~stop /\ serving = "off"
    /\ stop ~> serving = "off" \/ crashed

=============================================================================
