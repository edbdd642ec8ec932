------------------------------- MODULE Server -------------------------------
(***************************************************************************)
(* The Server (src/server.go): Serve accepts communicators, runConn makes  *)
(* and starts a connection for each, onEnd cleans up after it; the map     *)
(* srv.conns and the application's callbacks are shared under connsMu.     *)
(*                                                                         *)
(* The connections are numbered here as they are accepted; the code knows  *)
(* each by the ConnID that the Incrementer made.  What a connection does   *)
(* inside is Conn's business: here it is negotiated or not, and ends.      *)
(***************************************************************************)
EXTENDS Integers, Sequences, FiniteSets

CONSTANTS
    MaxConns,      \* bound: the communicators accepted
    PastConns,     \* how many connections may have come and gone before
    Base,          \* of the ConnIDs: 10
    GrowSize       \* the Incrementer's growSize

ASSUME ServerAssumption ==
    /\ MaxConns \in Nat \ {0} /\ PastConns \subseteq Nat
    /\ Base \in Nat \ {0, 1} /\ GrowSize \in Nat \ {0}

Inc == INSTANCE Incrementer

Conns == 1 .. MaxConns
Nobody == 0
NoID == <<>>

VARIABLES
    past,       \* the connections that came and went
    hasOnError, \* was the server given the ServerError option?
    serving,    \* where the call of Serve is; srv.running with it
    nextID,     \* srv.nextID
    id,         \* the ConnID of each
    connsMu,    \* the connection whose runConn or onEnd holds srv.connsMu
    conns,      \* the keys of srv.conns
    rc,         \* where each runConn is
    oe,         \* where each onEnd is
    conn,       \* the connections
    told,       \* history: the callbacks the application got for each
    crashed     \* a nil callback was called: the process panicked

vars == <<past, hasOnError, serving, nextID, id, connsMu, conns, rc, oe, conn,
          told,
          crashed>>

Init ==
    /\ past \in PastConns
    /\ hasOnError \in BOOLEAN
    /\ serving = "off"
    /\ nextID = Inc!After(past)
    /\ id = [c \in Conns |-> NoID]
    /\ connsMu = Nobody
    /\ conns = {}
    /\ rc = [c \in Conns |-> "off"]
    /\ oe = [c \in Conns |-> "off"]
    /\ conn = [c \in Conns |-> "new"]
    /\ told = [c \in Conns |-> {}]
    /\ crashed = FALSE

----------------------------------------------------------------------------
(* Serve *)

\* The compare-and-swap: a second Serve is refused until the first returns.
ServeBegins ==
    /\ serving = "off" /\ serving' = "accept"
    /\ UNCHANGED <<past, hasOnError, nextID, id, connsMu, conns, rc, oe, conn,
                   told, crashed>>

Accepted == Cardinality({c \in Conns : rc[c] # "off"})

\* id := ConnID(srv.nextID.Next()); go srv.runConn(id, raw)
Accepts ==
    /\ serving = "accept" /\ Accepted + 1 \in Conns
    /\ nextID' = Inc!Next(nextID)
    /\ id' = [id EXCEPT ![Accepted + 1] = Inc!Current(nextID')]
    /\ rc' = [rc EXCEPT ![Accepted + 1] = "lock"]
    /\ UNCHANGED <<past, hasOnError, serving, connsMu, conns, oe, conn, told,
                   crashed>>

\* Accept's error is not temporary: Serve closes the listener, not the
\* connections, and returns.
ServeReturns ==
    /\ serving = "accept" /\ serving' = "off"
    /\ UNCHANGED <<past, hasOnError, nextID, id, connsMu, conns, rc, oe, conn,
                   told, crashed>>

----------------------------------------------------------------------------
(* runConn *)

\* Faulty: the lock is not waited for; a failed start leaves it locked.
RunConnBegins(c) ==
    /\ rc[c] = "lock"
    /\ connsMu' = c
    /\ rc' = [rc EXCEPT ![c] = "start"]
    /\ conn' = [conn EXCEPT ![c] = "negotiating"]
    /\ UNCHANGED <<past, hasOnError, serving, nextID, id, conns, oe, told,
                   crashed>>
StartFailsLocked(c) ==
    /\ rc[c] = "start"
    /\ conn' = [conn EXCEPT ![c] = "failed"]
    /\ told' = [told EXCEPT ![c] = @ \cup {"error"}]
    /\ rc' = [rc EXCEPT ![c] = "done"]
    /\ UNCHANGED <<past, hasOnError, serving, nextID, id, connsMu, conns, oe,
                   crashed>>

RunConnLocks(c) ==
    /\ rc[c] = "lock" /\ connsMu = Nobody
    /\ connsMu' = c
    /\ rc' = [rc EXCEPT ![c] = "start"]
    /\ conn' = [conn EXCEPT ![c] = "negotiating"]
    /\ UNCHANGED <<past, hasOnError, serving, nextID, id, conns, oe, told,
                   crashed>>

\* start returned nil: go onEnd(id, <-clientEnded)
Started(c) ==
    /\ rc[c] = "start"
    /\ conn' = [conn EXCEPT ![c] = "up"]
    /\ oe' = [oe EXCEPT ![c] = "wait"]
    /\ rc' = [rc EXCEPT ![c] = "onConnect"]
    /\ UNCHANGED <<past, hasOnError, serving, nextID, id, connsMu, conns, told,
                   crashed>>

\* start returned an error (negotiation failed or timed out).
StartFails(c) ==
    /\ rc[c] = "start"
    /\ conn' = [conn EXCEPT ![c] = "failed"]
    /\ IF hasOnError
       THEN told' = [told EXCEPT ![c] = @ \cup {"error"}] /\ UNCHANGED crashed
       ELSE crashed' = TRUE /\ UNCHANGED told
    /\ rc' = [rc EXCEPT ![c] = "unlock"]
    /\ UNCHANGED <<past, hasOnError, serving, nextID, id, connsMu, conns, oe>>

OnConnect(c) ==
    /\ rc[c] = "onConnect"
    /\ told' = [told EXCEPT ![c] = @ \cup {"connect"}]
    /\ rc' = [rc EXCEPT ![c] = "enter"]
    /\ UNCHANGED <<past, hasOnError, serving, nextID, id, connsMu, conns, oe,
                   conn, crashed>>

\* srv.conns[id] = conn
RunConnEnters(c) ==
    /\ rc[c] = "enter"
    /\ conns' = conns \cup {id[c]}
    /\ rc' = [rc EXCEPT ![c] = "unlock"]
    /\ UNCHANGED <<past, hasOnError, serving, nextID, id, connsMu, oe, conn,
                   told, crashed>>

RunConnUnlocks(c) ==
    /\ rc[c] = "unlock"
    /\ rc' = [rc EXCEPT ![c] = "done"]
    /\ connsMu' = Nobody
    /\ UNCHANGED <<past, hasOnError, serving, nextID, id, conns, oe, conn,
                   told, crashed>>

----------------------------------------------------------------------------
(* A connection's end, and onEnd *)

ConnEnds(c) ==
    /\ conn[c] = "up"
    /\ conn' = [conn EXCEPT ![c] = "ended"]
    /\ UNCHANGED <<past, hasOnError, serving, nextID, id, connsMu, conns, rc,
                   oe, told, crashed>>

OnEndReceives(c) ==
    /\ oe[c] = "wait" /\ conn[c] = "ended"
    /\ oe' = [oe EXCEPT ![c] = "lock"]
    /\ UNCHANGED <<past, hasOnError, serving, nextID, id, connsMu, conns, rc,
                   conn, told, crashed>>

\* Faulty: onEnd does not take the lock; it deletes nothing.
OnEndDeletesUnlocked(c) ==
    /\ oe[c] = "lock"
    /\ conns' = conns \ {id[c]}
    /\ oe' = [oe EXCEPT ![c] = "onDisconnect"]
    /\ UNCHANGED <<past, hasOnError, serving, nextID, id, connsMu, rc, conn,
                   told, crashed>>
OnEndKeeps(c) ==
    /\ oe[c] = "lock" /\ connsMu = Nobody
    /\ oe' = [oe EXCEPT ![c] = "onDisconnect"]
    /\ UNCHANGED <<past, hasOnError, serving, nextID, id, connsMu, conns, rc,
                   conn, told, crashed>>

\* delete(srv.conns, id), all that is done under onEnd's lock
OnEndDeletes(c) ==
    /\ oe[c] = "lock" /\ connsMu = Nobody
    /\ conns' = conns \ {id[c]}
    /\ oe' = [oe EXCEPT ![c] = "onDisconnect"]
    /\ UNCHANGED <<past, hasOnError, serving, nextID, id, connsMu, rc, conn,
                   told, crashed>>

OnDisconnect(c) ==
    /\ oe[c] = "onDisconnect"
    /\ told' = [told EXCEPT ![c] = @ \cup {"disconnect"}]
    /\ oe' = [oe EXCEPT ![c] = "done"]
    /\ UNCHANGED <<past, hasOnError, serving, nextID, id, connsMu, conns, rc,
                   conn, crashed>>

----------------------------------------------------------------------------

RunConn(c) == RunConnLocks(c) \/ Started(c) \/ StartFails(c) \/ OnConnect(c)
              \/ RunConnEnters(c) \/ RunConnUnlocks(c)
OnEnd(c) == OnEndReceives(c) \/ OnEndDeletes(c) \/ OnDisconnect(c)

Next ==
    /\ ~crashed
    /\ \/ ServeBegins \/ Accepts \/ ServeReturns
       \/ \E c \in Conns : RunConn(c) \/ OnEnd(c) \/ ConnEnds(c)

Spec == Init /\ [][Next]_vars

----------------------------------------------------------------------------
(* Properties *)

\* Every variable keeps its type, and the lock is held by the runConn that is
\* between Lock and Unlock (onEnd's lock is within its action).
TypeOK ==
    /\ past \in PastConns /\ hasOnError \in BOOLEAN /\ crashed \in BOOLEAN
    /\ serving \in {"off", "accept"}
    /\ Inc!IsInc(nextID) /\ id \in [Conns -> Seq(0 .. Base - 1)]
    /\ connsMu \in Conns \cup {Nobody}
    /\ conns \subseteq {id[c] : c \in Conns}
    /\ rc \in [Conns -> {"off", "lock", "start", "onConnect", "enter",
                         "unlock", "done"}]
    /\ oe \in [Conns -> {"off", "wait", "lock", "onDisconnect", "done"}]
    /\ conn \in [Conns -> {"new", "negotiating", "failed", "up", "ended"}]
    /\ told \in [Conns -> SUBSET {"connect", "disconnect", "error"}]
    /\ \A c \in Conns :
           connsMu = c <=> rc[c] \in {"start", "onConnect", "enter", "unlock"}

\* "otherwise the onDisconnect callback can be called before the onConnect
\* callback" (server.go:120): however early a connection ends, the application
\* is told of its start first; of one that failed to start it gets the error.
ConnectFirst ==
    \A c \in Conns : /\ "disconnect" \in told[c] => "connect" \in told[c]
                     /\ "error" \in told[c] => told[c] = {"error"}

\* Whatever room the carries found or made in the buffer (incrementer.go:68),
\* the ConnIDs are the numerals of the connections' numbers, so that none is
\* given to two of them: onEnd would delete the other's entry.
IDsCountUp ==
    /\ nextID = Inc!After(past + Accepted)
    /\ \A c \in Conns : id[c] # NoID => id[c] = Inc!Numeral[past + c]

\* srv.conns holds the connections that run, when runConn is done, and none that
\* onEnd has seen the end of: the entry is never made after it was deleted.
MapHoldsLive ==
    \A c \in Conns :
        /\ rc[c] = "done" /\ conn[c] = "up" => id[c] \in conns
        /\ oe[c] \in {"onDisconnect", "done"} => id[c] \notin conns

\* Whatever the other connections do under the lock, the application is told of
\* each that was accepted, and of the end of each that ended: unless a start
\* fails and the server has no onError, which is called all the same.
EachIsTold ==
    \A c \in Conns :
        /\ rc[c] # "off" ~> crashed \/ told[c] \cap {"connect", "error"} # {}
        /\ conn[c] = "ended" ~> crashed \/ "disconnect" \in told[c]

=============================================================================
