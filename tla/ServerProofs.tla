---------------------------- MODULE ServerProofs ----------------------------
(***************************************************************************)
(* Proofs about Server, for any number of connections, of earlier ones and *)
(* any base and growSize: types and the lock, the ConnIDs, what the map    *)
(* holds and what the application is told; and that the server with the    *)
(* websocket listener, WebServer, is such a server.                        *)
(***************************************************************************)
EXTENDS WebServer, SharedLemmas

IncP == INSTANCE IncrementerProofs

----------------------------------------------------------------------------
(* The counter, from IncrementerProofs *)

\* What nextID counts with.
LEMMA CounterFacts ==
    /\ \A n \in Nat : /\ Inc!IsInc(Inc!After(n))
                      /\ Inc!Next(Inc!After(n)) = Inc!After(n + 1)
                      /\ Inc!Numeral[n] \in Seq(0 .. Base - 1)
    /\ \A n \in Nat \ {0} : /\ Inc!Current(Inc!After(n)) = Inc!Numeral[n]
                            /\ Inc!Numeral[n] # NoID
    /\ \A n, m \in Nat : Inc!Numeral[m] = Inc!Numeral[n] => m = n
<1>1. IncP!Bounds
  BY ServerAssumption DEF IncP!Bounds
<1>2. Inc!Numeral = IncP!Numeral
  BY DEF Inc!Numeral, IncP!Numeral
<1>3. \A n : Inc!After(n) = IncP!After(n)
  BY <1>2 DEF Inc!After, IncP!After, Inc!Fresh, IncP!Fresh
<1>4. \A inc : Inc!Next(inc) = IncP!Next(inc)
  BY DEF Inc!Next, IncP!Next, Inc!Carried, IncP!Carried, Inc!Cleared, IncP!Cleared,
         Inc!LastDigit, IncP!LastDigit, Inc!Fresh, IncP!Fresh, Inc!Max, IncP!Max
<1>5. \A inc : Inc!IsInc(inc) = IncP!IsInc(inc)
  BY DEF Inc!IsInc, IncP!IsInc, Inc!Digits, IncP!Digits
<1>6. \A inc : Inc!Current(inc) = IncP!Current(inc)
  BY DEF Inc!Current, IncP!Current
<1>7. ASSUME NEW n \in Nat
      PROVE  /\ Inc!IsInc(Inc!After(n))
             /\ Inc!Next(Inc!After(n)) = Inc!After(n + 1)
             /\ Inc!Numeral[n] \in Seq(0 .. Base - 1)
  <2>1. IncP!IsInc(IncP!After(n)) /\ IncP!Next(IncP!After(n)) = IncP!After(n + 1)
    BY <1>1, IncP!AfterIsInc, IncP!NextCounts
  <2>2. IncP!Numeral[n] \in Seq(0 .. Base - 1)
    BY <1>1, IncP!NumeralDef DEF IncP!Digits
  <2> QED
    BY <1>2, <1>3, <1>4, <1>5, <2>1, <2>2
<1>8. ASSUME NEW n \in Nat \ {0}
      PROVE  Inc!Current(Inc!After(n)) = Inc!Numeral[n] /\ Inc!Numeral[n] # NoID
  <2>1. IncP!Current(IncP!After(n)) = IncP!Numeral[n]
    BY <1>1, IncP!AfterIsInc
  <2>2. Len(IncP!Numeral[n]) > 0
    BY <1>1, IncP!NumeralLeads
  <2> QED
    BY <1>2, <1>3, <1>6, <2>1, <2>2 DEF NoID
<1>9. \A n, m \in Nat : Inc!Numeral[m] = Inc!Numeral[n] => m = n
  BY <1>1, <1>2, IncP!NumeralInjective
<1> QED
  BY <1>7, <1>8, <1>9

----------------------------------------------------------------------------
(* The inductive invariant *)

Past == {c \in Conns : rc[c] # "off"}

\* The connections are accepted in turn, each with the numeral of its number.
IDInv ==
    /\ Past = 1 .. Accepted /\ Accepted \in Nat
    /\ nextID = Inc!After(past + Accepted)
    /\ \A c \in Conns :
           id[c] = IF rc[c] = "off" THEN NoID ELSE Inc!Numeral[past + c]

\* What a connection, its onEnd and what was told of it can be, by where its
\* runConn is: onEnd waits for the lock until runConn is done.
Running(c) ==
    \/ conn[c] = "up" /\ oe[c] = "wait"
    \/ conn[c] = "ended" /\ oe[c] \in {"wait", "lock"}
Cleaned(c) == conn[c] = "ended" /\ oe[c] \in {"onDisconnect", "done"}
Failed(c) == conn[c] = "failed" /\ oe[c] = "off" /\ told[c] \subseteq {"error"}
StageInv ==
    \A c \in Conns :
        /\ rc[c] \in {"off", "lock"} =>
               conn[c] = "new" /\ oe[c] = "off" /\ told[c] = {}
        /\ rc[c] = "start" =>
               conn[c] = "negotiating" /\ oe[c] = "off" /\ told[c] = {}
        /\ rc[c] = "onConnect" => Running(c) /\ told[c] = {}
        /\ rc[c] = "enter" => Running(c) /\ told[c] = {"connect"}
        /\ rc[c] = "unlock" => \/ Failed(c)
                               \/ Running(c) /\ told[c] = {"connect"}
        /\ rc[c] = "done" =>
               \/ Failed(c)
               \/ /\ Running(c) \/ Cleaned(c)
                  /\ "connect" \in told[c] /\ "error" \notin told[c]

\* The map holds the IDs of the connections that were entered and not cleaned up.
Entered(c) == rc[c] \in {"unlock", "done"} /\ Running(c)
MapInv ==
    /\ \A c \in Conns : rc[c] # "off" => (id[c] \in conns <=> Entered(c))
    /\ conns \subseteq {id[c] : c \in Past}

ServerInv == TypeOK /\ IDInv /\ StageInv /\ MapInv

\* A server that has not served yet.
LEMMA ServerInit == Init => ServerInv
<1> SUFFICES ASSUME Init PROVE ServerInv
  OBVIOUS
<1> USE ServerAssumption DEF Init
<1>1. past \in Nat
  OBVIOUS
<1>2. Past = {} /\ Accepted = 0
  <2>1. Past = {}
    BY DEF Past
  <2> QED
    BY <2>1, FS_EmptySet DEF Past, Accepted
<1>3. TypeOK
  <2>1. Inc!IsInc(nextID)
    BY <1>1, CounterFacts
  <2>2. id \in [Conns -> Seq(0 .. Base - 1)]
    BY DEF NoID
  <2>3. \A c \in Conns : c # Nobody
    BY DEF Conns, Nobody
  <2> QED
    BY <2>1, <2>2, <2>3 DEF TypeOK
<1>4. IDInv
  BY <1>1, <1>2 DEF IDInv
<1>5. StageInv
  BY DEF StageInv
<1>6. MapInv
  BY DEF MapInv
<1> QED
  BY <1>3, <1>4, <1>5, <1>6 DEF ServerInv

----------------------------------------------------------------------------
(* The ConnIDs *)

\* The connection that is accepted next.
LEMMA NextAccepted ==
    ASSUME TypeOK, IDInv, Accepts
    PROVE  LET a == Accepted + 1 IN
           /\ a \in Conns /\ rc[a] = "off" /\ past + a \in Nat \ {0}
           /\ Past' = 1 .. a /\ Accepted' = a
           /\ nextID' = Inc!After(past + a)
           /\ id' = [id EXCEPT ![a] = Inc!Numeral[past + a]]
           /\ rc' = [rc EXCEPT ![a] = "lock"]
<1> DEFINE a == Accepted + 1
<1>1. a \in Conns /\ Accepted \in Nat /\ past \in Nat
  BY ServerAssumption DEF Accepts, IDInv, TypeOK
<1>2. past + Accepted \in Nat /\ (past + Accepted) + 1 = past + a
      /\ past + a \in Nat \ {0}
  BY <1>1
<1>3. rc[a] = "off"
  <2>1. a \notin 1 .. Accepted
    BY <1>1
  <2> QED
    BY <1>1, <2>1 DEF IDInv, Past
<1>4. nextID' = Inc!After(past + a)
  BY <1>2, CounterFacts DEF Accepts, IDInv
<1>5. Inc!Current(nextID') = Inc!Numeral[past + a]
  BY <1>2, <1>4, CounterFacts
<1>6. rc' = [rc EXCEPT ![a] = "lock"]
      /\ id' = [id EXCEPT ![a] = Inc!Numeral[past + a]]
  BY <1>5 DEF Accepts
<1>7. Past' = 1 .. a
  <2>1. Past' = Past \cup {a}
    BY <1>1, <1>6 DEF Past, TypeOK
  <2>2. 1 .. a = (1 .. Accepted) \cup {a}
    BY <1>1
  <2> QED
    BY <2>1, <2>2 DEF IDInv
<1>8. Accepted' = a
  <2>1. Cardinality(1 .. a) = a
    BY <1>1, FS_Interval
  <2> QED
    BY <1>7, <2>1 DEF Accepted, Past
<1> QED
  BY <1>1, <1>2, <1>3, <1>4, <1>6, <1>7, <1>8

\* It gets an ID that no other connection has.
LEMMA IDAccepts == ASSUME TypeOK, IDInv, Accepts PROVE IDInv'
<1> DEFINE a == Accepted + 1
<1>1. /\ a \in Conns /\ rc[a] = "off" /\ past + a \in Nat \ {0}
      /\ Past' = 1 .. a /\ Accepted' = a
      /\ nextID' = Inc!After(past + a)
      /\ id' = [id EXCEPT ![a] = Inc!Numeral[past + a]]
      /\ rc' = [rc EXCEPT ![a] = "lock"]
  BY NextAccepted
<1>2. a \in Nat /\ past' = past
  BY DEF IDInv, Accepts
<1> HIDE DEF a
<1>3. ASSUME NEW c \in Conns
      PROVE  id'[c] = IF rc'[c] = "off" THEN NoID ELSE Inc!Numeral[past' + c]
  <2>1. id[c] = IF rc[c] = "off" THEN NoID ELSE Inc!Numeral[past + c]
    BY DEF IDInv
  <2>2. /\ id'[c] = IF c = a THEN Inc!Numeral[past + a] ELSE id[c]
        /\ rc'[c] = IF c = a THEN "lock" ELSE rc[c]
    BY <1>1 DEF TypeOK
  <2> QED
    BY <1>2, <2>1, <2>2
<1> QED
  BY <1>1, <1>2, <1>3 DEF IDInv

\* The other steps accept none.
LEMMA IDStays ==
    ASSUME IDInv, UNCHANGED <<past, nextID, id>>,
           \A c \in Conns : rc'[c] = "off" <=> rc[c] = "off"
    PROVE  IDInv' /\ Past' = Past
<1>1. Past' = Past
  BY DEF Past
<1>2. Accepted' = Accepted
  BY <1>1 DEF Accepted, Past
<1> QED
  BY <1>1, <1>2 DEF IDInv

\* No two connections have the same ID, and none that was accepted is without.
LEMMA IDsDiffer ==
    ASSUME TypeOK, IDInv
    PROVE  /\ \A c \in Past : id[c] # NoID
           /\ \A c, d \in Past : id[c] = id[d] => c = d
<1>1. past \in Nat /\ \A c \in Conns : past + c \in Nat \ {0}
  BY ServerAssumption DEF TypeOK, Conns
<1>2. \A c \in Past : c \in Conns /\ id[c] = Inc!Numeral[past + c]
  BY DEF IDInv, Past
<1>3. ASSUME NEW c \in Past, NEW d \in Past, id[c] = id[d] PROVE c = d
  <2>1. past + c = past + d
    <3>1. past + c \in Nat /\ past + d \in Nat
      BY <1>1, <1>2
    <3>2. Inc!Numeral[past + c] = Inc!Numeral[past + d]
      BY <1>2, <1>3
    <3> QED
      BY <3>1, <3>2, CounterFacts
  <2> QED
    BY <1>1, <1>2, <2>1 DEF Conns
<1> QED
  BY <1>1, <1>2, <1>3, CounterFacts

----------------------------------------------------------------------------
(* The types and the lock *)

Stages ==
    /\ rc \in [Conns -> {"off", "lock", "start", "onConnect", "enter",
                         "unlock", "done"}]
    /\ oe \in [Conns -> {"off", "wait", "lock", "onDisconnect", "done"}]
    /\ conn \in [Conns -> {"new", "negotiating", "failed", "up", "ended"}]
    /\ told \in [Conns -> SUBSET {"connect", "disconnect", "error"}]
LockInv ==
    \A c \in Conns :
        connsMu = c <=> rc[c] \in {"start", "onConnect", "enter", "unlock"}

\* The steps of runConn, onEnd and a connection.
ConnStep(c) == RunConn(c) \/ OnEnd(c) \/ ConnEnds(c)

\* They change what is kept of their own connection only ...
LEMMA StagesStep ==
    ASSUME Stages, NEW c \in Conns, ConnStep(c)
    PROVE  /\ Stages' /\ UNCHANGED <<past, hasOnError, serving, nextID, id>>
           /\ rc[c] = "off" <=> rc'[c] = "off"
           /\ \A d \in Conns : d # c =>
                 rc'[d] = rc[d] /\ oe'[d] = oe[d] /\ conn'[d] = conn[d]
                 /\ told'[d] = told[d]
<1> USE DEF Stages
<1>1. CASE RunConnLocks(c)
  BY <1>1 DEF RunConnLocks
<1>2. CASE Started(c)
  BY <1>2 DEF Started
<1>3. CASE StartFails(c)
  BY <1>3 DEF StartFails
<1>4. CASE OnConnect(c)
  BY <1>4 DEF OnConnect
<1>5. CASE RunConnEnters(c)
  BY <1>5 DEF RunConnEnters
<1>6. CASE RunConnUnlocks(c)
  BY <1>6 DEF RunConnUnlocks
<1>7. CASE OnEndReceives(c)
  BY <1>7 DEF OnEndReceives
<1>8. CASE OnEndDeletes(c)
  BY <1>8 DEF OnEndDeletes
<1>9. CASE OnDisconnect(c)
  BY <1>9 DEF OnDisconnect
<1>10. CASE ConnEnds(c)
  BY <1>10 DEF ConnEnds
<1> QED
  BY <1>1, <1>2, <1>3, <1>4, <1>5, <1>6, <1>7, <1>8, <1>9, <1>10
     DEF ConnStep, RunConn, OnEnd

\* ... and take the lock only when it is free.
LEMMA LockStep ==
    ASSUME Stages, LockInv, NEW c \in Conns, ConnStep(c)
    PROVE  LockInv'
<1>1. c # Nobody /\ \A d \in Conns : d # c => rc'[d] = rc[d]
  BY StagesStep DEF Conns, Nobody
<1>2. CASE RunConnLocks(c)
  <2>1. connsMu = Nobody /\ connsMu' = c /\ rc'[c] = "start"
    BY <1>2 DEF RunConnLocks, Stages
  <2>2. \A d \in Conns : d # Nobody
    BY DEF Conns, Nobody
  <2> QED
    BY <1>1, <2>1, <2>2 DEF LockInv
<1>3. CASE RunConnUnlocks(c)
  <2>1. rc[c] = "unlock" /\ connsMu' = Nobody /\ rc'[c] = "done"
    BY <1>3 DEF RunConnUnlocks, Stages
  <2>2. connsMu = c /\ \A d \in Conns : d # Nobody
    BY <2>1 DEF LockInv, Conns, Nobody
  <2> QED
    BY <1>1, <2>1, <2>2 DEF LockInv
<1>4. CASE Started(c) \/ StartFails(c) \/ OnConnect(c) \/ RunConnEnters(c)
  <2>1. /\ connsMu' = connsMu
        /\ rc[c] \in {"start", "onConnect", "enter", "unlock"}
        /\ rc'[c] \in {"start", "onConnect", "enter", "unlock"}
    BY <1>4 DEF Started, StartFails, OnConnect, RunConnEnters, Stages
  <2> QED
    BY <1>1, <2>1 DEF LockInv
<1>5. CASE OnEnd(c) \/ ConnEnds(c)
  BY <1>5 DEF OnEnd, OnEndReceives, OnEndDeletes, OnDisconnect, ConnEnds, LockInv
<1> QED
  BY <1>2, <1>3, <1>4, <1>5 DEF ConnStep, RunConn

\* A step of a connection keeps the types, the stages and the owner of the lock.
LEMMA TypeConn ==
    ASSUME TypeOK, NEW c \in Conns, ConnStep(c)
    PROVE  TypeOK'
<1>1. Stages /\ LockInv
  BY DEF TypeOK, Stages, LockInv
<1>2. Stages' /\ LockInv' /\ UNCHANGED <<past, hasOnError, serving, nextID, id>>
  BY <1>1, StagesStep, LockStep
<1>3. conns' \subseteq {id[d] : d \in Conns} /\ connsMu' \in Conns \cup {Nobody}
      /\ crashed' \in BOOLEAN
  BY DEF TypeOK, ConnStep, RunConn, RunConnLocks, Started, StartFails, OnConnect,
     RunConnEnters, RunConnUnlocks, OnEnd, OnEndReceives, OnEndDeletes,
     OnDisconnect, ConnEnds
<1> QED
  BY <1>2, <1>3 DEF TypeOK, Stages, LockInv

\* What is accepted waits for the lock.
LEMMA TypeAccepts == ASSUME TypeOK, IDInv, MapInv, Accepts PROVE TypeOK'
<1> DEFINE a == Accepted + 1
<1>1. /\ a \in Conns /\ rc[a] = "off" /\ past + a \in Nat \ {0}
      /\ nextID' = Inc!After(past + a)
      /\ id' = [id EXCEPT ![a] = Inc!Numeral[past + a]]
      /\ rc' = [rc EXCEPT ![a] = "lock"]
  BY NextAccepted
<1>2. UNCHANGED <<past, hasOnError, serving, connsMu, conns, oe, conn, told, crashed>>
  BY DEF Accepts
<1> HIDE DEF a
<1>3. Inc!IsInc(nextID') /\ Inc!Numeral[past + a] \in Seq(0 .. Base - 1)
  BY <1>1, CounterFacts
<1>4. id' \in [Conns -> Seq(0 .. Base - 1)]
  BY <1>1, <1>3 DEF TypeOK
<1>5. conns' \subseteq {id'[c] : c \in Conns}
  <2>1. \A c \in Past : c \in Conns /\ id'[c] = id[c]
    BY <1>1 DEF Past, TypeOK
  <2> QED
    BY <1>2, <2>1 DEF MapInv
<1>6. Stages /\ LockInv
  BY DEF TypeOK, Stages, LockInv
<1>7. Stages'
  BY <1>1, <1>2, <1>6 DEF Stages
<1>8. LockInv'
  BY <1>1, <1>2, <1>6 DEF LockInv, Stages
<1> QED
  BY <1>2, <1>3, <1>4, <1>5, <1>7, <1>8 DEF TypeOK, Stages, LockInv

----------------------------------------------------------------------------
(* The stages and the map *)

\* A connection goes from stage to stage ...
LEMMA StageConn ==
    ASSUME TypeOK, StageInv, NEW c \in Conns, ConnStep(c)
    PROVE  StageInv'
<1> DEFINE At(d) ==
        /\ rc[d] \in {"off", "lock"} =>
               conn[d] = "new" /\ oe[d] = "off" /\ told[d] = {}
        /\ rc[d] = "start" =>
               conn[d] = "negotiating" /\ oe[d] = "off" /\ told[d] = {}
        /\ rc[d] = "onConnect" => Running(d) /\ told[d] = {}
        /\ rc[d] = "enter" => Running(d) /\ told[d] = {"connect"}
        /\ rc[d] = "unlock" => \/ Failed(d)
                               \/ Running(d) /\ told[d] = {"connect"}
        /\ rc[d] = "done" =>
               \/ Failed(d)
               \/ /\ Running(d) \/ Cleaned(d)
                  /\ "connect" \in told[d] /\ "error" \notin told[d]
<1>1. \A d \in Conns : At(d)
  BY DEF StageInv
<1>2. Stages /\ LockInv
  BY DEF TypeOK, Stages, LockInv
<1>3. \A d \in Conns : d # c =>
          rc'[d] = rc[d] /\ oe'[d] = oe[d] /\ conn'[d] = conn[d]
          /\ told'[d] = told[d]
  BY <1>2, StagesStep
<1>4. \A d \in Conns : d # c => At(d)'
  BY <1>1, <1>3 DEF Running, Cleaned, Failed
<1>5. At(c)'
  <2> USE <1>1, <1>2 DEF Running, Cleaned, Failed, Stages
  <2>1. CASE RunConnLocks(c)
    BY <2>1 DEF RunConnLocks
  <2>2. CASE Started(c)
    BY <2>2 DEF Started
  <2>3. CASE StartFails(c)
    BY <2>3 DEF StartFails
  <2>4. CASE OnConnect(c)
    BY <2>4 DEF OnConnect
  <2>5. CASE RunConnEnters(c)
    BY <2>5 DEF RunConnEnters
  <2>6. CASE RunConnUnlocks(c)
    BY <2>6 DEF RunConnUnlocks
  <2>7. CASE OnEndReceives(c)
    BY <2>7 DEF OnEndReceives
  <2>8. CASE OnEndDeletes(c)
    <3>1. rc[c] \notin {"start", "onConnect", "enter", "unlock"}
      BY <2>8 DEF OnEndDeletes, LockInv, Conns, Nobody
    <3> QED
      BY <2>8, <3>1 DEF OnEndDeletes
  <2>9. CASE OnDisconnect(c)
    BY <2>9 DEF OnDisconnect
  <2>10. CASE ConnEnds(c)
    BY <2>10 DEF ConnEnds
  <2> QED
    BY <2>1, <2>2, <2>3, <2>4, <2>5, <2>6, <2>7, <2>8, <2>9, <2>10
       DEF ConnStep, RunConn, OnEnd
<1> HIDE DEF At
<1>6. \A d \in Conns : At(d)'
  BY <1>4, <1>5
<1> QED
  BY <1>6 DEF StageInv, At

\* A connection that is accepted is new.
LEMMA StageAccepts ==
    ASSUME TypeOK, IDInv, StageInv, Accepts
    PROVE  StageInv'
<1> DEFINE a == Accepted + 1
<1>1. a \in Conns /\ rc[a] = "off" /\ rc' = [rc EXCEPT ![a] = "lock"]
  BY NextAccepted
<1>2. UNCHANGED <<oe, conn, told>>
  BY DEF Accepts
<1> HIDE DEF a
<1>3. \A c \in Conns : rc'[c] = IF c = a THEN "lock" ELSE rc[c]
  BY <1>1 DEF TypeOK
<1>4. \A c \in Conns : Running(c)' = Running(c) /\ Cleaned(c)' = Cleaned(c)
                       /\ Failed(c)' = Failed(c)
  BY <1>2 DEF Running, Cleaned, Failed
<1> QED
  BY <1>1, <1>2, <1>3, <1>4 DEF StageInv

\* ... and its entry is made when it is told of, and deleted when onEnd has the
\* lock: nobody else's is, as no two IDs are the same.
LEMMA MapConn ==
    ASSUME TypeOK, IDInv, StageInv, MapInv, NEW c \in Conns, ConnStep(c)
    PROVE  MapInv'
<1>1. Stages /\ LockInv
  BY DEF TypeOK, Stages, LockInv
<1>2. /\ id' = id
      /\ rc[c] = "off" <=> rc'[c] = "off"
      /\ \A d \in Conns : d # c =>
            rc'[d] = rc[d] /\ oe'[d] = oe[d] /\ conn'[d] = conn[d]
  BY <1>1, StagesStep
<1>3. Past' = Past /\ Past \subseteq Conns
  BY <1>2 DEF Past
<1>4. \A d \in Past : d # c => Entered(d)' = Entered(d)
  BY <1>2, <1>3 DEF Entered, Running
<1>5. rc[c] # "off"
  BY DEF ConnStep, RunConn, RunConnLocks, Started, StartFails, OnConnect,
     RunConnEnters, RunConnUnlocks, OnEnd, OnEndReceives, OnEndDeletes,
     OnDisconnect, ConnEnds, StageInv
<1>6. c \in Past /\ \A d \in Past : id[d] = id[c] => d = c
  BY <1>5, IDsDiffer DEF Past
<1>7. SUFFICES /\ \A d \in Past : id[d] \in conns' <=> Entered(d)'
               /\ conns' \subseteq {id[d] : d \in Past}
  BY <1>2, <1>3 DEF MapInv, Past
<1>8. /\ \A d \in Past : id[d] \in conns <=> Entered(d)
      /\ conns \subseteq {id[d] : d \in Past}
  BY DEF MapInv, Past
<1>9. CASE RunConnEnters(c)
  <2>1. /\ rc[c] = "enter" /\ conns' = conns \cup {id[c]}
        /\ rc'[c] = "unlock" /\ oe'[c] = oe[c] /\ conn'[c] = conn[c]
    BY <1>1, <1>9 DEF RunConnEnters, Stages
  <2>2. Entered(c)'
    BY <2>1 DEF StageInv, Entered, Running
  <2>3. ASSUME NEW d \in Past PROVE id[d] \in conns' <=> Entered(d)'
    <3>1. CASE d = c
      BY <2>1, <2>2, <3>1
    <3>2. CASE d # c
      <4>1. id[d] # id[c]
        BY <1>6, <3>2
      <4> QED
        BY <1>4, <1>8, <2>1, <3>2, <4>1
    <3> QED
      BY <3>1, <3>2
  <2>4. conns' \subseteq {id[d] : d \in Past}
    BY <1>6, <1>8, <2>1
  <2> QED
    BY <2>3, <2>4
<1>10. CASE OnEndDeletes(c)
  <2>1. conns' = conns \ {id[c]} /\ oe'[c] = "onDisconnect"
    BY <1>1, <1>10 DEF OnEndDeletes, Stages
  <2>2. ~Entered(c)'
    BY <2>1 DEF Entered, Running
  <2>3. ASSUME NEW d \in Past PROVE id[d] \in conns' <=> Entered(d)'
    <3>1. CASE d = c
      BY <2>1, <2>2, <3>1
    <3>2. CASE d # c
      <4>1. id[d] # id[c]
        BY <1>6, <3>2
      <4> QED
        BY <1>4, <1>8, <2>1, <3>2, <4>1
    <3> QED
      BY <3>1, <3>2
  <2>4. conns' \subseteq {id[d] : d \in Past}
    BY <1>8, <2>1
  <2> QED
    BY <2>3, <2>4
<1>11. ASSUME ~RunConnEnters(c), ~OnEndDeletes(c)
       PROVE  conns' = conns /\ Entered(c)' = Entered(c)
  <2> USE <1>1, <1>11 DEF Stages, StageInv, Entered, Running, Failed, Cleaned
  <2>1. CASE RunConnLocks(c)
    BY <2>1 DEF RunConnLocks
  <2>2. CASE Started(c)
    BY <2>2 DEF Started
  <2>3. CASE StartFails(c)
    BY <2>3 DEF StartFails
  <2>4. CASE OnConnect(c)
    BY <2>4 DEF OnConnect
  <2>5. CASE RunConnUnlocks(c)
    BY <2>5 DEF RunConnUnlocks
  <2>6. CASE OnEndReceives(c)
    BY <2>6 DEF OnEndReceives
  <2>7. CASE OnDisconnect(c)
    BY <2>7 DEF OnDisconnect
  <2>8. CASE ConnEnds(c)
    BY <2>8 DEF ConnEnds
  <2> QED
    BY <2>1, <2>2, <2>3, <2>4, <2>5, <2>6, <2>7, <2>8
       DEF ConnStep, RunConn, OnEnd
<1>12. CASE ~RunConnEnters(c) /\ ~OnEndDeletes(c)
  BY <1>4, <1>8, <1>11, <1>12
<1> QED
  BY <1>9, <1>10, <1>12

\* A connection that is accepted has no entry: its ID is new.
LEMMA MapAccepts ==
    ASSUME TypeOK, IDInv, StageInv, MapInv, Accepts
    PROVE  MapInv'
<1>1. PICK a \in Conns :
          /\ rc[a] = "off" /\ past + a \in Nat \ {0}
          /\ id' = [id EXCEPT ![a] = Inc!Numeral[past + a]]
          /\ rc' = [rc EXCEPT ![a] = "lock"]
  BY NextAccepted
<1>2. UNCHANGED <<past, conns, oe, conn>>
  BY DEF Accepts
<1>3. IDInv' /\ past \in Nat
  BY ServerAssumption, IDAccepts DEF TypeOK
<1>4. /\ \A c \in Past : c \in Conns /\ c # a /\ id'[c] = id[c]
      /\ Past' = Past \cup {a}
  BY <1>1 DEF Past, TypeOK
<1>5. id'[a] \notin conns
  <2>1. SUFFICES ASSUME NEW c \in Past PROVE id[c] # id'[a]
    BY <1>2 DEF MapInv
  <2>2. id[c] = Inc!Numeral[past + c] /\ id'[a] = Inc!Numeral[past + a]
    BY <1>1, <1>4 DEF IDInv, Past, TypeOK
  <2>3. past + c \in Nat /\ past + c # past + a
    BY <1>1, <1>3, <1>4 DEF Conns
  <2> QED
    BY <1>1, <2>2, <2>3, CounterFacts
<1>6. \A c \in Past : Entered(c)' = Entered(c)
  BY <1>1, <1>2, <1>4 DEF Entered, Running, TypeOK
<1>7. ~Entered(a)'
  BY <1>1 DEF Entered, TypeOK
<1> QED
  BY <1>2, <1>4, <1>5, <1>6, <1>7 DEF MapInv, Past

----------------------------------------------------------------------------
(* The theorems *)

\* No step leaves the inductive invariant.
LEMMA ServerStep == ASSUME ServerInv, [Next]_vars PROVE ServerInv'
<1> USE DEF ServerInv
<1>1. CASE Accepts
  BY <1>1, TypeAccepts, IDAccepts, StageAccepts, MapAccepts
<1>2. ASSUME NEW c \in Conns, ConnStep(c) PROVE ServerInv'
  <2>1. /\ UNCHANGED <<past, nextID, id>>
        /\ \A d \in Conns : rc'[d] = "off" <=> rc[d] = "off"
    <3>1. Stages
      BY DEF TypeOK, Stages
    <3> QED
      BY <1>2, <3>1, StagesStep
  <2>2. IDInv'
    BY <2>1, IDStays
  <2> QED
    BY <1>2, <2>2, TypeConn, StageConn, MapConn
<1>3. CASE ServeBegins \/ ServeReturns \/ UNCHANGED vars
  <2>1. /\ UNCHANGED <<past, hasOnError, nextID, id, connsMu, conns, rc, oe, conn,
                       told, crashed>>
        /\ serving' \in {"off", "accept"}
    BY <1>3 DEF ServeBegins, ServeReturns, vars, TypeOK
  <2>2. TypeOK'
    BY <2>1 DEF TypeOK
  <2>3. IDInv' /\ Past' = Past
    BY <2>1, IDStays
  <2>4. StageInv' /\ MapInv'
    BY <2>1, <2>3 DEF StageInv, MapInv, Running, Cleaned, Failed, Entered
  <2> QED
    BY <2>2, <2>3, <2>4
<1> QED
  BY <1>1, <1>2, <1>3 DEF Next, ConnStep

\* ServerInv holds in every state: the basis of the theorems below.
THEOREM Invariance == Spec => []ServerInv
<1>1. Init => ServerInv
  BY ServerInit
<1>2. ServerInv /\ [Next]_vars => ServerInv'
  BY ServerStep
<1> QED
  BY <1>1, <1>2, PTL DEF Spec

\* Every variable keeps its type, and connsMu is held by the runConn that is
\* between its Lock and its Unlock, so by one at a time.
THEOREM TypeCorrect == Spec => []TypeOK
<1>1. ServerInv => TypeOK
  BY DEF ServerInv
<1> QED
  BY <1>1, Invariance, PTL

\* The ConnIDs are the numerals of the connections' numbers, however many there
\* were and wherever the buffer had to grow: so no two connections share one.
THEOREM IDsCountUpAlways == Spec => []IDsCountUp
<1>1. ServerInv => IDsCountUp
  BY DEF ServerInv, IDInv, IDsCountUp
<1> QED
  BY <1>1, Invariance, PTL

\* The application is told of a connection's end after it is told of its start,
\* and of an error only if the connection never started.
THEOREM ConnectFirstAlways == Spec => []ConnectFirst
<1>1. ServerInv => ConnectFirst
  <2> SUFFICES ASSUME ServerInv, NEW c \in Conns
               PROVE  /\ "disconnect" \in told[c] => "connect" \in told[c]
                      /\ "error" \in told[c] => told[c] = {"error"}
    BY DEF ConnectFirst
  <2>1. rc[c] \in {"off", "lock", "start", "onConnect", "enter", "unlock", "done"}
    BY DEF ServerInv, TypeOK
  <2> QED
    BY <2>1 DEF ServerInv, StageInv, Running, Cleaned, Failed
<1> QED
  BY <1>1, Invariance, PTL

\* srv.conns holds each connection that is up, once runConn is done with it, and
\* none that onEnd has cleaned up after: no entry is made too late to be deleted.
THEOREM MapHoldsLiveAlways == Spec => []MapHoldsLive
<1>1. ServerInv => MapHoldsLive
  <2> SUFFICES ASSUME ServerInv, NEW c \in Conns
               PROVE  /\ rc[c] = "done" /\ conn[c] = "up" => id[c] \in conns
                      /\ oe[c] \in {"onDisconnect", "done"} => id[c] \notin conns
    BY DEF MapHoldsLive
  <2>1. rc[c] \in {"off", "lock", "start", "onConnect", "enter", "unlock", "done"}
    BY DEF ServerInv, TypeOK
  <2>2. rc[c] = "done" /\ conn[c] = "up" => id[c] \in conns
    BY DEF ServerInv, StageInv, MapInv, Entered, Running, Cleaned, Failed
  <2>3. oe[c] \in {"onDisconnect", "done"} => rc[c] # "off" /\ ~Entered(c)
    BY <2>1 DEF ServerInv, StageInv, Entered, Running, Cleaned, Failed
  <2> QED
    BY <2>2, <2>3 DEF ServerInv, MapInv
<1> QED
  BY <1>1, Invariance, PTL

\* The server with the websocket listener, whose queue feeds Accept and whose
\* Close ends Serve, is a server: what is proved of Server holds of it.
THEOREM WebImplementsServer == WebSpec => Spec
<1>1. WebInit => Init
  BY DEF WebInit
<1>2. [WebNext]_webVars => [Next]_vars
  <2>1. CASE UNCHANGED webVars
    BY <2>1 DEF webVars
  <2>2. CASE WebNext
    BY <2>2 DEF WebNext, ServeStarts, AcceptsComm, AcceptStops, Close, ServerRuns,
       ConnEndsWeb, Upgrades, ServeHTTP, Queues, Drops, Next
  <2> QED
    BY <2>1, <2>2
<1> QED
  BY <1>1, <1>2, PTL DEF WebSpec, Spec

\* In particular its invariants, which the run checks of it.
THEOREM WebServerCorrect ==
    WebSpec => [](TypeOK /\ IDsCountUp /\ ConnectFirst /\ MapHoldsLive)
BY WebImplementsServer, TypeCorrect, IDsCountUpAlways, ConnectFirstAlways,
   MapHoldsLiveAlways, PTL

=============================================================================
