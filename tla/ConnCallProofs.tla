--------------------------- MODULE ConnCallProofs ---------------------------
(***************************************************************************)
(* More proofs about Conn: the IDs and the envelopes of the calls, what    *)
(* becomes of a call, and the stages in which the connection halts.  They  *)
(* rest on the invariant IInv, proved in ConnProofs.                       *)
(***************************************************************************)
EXTENDS ConnProofs, FiniteSetTheorems

\* The steps that leave every call, its place and its result alone.
Quiet ==
    \/ Supervisor \/ Remote \/ AppClose \/ AppReceive \/ ReactorReadTimeout
    \/ (\E p \in Callers : Cancel(p))
    \/ (\E t \in IOThreads : IOStep(t) \/ IOFails(t))
    \/ ReactorUnexpected \/ ReactorHandles \/ ReactorHeartbeat \/ ReactorEmits
    \/ ReactorStops \/ (\E S \in SUBSET pending : CleanupTick(S))
    \/ ShutdownStores \/ ShutdownCloses \/ ShutdownWaits \/ ShutdownStops
    \/ ReactorExits \/ UNCHANGED vars

\* A caller's steps outside of the queue and the channels.
Moves(p) == \/ Begin(p) \/ Refused(p) \/ SendPanics(p) \/ WaitCancelled(p)
            \/ SendStopped(p) \/ SendCancelled(p)

\* The steps with which the reactor moves calls or resolves one.
Reacts == \/ ReactorAnswer \/ ReactorCall \/ (\E p \in due : CleanupCall(p))
          \/ ShutdownDrains \/ (\E p \in pending : ShutdownReports(p))

\* Every step is one of these, or concerns the channel of one caller.
LEMMA StepKinds ==
    ASSUME [Next]_vars
    PROVE  \/ Quiet \/ Reacts
           \/ \E p \in Callers : \/ Moves(p) \/ EnterSend(p) \/ SendEnqueues(p)
                                 \/ WaitResult(p)
BY DEF Next, Supervisor, Application, CallerStep, ReactorLoop, ReactorShutdown,
       Terminated, Quiet, Moves, Reacts

\* Quiet steps change no call.
LEMMA QuietFrame ==
    ASSUME Quiet
    PROVE  UNCHANGED <<callerVars, given, calls, pending>>
<1> USE DEF connVars, reactorVars, ioVars, supVars, callerVars, resultVars,
            peerVars, appVars, queueVars, envelopeIn, vars
<1>1. CASE Supervisor
  BY <1>1 DEF Supervisor, Start, NegotiateFails, Negotiated, SupervisorTakes,
              SupervisorJoins
<1>2. CASE Remote
  BY <1>2 DEF Remote, ReadRequest, ReadHeartbeat, ReadAnswer, ReaderReads
<1>3. CASE AppClose \/ AppReceive \/ ReactorReadTimeout \/ \E p \in Callers : Cancel(p)
  BY <1>3 DEF AppClose, AppReceive, ReactorReadTimeout, Cancel
<1>4. CASE \E t \in IOThreads : IOStep(t) \/ IOFails(t)
  BY <1>4 DEF IOStep, IOStops, IORecovers, IOExits, IOFails, IOReturns,
              ReaderPuts, WriterTakes, WriterWrites
<1>5. CASE \/ ReactorUnexpected \/ ReactorHeartbeat \/ ReactorEmits \/ ReactorStops
           \/ (\E S \in SUBSET pending : CleanupTick(S))
           \/ ShutdownStores \/ ShutdownCloses \/ ShutdownWaits \/ ShutdownStops
           \/ ReactorExits \/ ReactorHandles
  BY <1>5 DEF ReactorUnexpected, ReactorHeartbeat, ReactorEmits, ReactorStops,
         CleanupTick, ShutdownStores, ShutdownCloses, ShutdownWaits,
         ShutdownStops, ReactorExits, ReactorHandles
<1> QED
  BY <1>1, <1>2, <1>3, <1>4, <1>5 DEF Quiet

\* The reactor's steps leave the callers where they are; what it can reach does
\* not grow, and it delivers at most one result, to a call it can reach.
LEMMA ReactsFrame ==
    ASSUME IInv, Reacts
    PROVE  /\ UNCHANGED <<callerVars, pool>> /\ Reach' \subseteq Reach
           /\ \/ UNCHANGED resultVars
              \/ \E p \in Reach, r \in Results : HasRoom(p) /\ Deliver(p, r)
           /\ rpc \in {"select", "cleanup", "sdDrain", "sdReport"}
<1> USE DEF connVars, reactorVars, ioVars, supVars, callerVars, peerVars,
            appVars, queueVars, envelopeIn
<1> DEFINE Delivers == \E p \in Reach, r \in Results : HasRoom(p) /\ Deliver(p, r)
<1>1. ASSUME NEW p \in Reach, NEW r \in Results, NEW next, DeliverOrFail(p, r, next)
      PROVE  UNCHANGED resultVars \/ Delivers
  BY <1>1 DEF DeliverOrFail
<1>2. CASE ReactorAnswer
  <2> DEFINE m == Head(incoming).replyTo
  <2>1. PICK p \in pending : /\ mid[p] = m /\ pending' = pending \ {p}
                            /\ DeliverOrFail(p, Answer(m), "select")
    BY <1>2 DEF ReactorAnswer, WithID
  <2>2. Answer(m) \in Results
    BY <2>1, ResultTypes, Constants DEF IInv, TypeOK, CallerType, ReactorType
  <2>3. p \in Reach /\ Reach' \subseteq Reach
    BY <1>2, <2>1 DEF Reach, Queued, ReactorAnswer
  <2>4. UNCHANGED resultVars \/ Delivers
    BY <1>1, <2>1, <2>2, <2>3
  <2> QED
    BY <1>2, <2>3, <2>4 DEF ReactorAnswer
<1>3. CASE ReactorCall
  <2> DEFINE p == Head(calls)
  <2>1. /\ p \in Queued /\ Queued' = Queued \ {p}
    BY <1>3, QueuedTail DEF ReactorCall, IInv, TypeOK, QueueType
  <2>2. pending' \subseteq pending \cup {p}
    BY <1>3 DEF ReactorCall, Registered, AddCall, WithID
  <2>3. p \in Reach /\ Reach' \subseteq Reach
    BY <2>1, <2>2 DEF Reach
  <2>4. Failure("protocol") \in Results /\ Failure(Nil) \in Results
    BY ResultTypes DEF Errors
  <2>5. UNCHANGED resultVars \/ Delivers
    BY <1>1, <1>3, <2>3, <2>4 DEF ReactorCall
  <2> QED
    BY <1>3, <2>3, <2>5 DEF ReactorCall
<1>4. CASE \E p \in due : CleanupCall(p)
  <2>1. PICK p \in due : CleanupCall(p)
    BY <1>4
  <2>2. p \in Reach /\ Reach' \subseteq Reach
    BY <2>1 DEF Reach, Queued, CleanupCall, IInv, TypeOK, ReactorType
  <2>3. Failure("responseTimeout") \in Results
    BY ResultTypes DEF Errors
  <2>4. UNCHANGED resultVars \/ Delivers
    BY <1>1, <2>1, <2>2, <2>3 DEF CleanupCall
  <2> QED
    BY <2>1, <2>2, <2>4 DEF CleanupCall
<1>5. CASE ShutdownDrains
  <2>1. Queued' = {} /\ pending' \subseteq Reach
    BY <1>5 DEF ShutdownDrains, Queued, Drained, Reach
  <2> QED
    BY <1>5, <2>1 DEF ShutdownDrains, Reach
<1>6. CASE \E p \in pending : ShutdownReports(p)
  <2>1. PICK p \in pending : ShutdownReports(p)
    BY <1>6
  <2> DEFINE e == IF rerr = Nil THEN "connShutdown" ELSE rerr
  <2>2. p \in Reach /\ Reach' \subseteq Reach
    BY <2>1 DEF Reach, Queued, ShutdownReports
  <2>3. Failure(e) \in Results
    BY ResultTypes DEF Errors, IInv, TypeOK, ReactorType
  <2>4. UNCHANGED resultVars \/ Delivers
    BY <2>1, <2>2, <2>3 DEF ShutdownReports
  <2> QED
    BY <2>1, <2>2, <2>4 DEF ShutdownReports
<1> QED
  BY <1>2, <1>3, <1>4, <1>5, <1>6 DEF Reacts

\* The reactor's deliveries, seen from the calls: one call at most is given one
\* result, which it did not have before.
LEMMA ReactsGives ==
    ASSUME IInv, Reacts, NEW p \in Callers
    PROVE  \/ given'[p] = given[p]
           \/ p \in Reach /\ given[p] = <<>>
              /\ \E r \in Results : given'[p] = <<r>>
<1>1. CASE UNCHANGED resultVars
  BY <1>1 DEF resultVars
<1>2. CASE \E q \in Reach, r \in Results : HasRoom(q) /\ Deliver(q, r)
  <2>1. PICK q \in Reach, r \in Results : Deliver(q, r)
    BY <1>2
  <2>2. given[q] = <<>>
    BY DEF IInv, CoreInv, ReachInv
  <2>3. given' = [given EXCEPT ![q] = <<r>>]
    BY <2>1, <2>2 DEF Deliver
  <2> QED
    BY <2>2, <2>3 DEF IInv, TypeOK, CallerType
<1> QED
  BY <1>1, <1>2, ReactsFrame

----------------------------------------------------------------------------
(* The calls: their ID, channel and ReplyTo are theirs for good *)

\* What the steps of one caller do to it, and to no other.
LEMMA CallerFrame ==
    ASSUME IInv, NamedInv, NEW p \in Callers,
           Moves(p) \/ EnterSend(p) \/ SendEnqueues(p) \/ WaitResult(p)
    PROVE  /\ UNCHANGED <<given, pending, connVars, reactorVars, ioVars, supVars, peerVars, incoming, outgoing>>
           /\ \A q \in Callers : q # p => /\ pc'[q] = pc[q] /\ mid'[q] = mid[q]
                                         /\ to'[q] = to[q] /\ rs'[q] = rs[q]
                                         /\ ret'[q] = ret[q]
           /\ p \in Named => /\ mid'[p] = mid[p] /\ to'[p] = to[p] /\ rs'[p] = rs[p]
           /\ EnterSend(p) => p \notin Named /\ Named' = Named \cup {p}
           /\ ~EnterSend(p) => Named' = Named
<1> USE DEF connVars, reactorVars, ioVars, supVars, callerVars, resultVars,
            peerVars, appVars, queueVars
<1>1. /\ UNCHANGED <<given, pending, connVars, reactorVars, ioVars, supVars, peerVars, incoming, outgoing>>
      /\ \A q \in Callers : q # p => /\ pc'[q] = pc[q] /\ mid'[q] = mid[q]
                                     /\ to'[q] = to[q] /\ rs'[q] = rs[q]
                                     /\ ret'[q] = ret[q]
  BY DEF Moves, Begin, Refused, SendPanics, WaitCancelled, SendStopped,
         SendCancelled, SendGivesUp, EnterSend, SendEnqueues, WaitResult, IInv,
         TypeOK, CallerType
<1>2. CASE EnterSend(p)
  <2>1. pc[p] = "checked" /\ p \notin Named
    BY <1>2 DEF EnterSend, NamedInv
  <2>2. PICK c \in ReceiverOf(p) : rs' = [rs EXCEPT ![p] = c]
    BY <1>2 DEF EnterSend
  <2>3. c # NoChan
    BY Constants DEF ReceiverOf, IInv, TypeOK, CallerType, Chans
  <2>4. Named' = Named \cup {p}
    BY <1>1, <2>2, <2>3 DEF Named, IInv, TypeOK, CallerType
  <2> QED
    BY <1>1, <1>2, <2>1, <2>4
<1>3. CASE Begin(p)
  <2>1. p \notin Named /\ rs' = rs /\ ~EnterSend(p)
    BY <1>3 DEF Begin, EnterSend, NamedInv
  <2>2. Named' = Named
    BY <2>1 DEF Named
  <2> QED
    BY <1>1, <2>1, <2>2
<1>4. CASE ~Begin(p) /\ ~EnterSend(p)
  <2>1. rs' = rs /\ mid' = mid /\ to' = to
    BY <1>4 DEF Moves, Refused, SendPanics, WaitCancelled, SendStopped,
         SendCancelled, SendGivesUp, SendEnqueues, WaitResult
  <2>2. Named' = Named
    BY <2>1 DEF Named
  <2> QED
    BY <1>1, <1>4, <2>1, <2>2
<1> QED
  BY <1>2, <1>3, <1>4

\* What the reactor can reach, after a step of one caller.
LEMMA CallerReach ==
    ASSUME IInv, NEW p \in Callers,
           Moves(p) \/ EnterSend(p) \/ SendEnqueues(p) \/ WaitResult(p)
    PROVE  \/ Reach' = Reach /\ ~SendEnqueues(p)
           \/ SendEnqueues(p) /\ p \notin Reach /\ Reach' = Reach \cup {p}
<1> USE DEF connVars, reactorVars, ioVars, supVars, callerVars, resultVars,
            peerVars, appVars, queueVars
<1>1. CASE SendEnqueues(p)
  <2>1. p \notin Reach
    BY <1>1 DEF SendEnqueues, IInv, CoreInv, ReachInv
  <2>2. Queued' = Queued \cup {p}
    BY <1>1, <2>1, QueuedAppend DEF SendEnqueues, IInv, TypeOK, QueueType, Reach
  <2> QED
    BY <1>1, <2>1, <2>2 DEF Reach, SendEnqueues
<1>2. CASE ~SendEnqueues(p)
  BY <1>2 DEF Moves, Begin, Refused, SendPanics, WaitCancelled, SendStopped,
         SendCancelled, SendGivesUp, EnterSend, WaitResult, Reach, Queued
<1> QED
  BY <1>1, <1>2

\* A call keeps its ID and its channel from EnterSend on, and the reactor only
\* reaches calls that were taken.
LEMMA NamedNext ==
    ASSUME IInv, IInv', NamedInv, [Next]_vars
    PROVE  NamedInv'
<1>1. CASE Quiet
  <2>1. UNCHANGED <<callerVars, given, calls, pending>>
    BY <1>1, QuietFrame
  <2>2. Reach' = Reach /\ Named' = Named
    BY <2>1 DEF Reach, Queued, Named, callerVars
  <2> QED
    BY <2>1, <2>2 DEF NamedInv, callerVars
<1>2. CASE Reacts
  <2>1. UNCHANGED callerVars /\ Reach' \subseteq Reach
    BY <1>2, ReactsFrame
  <2>2. Named' = Named
    BY <2>1 DEF Named, callerVars
  <2>3. \A p \in Callers : given'[p] # <<>> => p \in Named
    BY <1>2, ReactsGives DEF NamedInv
  <2> QED
    BY <2>1, <2>2, <2>3 DEF NamedInv, callerVars
<1>3. ASSUME NEW p \in Callers,
             Moves(p) \/ EnterSend(p) \/ SendEnqueues(p) \/ WaitResult(p)
      PROVE  NamedInv'
  <2>1. /\ given' = given
        /\ \A q \in Callers : q # p => /\ pc'[q] = pc[q] /\ mid'[q] = mid[q]
                                       /\ to'[q] = to[q] /\ rs'[q] = rs[q]
                                       /\ ret'[q] = ret[q]
        /\ p \in Named => /\ mid'[p] = mid[p] /\ to'[p] = to[p] /\ rs'[p] = rs[p]
        /\ EnterSend(p) => p \notin Named /\ Named' = Named \cup {p}
        /\ ~EnterSend(p) => Named' = Named
    BY <1>3, CallerFrame
  <2>2. /\ pc'[p] \in {"idle", "checked"} => p \notin Named'
        /\ pc'[p] \in {"sending", "waiting", "abandoned"} => p \in Named'
    <3>1. CASE EnterSend(p)
      BY <2>1, <3>1 DEF EnterSend, IInv, TypeOK, CallerType
    <3>2. CASE ~EnterSend(p)
      BY <1>3, <2>1, <3>2 DEF Moves, Begin, Refused, SendPanics, WaitCancelled, SendStopped,
         SendCancelled, SendGivesUp, SendEnqueues, WaitResult, NamedInv, IInv, TypeOK, CallerType
    <3> QED
      BY <3>1, <3>2
  <2>3. p \notin Repliers => to'[p] = NoMsg
    BY <1>3 DEF Moves, Begin, Refused, SendPanics, WaitCancelled, SendStopped, ReplyTarget,
         SendCancelled, SendGivesUp, SendEnqueues, WaitResult, EnterSend, NamedInv, IInv, TypeOK, CallerType
  <2>4. p \in Named' \cap Repliers => to'[p] # NoMsg
    <3>1. CASE EnterSend(p)
      BY <3>1 DEF EnterSend, IInv, ReplyInv
    <3>2. CASE ~EnterSend(p)
      BY <2>1, <3>2 DEF NamedInv
    <3> QED
      BY <3>1, <3>2
  <2>5. \A q \in Callers :
         /\ pc'[q] \in {"idle", "checked"} => q \notin Named'
         /\ pc'[q] \in {"sending", "waiting", "abandoned"} => q \in Named'
         /\ given'[q] # <<>> => q \in Named'
         /\ q \notin Repliers => to'[q] = NoMsg
         /\ q \in Named' \cap Repliers => to'[q] # NoMsg
    BY <2>1, <2>2, <2>3, <2>4 DEF NamedInv
  <2>6. ASSUME NEW q \in Reach'
        PROVE  /\ q \in Named'
               /\ q \in Senders => pc'[q] = "returned" /\ ret'[q].err = Nil
    <3>1. \/ q \in Reach /\ ~SendEnqueues(p)
          \/ q \in Reach /\ q # p
          \/ SendEnqueues(p) /\ q = p
      BY <1>3, <2>6, CallerReach
    <3>2. CASE SendEnqueues(p) /\ q = p
      <4>1. p \in Named
        BY <3>2 DEF SendEnqueues, NamedInv
      <4> QED
        BY <2>1, <3>2, <4>1 DEF SendEnqueues, Failure, IInv, TypeOK, CallerType
    <3>3. CASE q \in Reach /\ q # p
      BY <2>1, <3>3, ReachFacts DEF NamedInv, IInv
    <3>4. CASE q \in Reach /\ q = p /\ ~SendEnqueues(p)
      <4>1. pc[p] \in {"waiting", "abandoned", "returned"}
        BY <3>4 DEF IInv, CoreInv, ReachInv
      <4>2. p \notin Senders
        BY <1>3, <3>4, <4>1 DEF Moves, Begin, Refused, SendPanics, WaitCancelled, SendStopped,
            SendCancelled, SendGivesUp, EnterSend, WaitResult, IInv, TypeOK, CallerType
      <4> QED
        BY <2>1, <3>4, <4>2 DEF NamedInv
    <3> QED
      BY <3>1, <3>2, <3>3, <3>4
  <2> QED
    BY <2>5, <2>6 DEF NamedInv
<1> QED
  BY <1>1, <1>2, <1>3, StepKinds

----------------------------------------------------------------------------
(* The stages of the shutdown *)

\* The shutdown goes through its stages in order, and each leaves done what the next
\* one counts on.
LEMMA HaltNext ==
    ASSUME IInv, HaltInv, [Next]_vars
    PROVE  HaltInv'
<1> USE DEF connVars, reactorVars, ioVars, supVars, callerVars, resultVars,
            peerVars, appVars, queueVars, envelopeIn, vars
<1>1. CASE Supervisor
  BY <1>1 DEF Supervisor, Start, NegotiateFails, Negotiated, SupervisorTakes,
              SupervisorJoins, HaltInv, Closed
<1>2. CASE Remote
  BY <1>2 DEF Remote, ReadRequest, ReadHeartbeat, ReadAnswer, ReaderReads, HaltInv,
     Closed, IInv, TypeOK, IOType
<1>3. CASE AppClose \/ AppReceive \/ ReactorReadTimeout \/ \E p \in Callers : Cancel(p)
  BY <1>3 DEF AppClose, AppReceive, ReactorReadTimeout, Cancel, ReactorReturns, HaltInv, Closed
<1>4. ASSUME NEW t \in IOThreads, IOStep(t) \/ IOFails(t) PROVE HaltInv'
  <2>1. /\ UNCHANGED <<connVars, rpc, calls, pending, sup, firstErr>>
        /\ sup \notin {"new", "negotiating", "failed", "ended"}
    BY <1>4 DEF IOStep, IOStops, IORecovers, IOExits, IOFails, IOReturns,
              ReaderPuts, WriterTakes, WriterWrites, HaltInv, IOThreads
  <2> QED
    BY <2>1 DEF HaltInv, Closed
<1>5. CASE \/ ReactorUnexpected \/ ReactorHandles \/ ReactorHeartbeat \/ ReactorEmits
           \/ ReactorStops \/ (\E S \in SUBSET pending : CleanupTick(S))
  BY <1>5 DEF ReactorUnexpected, ReactorHandles, ReactorHeartbeat, ReactorEmits,
     ReactorStops, CleanupTick, ReactorReturns, HaltInv, Closed
<1>6. CASE ReactorAnswer \/ ReactorCall \/ \E p \in due : CleanupCall(p)
  <2>1. /\ UNCHANGED <<connVars, ioVars, sup, firstErr>>
        /\ rpc \in {"select", "cleanup"}
        /\ rpc' \in {"select", "cleanup", "emit", "sdState"}
    BY <1>6 DEF ReactorAnswer, ReactorCall, CleanupCall, DeliverOrFail, ReactorReturns
  <2> QED
    BY <2>1 DEF HaltInv, Closed
<1>7. CASE \/ ShutdownStores \/ ShutdownCloses \/ ShutdownWaits \/ ShutdownStops
           \/ ReactorExits \/ ShutdownDrains
  BY <1>7 DEF ShutdownStores, ShutdownCloses, ShutdownWaits, ShutdownStops,
     ReactorExits, ShutdownDrains, HaltInv, Closed
<1>8. CASE \E p \in pending : ShutdownReports(p)
  BY <1>8 DEF ShutdownReports, HaltInv, Closed
<1>9. ASSUME NEW p \in Callers, CallerStep(p) \/ Begin(p) PROVE HaltInv'
  <2>1. /\ UNCHANGED <<connVars, reactorVars, ioVars, supVars>>
        /\ callsClosed => UNCHANGED calls
    BY <1>9 DEF CallerStep, Begin, Refused, EnterSend, SendEnqueues, SendPanics,
       SendStopped, SendCancelled, SendGivesUp, WaitResult, WaitCancelled
  <2> QED
    BY <2>1 DEF HaltInv, Closed
<1>10. CASE UNCHANGED vars
  BY <1>10 DEF HaltInv
<1> QED
  BY <1>1, <1>2, <1>3, <1>4, <1>5, <1>6, <1>7, <1>8, <1>9, <1>10
     DEF Next, Application, ReactorLoop, ReactorShutdown, Terminated

\* Nobody but the supervisor and the reactor's shutdown stops a connection that the
\* application does not close, so each error that is dropped for a nil has another
\* one before it.
LEMMA EndNext ==
    ASSUME IInv, HaltInv, EndInv, [Next]_vars
    PROVE  EndInv'
<1> SUFFICES ASSUME ~AppCloses PROVE EndInv'
  BY DEF EndInv
<1> USE DEF connVars, reactorVars, ioVars, supVars, callerVars, resultVars,
            peerVars, appVars, queueVars, envelopeIn, vars
<1>1. CASE Supervisor
  <2>1. CASE Start \/ NegotiateFails \/ SupervisorJoins
    BY <2>1 DEF Start, NegotiateFails, SupervisorJoins, EndInv, Stated, Closed, Looping, Reason
  <2>2. CASE Negotiated
    BY <2>2 DEF Negotiated, EndInv, HaltInv, Stated, Closed, Looping, Reason
  <2>3. CASE SupervisorTakes
    BY <2>3 DEF SupervisorTakes, EndInv, Stated, Closed, Looping, Reason
  <2> QED
    BY <1>1, <2>1, <2>2, <2>3 DEF Supervisor
<1>2. ASSUME UNCHANGED <<stopClosed, rpc, rerr, io, ioerr, sup, errc, firstErr>>
      PROVE  EndInv'
  BY <1>2 DEF EndInv, Stated, Reason
<1>3. CASE Remote
  BY <1>3 DEF Remote, ReadRequest, ReadHeartbeat, ReadAnswer, ReaderReads, EndInv, Stated,
     Reason, IInv, TypeOK, IOType
<1>4. CASE AppReceive \/ AppClose \/ ReactorHeartbeat \/ \E p \in Callers : Cancel(p) \/ Begin(p)
  BY <1>2, <1>4 DEF AppReceive, AppClose, Cancel, Begin, ReactorHeartbeat
<1>5. ASSUME NEW p \in Callers, CallerStep(p) PROVE EndInv'
  BY <1>2, <1>5 DEF CallerStep, Refused, EnterSend, SendEnqueues, SendPanics,
       SendStopped, SendCancelled, SendGivesUp, WaitResult, WaitCancelled
<1>6. ASSUME NEW t \in IOThreads, IOStep(t) \/ IOFails(t) PROVE EndInv'
  <2>1. /\ UNCHANGED <<stopClosed, rpc, rerr, sup, firstErr>>
        /\ \A u \in IOThreads : u # t => io'[u] = io[u] /\ ioerr'[u] = ioerr[u]
    BY <1>6 DEF IOStep, IOStops, IORecovers, IOExits, IOFails, IOReturns,
              ReaderPuts, WriterTakes, WriterWrites, IInv, TypeOK, IOType
  <2>2. CASE IOFails(t)
    <3>1. /\ io[t] \in {"run", "put"} /\ io'[t] = "failed" /\ ioerr'[t] = "io" /\ errc' = errc
      BY <2>2 DEF IOFails, IOReturns, IInv, TypeOK, IOType
    <3> QED
      BY <2>1, <3>1 DEF EndInv, Stated, Reason
  <2>3. CASE IOStops(t) \/ IORecovers(t)
    <3>1. /\ io[t] \in {"run", "put", "failed"} /\ io'[t] = "exit" /\ errc' = errc
          /\ \/ stopClosed /\ ioerr'[t] = Nil
             \/ io[t] = "failed" /\ ioerr'[t] = ioerr[t]
      <4>1. CASE IOStops(t)
        <5>1. io[t] \in {"run", "put"}
          BY <4>1 DEF IOStops
        <5> QED
          BY <4>1, <5>1 DEF IOStops, IOReturns, IInv, TypeOK, IOType
      <4>2. CASE IORecovers(t)
        BY <4>2 DEF IORecovers, IOReturns, IInv, TypeOK, IOType
      <4> QED
        BY <2>3, <4>1, <4>2
    <3>2. \/ Stated \/ ioerr'[t] = "io"
          \/ ioerr'[t] = Nil /\ rerr \notin {None, Nil, "closeFailed"}
      BY <2>1, <3>1 DEF EndInv, Closed, Looping
    <3> QED
      BY <2>1, <3>1, <3>2 DEF EndInv, Stated, Reason
  <2>4. CASE IOExits(t)
    <3>1. /\ io[t] = "exit" /\ io'[t] = "done" /\ ioerr' = ioerr
          /\ errc' \in {errc, ioerr[t]}
      BY <2>4 DEF IOExits, PutErr, IInv, TypeOK, IOType
    <3> QED
      BY <2>1, <3>1 DEF EndInv, Stated, Reason
  <2>5. CASE ReaderPuts \/ WriterTakes \/ WriterWrites
    <3>1. /\ ioerr' = ioerr /\ errc' = errc
          /\ \A u \in IOThreads : io'[u] = io[u] \/ {io[u], io'[u]} \subseteq {"run", "put"}
      BY <2>5 DEF ReaderPuts, WriterTakes, WriterWrites, IInv, TypeOK, IOType, IOThreads
    <3> QED
      BY <2>1, <3>1 DEF EndInv, Stated, Reason
  <2> QED
    BY <1>6, <2>2, <2>3, <2>4, <2>5 DEF IOStep
\* The reactor's loop: it goes on, or returns a reason; a nil it returns only when the
\* connection was stopped.
<1>7. ASSUME UNCHANGED <<stopClosed, io, ioerr, sup, errc, firstErr>>, rpc \in Looping,
             \/ rpc' \in Looping /\ rerr' = rerr
             \/ rpc' = "sdState" /\ (stopClosed \/ rerr' \notin {None, Nil, "closeFailed"})
      PROVE  EndInv'
  BY <1>7 DEF EndInv, Stated, Reason, Looping, Closed
<1>8. CASE \/ ReactorUnexpected \/ ReactorHandles \/ ReactorEmits \/ ReactorReadTimeout
           \/ ReactorStops \/ (\E S \in SUBSET pending : CleanupTick(S))
  BY <1>7, <1>8 DEF ReactorUnexpected, ReactorHandles, ReactorEmits, ReactorReadTimeout,
     ReactorStops, CleanupTick, ReactorReturns, Looping, None, Nil
<1>9. CASE ReactorAnswer \/ ReactorCall \/ \E p \in due : CleanupCall(p)
  BY <1>7, <1>9 DEF ReactorAnswer, ReactorCall, CleanupCall, DeliverOrFail, ReactorReturns,
     Looping, None, Nil
<1>10. CASE \/ ShutdownStores \/ ShutdownCloses \/ ShutdownDrains \/ ShutdownStops
            \/ \E p \in pending : ShutdownReports(p)
  BY <1>10 DEF ShutdownStores, ShutdownCloses, ShutdownDrains, ShutdownStops, ShutdownReports,
     EndInv, Stated, Reason, Looping, Closed
<1>11. CASE ShutdownWaits
  BY <1>11 DEF ShutdownWaits, EndInv, Stated, Reason, Looping, Closed, None, Nil
<1>12. CASE ReactorExits
  BY <1>12 DEF ReactorExits, PutErr, EndInv, Stated, Reason, Looping, Closed
<1> QED
  BY <1>1, <1>2, <1>3, <1>4, <1>5, <1>6, <1>8, <1>9, <1>10, <1>11, <1>12
     DEF Next, Application, ReactorLoop, ReactorShutdown, Terminated

----------------------------------------------------------------------------
(* IDs *)

\* An odd number, two further, is odd also when an even number is taken off.
LEMMA OddStays ==
    ASSUME NEW n \in Int, n % 2 = 1, NEW m \in Int, m % 2 = 0
    PROVE  (n + 2) % 2 = 1 /\ (n + 2 - m) % 2 = 1
OBVIOUS

\* nextID steps over the even numbers: it yields an odd one, hence not 0.
LEMMA NextIDOdd ==
    ASSUME TypeOK, nextMessageID % 2 = 1
    PROVE  NextID % 2 = 1 /\ NextID # NoMsg
<1>1. nextMessageID \in Int /\ IDSpace \in Int /\ IDSpace % 2 = 0
  BY IDAssumption DEF TypeOK, ConnType
<1>2. NextID % 2 = 1
  BY <1>1, OddStays DEF NextID
<1>3. 0 % 2 # 1
  OBVIOUS
<1> QED
  BY <1>2, <1>3 DEF NoMsg

\* The ID of a call is an odd number when it gets it, and it keeps it.
LEMMA NamedIDs ==
    ASSUME IInv, NamedInv, IDInv, [Next]_vars
    PROVE  \A p \in Named' : mid'[p] # NoMsg
<1>1. CASE Quiet \/ Reacts
  <2>1. UNCHANGED callerVars
    BY <1>1, QuietFrame, ReactsFrame
  <2> QED
    BY <2>1 DEF IDInv, Named, callerVars
<1>2. ASSUME NEW p \in Callers,
             Moves(p) \/ EnterSend(p) \/ SendEnqueues(p) \/ WaitResult(p)
      PROVE  \A q \in Named' : mid'[q] # NoMsg
  <2>1. /\ \A q \in Callers : q # p => mid'[q] = mid[q]
        /\ p \in Named => mid'[p] = mid[p]
        /\ EnterSend(p) => p \notin Named /\ Named' = Named \cup {p}
        /\ ~EnterSend(p) => Named' = Named
        /\ Named \subseteq Callers
    BY <1>2, CallerFrame DEF Named
  <2>2. EnterSend(p) => mid'[p] # NoMsg
    BY NextIDOdd DEF EnterSend, IInv, IDInv, TypeOK, CallerType
  <2> QED
    BY <2>1, <2>2 DEF IDInv
<1> QED
  BY <1>1, <1>2, StepKinds

\* Every step keeps the envelopes that are on their way with an ID.
LEMMA IDNext ==
    ASSUME IInv, NamedInv, HaltInv, IDInv, [Next]_vars
    PROVE  IDInv'
<1> USE DEF connVars, reactorVars, ioVars, supVars, callerVars, resultVars,
            peerVars, appVars, queueVars, envelopeIn, vars
<1>1. \A p \in Named' : mid'[p] # NoMsg
  BY NamedIDs
<1> DEFINE Sending ==
      /\ \A e \in wire : e.id # NoMsg
      /\ \A i \in DOMAIN outgoing : outgoing[i].id # NoMsg
      /\ io["writer"] = "put" => held["writer"].id # NoMsg
      /\ io["writer"] # "put" => held["writer"] = NoEnv
    Emitting ==
      /\ nextMessageID % 2 = 1
      /\ rpc = "emit" => emit.id # NoMsg
      /\ rpc \in Looping \ {"emit"} => emit = NoEnv
<1> SUFFICES Sending' /\ Emitting'
  BY <1>1 DEF IDInv
<1>2. CASE Supervisor
  <2>1. rpc' = rpc \/ (rpc = "off" /\ rpc' = "select")
    BY <1>2 DEF Supervisor, Start, NegotiateFails, Negotiated, SupervisorTakes,
                SupervisorJoins
  <2>2. UNCHANGED <<wire, outgoing, held, emit, nextMessageID>>
    BY <1>2 DEF Supervisor, Start, NegotiateFails, Negotiated, SupervisorTakes,
                SupervisorJoins
  <2>3. io' = io \/ (io["writer"] # "put" /\ io'["writer"] = "run")
    BY <1>2 DEF Supervisor, Start, NegotiateFails, Negotiated, SupervisorTakes,
                SupervisorJoins, IOThreads, HaltInv
  <2> QED
    BY <2>1, <2>2, <2>3 DEF IDInv, Looping
<1>3. ASSUME NEW p \in Callers, CallerStep(p) \/ Begin(p) \/ Cancel(p)
      PROVE  Sending' /\ Emitting'
  <2>1. UNCHANGED <<wire, outgoing, held, io, emit, rpc>>
    BY <1>3 DEF CallerStep, Begin, Cancel, Refused, EnterSend, SendEnqueues, SendPanics,
       SendStopped, SendCancelled, SendGivesUp, WaitResult, WaitCancelled
  <2>2. nextMessageID' = nextMessageID \/ nextMessageID' = NextID
    BY <1>3 DEF CallerStep, Begin, Cancel, Refused, EnterSend, SendEnqueues, SendPanics,
       SendStopped, SendCancelled, SendGivesUp, WaitResult, WaitCancelled
  <2>3. nextMessageID' % 2 = 1
    BY <2>2, NextIDOdd DEF IInv, IDInv
  <2> QED
    BY <2>1, <2>3 DEF IDInv
<1>4. CASE Remote \/ AppClose \/ AppReceive \/ UNCHANGED vars
  <2>1. UNCHANGED <<wire, outgoing, emit, rpc, nextMessageID>>
    BY <1>4 DEF Remote, ReadRequest, ReadHeartbeat, ReadAnswer, ReaderReads, AppClose, AppReceive
  <2>2. io'["writer"] = io["writer"] /\ held'["writer"] = held["writer"]
    BY <1>4 DEF Remote, ReadRequest, ReadHeartbeat, ReadAnswer, ReaderReads, AppClose, AppReceive,
       IInv, TypeOK, IOType, IOThreads
  <2> QED
    BY <2>1, <2>2 DEF IDInv
<1>5. ASSUME NEW t \in IOThreads, IOStep(t) \/ IOFails(t)
      PROVE  Sending' /\ Emitting'
  <2>1. UNCHANGED <<emit, rpc, nextMessageID>>
    BY <1>5 DEF IOStep, IOStops, IORecovers, IOExits, IOFails, IOReturns,
              ReaderPuts, WriterTakes, WriterWrites
  <2>2. CASE WriterTakes
    <3>1. outgoing \in Seq(Envelopes) /\ outgoing # <<>> /\ outgoing' = Tail(outgoing)
      BY <2>2 DEF WriterTakes, IInv, TypeOK, QueueType
    <3>2. /\ \A i \in DOMAIN outgoing' : i + 1 \in DOMAIN outgoing /\ outgoing'[i] = outgoing[i + 1]
          /\ 1 \in DOMAIN outgoing /\ Head(outgoing) = outgoing[1]
      BY <3>1
    <3>3. held'["writer"] = Head(outgoing) /\ io'["writer"] = "put" /\ wire' = wire
      BY <2>2 DEF WriterTakes, IInv, TypeOK, IOType, IOThreads
    <3> QED
      BY <2>1, <3>2, <3>3 DEF IDInv
  <2>3. CASE WriterWrites
    BY <2>1, <2>3 DEF WriterWrites, IDInv, IInv, TypeOK, IOType, IOThreads
  <2>4. CASE t = "writer" /\ ~WriterTakes /\ ~WriterWrites
    <3>1. UNCHANGED <<wire, outgoing>>
      BY <1>5, <2>4 DEF IOStep, IOStops, IORecovers, IOExits, IOFails, IOReturns
    <3>2. io'["writer"] # "put" /\ held'["writer"] = NoEnv
      BY <1>5, <2>4 DEF IOStep, IOStops, IORecovers, IOExits, IOFails, IOReturns, IDInv,
         IInv, TypeOK, IOType, IOThreads
    <3> QED
      BY <2>1, <3>1, <3>2 DEF IDInv
  <2>5. CASE t = "reader"
    <3>1. UNCHANGED <<wire, outgoing>>
      BY <1>5, <2>5 DEF IOStep, IOStops, IORecovers, IOExits, IOFails, IOReturns, ReaderPuts
    <3>2. io'["writer"] = io["writer"] /\ held'["writer"] = held["writer"]
      BY <1>5, <2>5 DEF IOStep, IOStops, IORecovers, IOExits, IOFails, IOReturns, ReaderPuts,
         IInv, TypeOK, IOType, IOThreads
    <3> QED
      BY <2>1, <3>1, <3>2 DEF IDInv
  <2> QED
    BY <1>5, <2>2, <2>3, <2>4, <2>5 DEF IOThreads
<1>6. CASE ReactorEmits
  <2>1. outgoing \in Seq(Envelopes) /\ emit \in Envelopes /\ outgoing' = Append(outgoing, emit)
    BY <1>6 DEF ReactorEmits, IInv, TypeOK, QueueType, ReactorType
  <2>2. \A i \in DOMAIN outgoing' : outgoing'[i] = emit \/ (i \in DOMAIN outgoing /\ outgoing'[i] = outgoing[i])
    BY <2>1
  <2>3. emit.id # NoMsg
    BY <1>6 DEF ReactorEmits, IDInv
  <2> QED
    BY <1>6, <2>2, <2>3 DEF ReactorEmits, IDInv, Looping
<1>7. CASE ReactorHandles
  <2>1. UNCHANGED <<wire, outgoing, held, io>> /\ rpc = "select"
    BY <1>7 DEF ReactorHandles
  <2>2. \/ UNCHANGED <<nextMessageID, emit>> /\ rpc' \in {"select", "sdState"}
        \/ nextMessageID' = NextID /\ emit'.id = NextID /\ rpc' = "emit"
    BY <1>7 DEF ReactorHandles, ReactorReturns
  <2>3. nextMessageID' % 2 = 1 /\ (rpc' = "emit" => emit'.id # NoMsg)
    BY <2>2, NextIDOdd DEF IInv, IDInv
  <2> QED
    BY <2>1, <2>2, <2>3 DEF IDInv, Looping
<1>8. CASE ReactorCall
  <2> DEFINE p == Head(calls)
  <2>1. p \in Named
    BY <1>8, QueuedHead DEF ReactorCall, IInv, TypeOK, QueueType, NamedInv, Reach
  <2>2. UNCHANGED <<wire, outgoing, held, io, nextMessageID>> /\ rpc = "select"
    BY <1>8 DEF ReactorCall
  <2>3. \/ rpc' = "sdState"
        \/ rpc' = "emit" /\ emit' = EnvOf(p)
    BY <1>8 DEF ReactorCall, DeliverOrFail, ReactorReturns
  <2> QED
    BY <2>1, <2>2, <2>3 DEF IDInv, EnvOf, Looping
<1>9. CASE \/ ReactorUnexpected \/ ReactorHeartbeat \/ ReactorStops \/ ReactorReadTimeout
           \/ (\E S \in SUBSET pending : CleanupTick(S)) \/ ReactorAnswer
           \/ (\E p \in due : CleanupCall(p)) \/ ReactorShutdown
  <2>1. UNCHANGED <<wire, outgoing, held, io, nextMessageID>>
    BY <1>9 DEF ReactorUnexpected, ReactorHeartbeat, ReactorStops, ReactorReadTimeout, CleanupTick,
       ReactorAnswer, CleanupCall, ReactorShutdown, ShutdownStores, ShutdownCloses, ShutdownWaits,
       ShutdownDrains, ShutdownStops, ReactorExits, ShutdownReports
  <2>2. \/ rpc' \notin Looping
        \/ rpc' \in {"select", "cleanup"} /\ rpc \in {"select", "cleanup"} /\ emit' = emit
    BY <1>9 DEF ReactorUnexpected, ReactorHeartbeat, ReactorStops, ReactorReadTimeout, CleanupTick,
       ReactorAnswer, CleanupCall, ReactorShutdown, ShutdownStores, ShutdownCloses, ShutdownWaits,
       ShutdownDrains, ShutdownStops, ReactorExits, ShutdownReports, DeliverOrFail, ReactorReturns, Looping
  <2> QED
    BY <2>1, <2>2 DEF IDInv, Looping
<1> QED
  BY <1>2, <1>3, <1>4, <1>5, <1>6, <1>7, <1>8, <1>9
     DEF Next, Application, ReactorLoop, Terminated

----------------------------------------------------------------------------
(* Results *)

\* The result that a call is given is an error, the success of a Reply whose
\* envelope is then in the reactor's hand, or the answer to the call.
LEMMA GivesWhat ==
    ASSUME IInv, Reacts, NEW p \in Callers, given'[p] # given[p]
    PROVE  /\ p \in Reach /\ given[p] = <<>>
           /\ \E r \in Results :
                /\ given'[p] = <<r>>
                /\ \/ r.err # Nil
                   \/ r = Failure(Nil) /\ to[p] # NoMsg /\ emit' = EnvOf(p)
                   \/ /\ ReactorAnswer /\ p \in pending
                      /\ mid[p] = Head(incoming).replyTo /\ mid[p] # NoMsg
                      /\ r = Answer(mid[p])
<1> USE DEF connVars, reactorVars, ioVars, supVars, callerVars, peerVars,
            appVars, queueVars, envelopeIn
<1>1. p \in Reach /\ given[p] = <<>>
  BY ReactsGives
<1>2. ASSUME NEW q \in Reach, NEW r, Deliver(q, r) PROVE q = p /\ given'[p] = <<r>>
  <2>1. q \in Callers
    BY ReachFacts DEF IInv
  <2>2. given' = [given EXCEPT ![q] = Append(given[q], r)]
    BY <1>2 DEF Deliver
  <2>3. q = p
    BY <2>1, <2>2 DEF IInv, TypeOK, CallerType
  <2>4. given'[p] = Append(given[p], r)
    BY <2>1, <2>2, <2>3 DEF IInv, TypeOK, CallerType
  <2> QED
    BY <1>1, <2>3, <2>4
<1>3. ASSUME NEW q \in Reach, NEW r, NEW next, DeliverOrFail(q, r, next)
      PROVE  q = p /\ given'[p] = <<r>>
  BY <1>2, <1>3 DEF DeliverOrFail, resultVars
<1>4. CASE ReactorAnswer
  <2> DEFINE m == Head(incoming).replyTo
  <2>1. PICK q \in pending : mid[q] = m /\ DeliverOrFail(q, Answer(m), "select")
    BY <1>4 DEF ReactorAnswer, WithID
  <2>2. m # NoMsg
    BY <1>4 DEF ReactorAnswer
  <2>3. q = p /\ given'[p] = <<Answer(m)>>
    BY <1>3, <2>1 DEF Reach
  <2>4. Answer(m) \in Results
    BY <2>1, ResultTypes, Constants DEF IInv, TypeOK, CallerType, ReactorType
  <2> QED
    BY <1>1, <1>4, <2>1, <2>2, <2>3, <2>4
<1>5. CASE ReactorCall
  <2> DEFINE q == Head(calls)
  <2>1. q \in Reach
    BY <1>5, QueuedHead DEF ReactorCall, IInv, TypeOK, QueueType, Reach
  <2>2. Failure("protocol") \in Results /\ Failure(Nil) \in Results
        /\ Failure("protocol").err # Nil
    BY ResultTypes DEF Errors, Failure, Nil
  <2>3. CASE DeliverOrFail(q, Failure("protocol"), "emit")
    BY <1>1, <1>3, <2>1, <2>2, <2>3
  <2>4. CASE DeliverOrFail(q, Failure(Nil), "emit") /\ to[q] # NoMsg /\ emit' = EnvOf(q)
    BY <1>1, <1>3, <2>1, <2>2, <2>4
  <2> QED
    BY <1>5, <2>3, <2>4 DEF ReactorCall, resultVars
<1>6. CASE \E q \in due : CleanupCall(q)
  <2>1. PICK q \in due : CleanupCall(q)
    BY <1>6
  <2>2. q \in Reach
    BY DEF Reach, IInv, TypeOK, ReactorType
  <2>3. Failure("responseTimeout") \in Results /\ Failure("responseTimeout").err # Nil
    BY ResultTypes DEF Errors, Failure, Nil
  <2>4. given'[p] = <<Failure("responseTimeout")>>
    BY <1>3, <2>1, <2>2 DEF CleanupCall
  <2> QED
    BY <1>1, <2>3, <2>4
<1>7. CASE ShutdownDrains
  BY <1>7 DEF ShutdownDrains, resultVars
<1>8. CASE \E q \in pending : ShutdownReports(q)
  <2>1. PICK q \in pending : ShutdownReports(q)
    BY <1>8
  <2> DEFINE e == IF rerr = Nil THEN "connShutdown" ELSE rerr
  <2>2. Failure(e) \in Results /\ Failure(e).err # Nil
    BY ResultTypes DEF Errors, IInv, TypeOK, ReactorType, Failure, Nil
  <2>3. given'[p] = <<Failure(e)>>
    BY <1>2, <2>1 DEF ShutdownReports, resultVars, Reach
  <2> QED
    BY <1>1, <2>2, <2>3
<1> QED
  BY <1>4, <1>5, <1>6, <1>7, <1>8 DEF Reacts

----------------------------------------------------------------------------
(* The way of an envelope *)

\* An envelope is somewhere between the reactor and the remote, or the writer
\* is not going to write it.
Sent(e) ==
    \/ e \in wire \cup {emit, held["writer"]}
    \/ \E i \in DOMAIN outgoing : outgoing[i] = e
    \/ stopClosed \/ io["writer"] \in {"failed", "exit", "done"}

\* An envelope stays on its way, or arrives, unless the connection is terminated.
LEMMA SentStays ==
    ASSUME IInv, HaltInv, IDInv, [Next]_vars, NEW e, e.id # NoMsg, Sent(e)
    PROVE  Sent(e)'
<1> USE DEF connVars, reactorVars, ioVars, supVars, callerVars, resultVars,
            peerVars, appVars, queueVars, envelopeIn, vars
<1>1. e # NoEnv
  BY DEF NoEnv
<1>2. CASE Supervisor
  <2>1. UNCHANGED <<wire, emit, held, outgoing>> /\ (stopClosed => stopClosed')
    BY <1>2 DEF Supervisor, Start, NegotiateFails, Negotiated, SupervisorTakes,
                SupervisorJoins
  <2>2. io' = io \/ io["writer"] = "off"
    BY <1>2 DEF Supervisor, Start, NegotiateFails, Negotiated, SupervisorTakes,
                SupervisorJoins, IOThreads, HaltInv
  <2> QED
    BY <2>1, <2>2 DEF Sent
<1>3. ASSUME NEW p \in Callers, CallerStep(p) \/ Begin(p) \/ Cancel(p)
      PROVE  Sent(e)'
  <2>1. UNCHANGED <<wire, outgoing, held, io, emit, stopClosed>>
    BY <1>3 DEF CallerStep, Begin, Cancel, Refused, EnterSend, SendEnqueues, SendPanics,
       SendStopped, SendCancelled, SendGivesUp, WaitResult, WaitCancelled
  <2> QED
    BY <2>1 DEF Sent
<1>4. CASE Remote \/ AppClose \/ AppReceive \/ UNCHANGED vars
  <2>1. UNCHANGED <<wire, outgoing, emit>> /\ (stopClosed => stopClosed')
    BY <1>4 DEF Remote, ReadRequest, ReadHeartbeat, ReadAnswer, ReaderReads, AppClose, AppReceive
  <2>2. io'["writer"] = io["writer"] /\ held'["writer"] = held["writer"]
    BY <1>4 DEF Remote, ReadRequest, ReadHeartbeat, ReadAnswer, ReaderReads, AppClose, AppReceive,
       IInv, TypeOK, IOType, IOThreads
  <2> QED
    BY <2>1, <2>2 DEF Sent
<1>5. ASSUME NEW t \in IOThreads, IOStep(t) \/ IOFails(t)
      PROVE  Sent(e)'
  <2>1. UNCHANGED <<emit, stopClosed>>
    BY <1>5 DEF IOStep, IOStops, IORecovers, IOExits, IOFails, IOReturns,
              ReaderPuts, WriterTakes, WriterWrites
  <2>2. CASE WriterTakes
    <3>1. outgoing \in Seq(Envelopes) /\ outgoing # <<>> /\ outgoing' = Tail(outgoing)
      BY <2>2 DEF WriterTakes, IInv, TypeOK, QueueType
    <3>2. \A i \in DOMAIN outgoing : \/ outgoing[i] = Head(outgoing)
                                     \/ i - 1 \in DOMAIN outgoing' /\ outgoing'[i - 1] = outgoing[i]
      BY <3>1
    <3>3. held'["writer"] = Head(outgoing) /\ wire' = wire
          /\ held["writer"] = NoEnv /\ io["writer"] = "run"
      BY <2>2 DEF WriterTakes, IInv, TypeOK, IOType, IOThreads, IDInv
    <3> QED
      BY <1>1, <2>1, <3>2, <3>3 DEF Sent
  <2>3. CASE WriterWrites
    BY <2>1, <2>3 DEF WriterWrites, Sent, IInv, TypeOK, IOType, IOThreads
  <2>4. CASE t = "writer" /\ ~WriterTakes /\ ~WriterWrites
    <3>1. stopClosed' \/ io'["writer"] \in {"failed", "exit", "done"}
      BY <1>5, <2>4 DEF IOStep, IOStops, IORecovers, IOExits, IOFails, IOReturns,
         IInv, TypeOK, IOType, IOThreads
    <3> QED
      BY <3>1 DEF Sent
  <2>5. CASE t = "reader"
    <3>1. UNCHANGED <<wire, outgoing>>
      BY <1>5, <2>5 DEF IOStep, IOStops, IORecovers, IOExits, IOFails, IOReturns, ReaderPuts
    <3>2. io'["writer"] = io["writer"] /\ held'["writer"] = held["writer"]
      BY <1>5, <2>5 DEF IOStep, IOStops, IORecovers, IOExits, IOFails, IOReturns, ReaderPuts,
         IInv, TypeOK, IOType, IOThreads
    <3> QED
      BY <2>1, <3>1, <3>2 DEF Sent
  <2> QED
    BY <1>5, <2>2, <2>3, <2>4, <2>5 DEF IOThreads
<1>6. CASE ReactorEmits
  <2>1. outgoing \in Seq(Envelopes) /\ emit \in Envelopes /\ outgoing' = Append(outgoing, emit)
    BY <1>6 DEF ReactorEmits, IInv, TypeOK, QueueType, ReactorType
  <2>2. /\ \A i \in DOMAIN outgoing : i \in DOMAIN outgoing' /\ outgoing'[i] = outgoing[i]
        /\ Len(outgoing') \in DOMAIN outgoing' /\ outgoing'[Len(outgoing')] = emit
    BY <2>1
  <2> QED
    BY <1>6, <2>2 DEF ReactorEmits, Sent
<1>7. CASE ReactorHandles \/ ReactorCall
  <2>1. UNCHANGED <<wire, outgoing, held, io, stopClosed>> /\ rpc = "select"
    BY <1>7 DEF ReactorHandles, ReactorCall
  <2>2. emit = NoEnv
    BY <2>1 DEF IDInv, Looping
  <2> QED
    BY <1>1, <2>1, <2>2 DEF Sent
<1>8. CASE \/ ReactorUnexpected \/ ReactorHeartbeat \/ ReactorReadTimeout
           \/ (\E S \in SUBSET pending : CleanupTick(S)) \/ ReactorAnswer
           \/ (\E p \in due : CleanupCall(p)) \/ ReactorShutdown \/ ReactorStops
  <2>1. /\ UNCHANGED <<wire, outgoing, held, io>> /\ (stopClosed => stopClosed')
        /\ emit' = emit \/ stopClosed
    BY <1>8 DEF ReactorUnexpected, ReactorHeartbeat, ReactorStops, ReactorReadTimeout, CleanupTick,
       ReactorAnswer, CleanupCall, ReactorShutdown, ShutdownStores, ShutdownCloses, ShutdownWaits,
       ShutdownDrains, ShutdownStops, ReactorExits, ShutdownReports
  <2> QED
    BY <2>1 DEF Sent
<1> QED
  BY <1>2, <1>3, <1>4, <1>5, <1>6, <1>7, <1>8
     DEF Next, Application, ReactorLoop, Terminated

\* A caller with an ID keeps its envelope, and its result.
LEMMA NamedStable ==
    ASSUME IInv, NamedInv, [Next]_vars, NEW p \in Named
    PROVE  /\ p \in Named' /\ mid'[p] = mid[p] /\ to'[p] = to[p] /\ rs'[p] = rs[p]
           /\ given[p] # <<>> => given'[p] = given[p]
<1>0. p \in Callers
  BY DEF Named
<1>1. CASE Quiet \/ Reacts
  <2>1. UNCHANGED callerVars
    BY <1>1, QuietFrame, ReactsFrame
  <2>2. given[p] # <<>> => given'[p] = given[p]
    BY <1>0, <1>1, QuietFrame, ReactsGives
  <2> QED
    BY <2>1, <2>2 DEF Named, callerVars
<1>2. ASSUME NEW q \in Callers,
             Moves(q) \/ EnterSend(q) \/ SendEnqueues(q) \/ WaitResult(q)
      PROVE  /\ p \in Named' /\ mid'[p] = mid[p] /\ to'[p] = to[p] /\ rs'[p] = rs[p]
             /\ given'[p] = given[p]
  <2>1. /\ given' = given
        /\ p # q => mid'[p] = mid[p] /\ to'[p] = to[p] /\ rs'[p] = rs[p]
        /\ q \in Named => mid'[q] = mid[q] /\ to'[q] = to[q] /\ rs'[q] = rs[q]
    BY <1>0, <1>2, CallerFrame
  <2> QED
    BY <2>1, <1>0 DEF Named
<1> QED
  BY <1>1, <1>2, StepKinds

\* A step that tells a Reply of its success has put its envelope on the way.
LEMMA ToldNext ==
    ASSUME IInv, IInv', NamedInv, NamedInv', HaltInv, IDInv, ToldIsSent, [Next]_vars
    PROVE  ToldIsSent'
<1> DEFINE Told(p) == \E i \in DOMAIN given[p] : given[p][i] = Failure(Nil)
<1>1. ASSUME NEW p \in Repliers, Told(p)' PROVE Sent(EnvOf(p))'
  <2>1. p \in Callers
    BY DEF Callers, SyncCallers
  <2>2. CASE given'[p] = given[p]
    <3>1. Told(p)
      BY <1>1, <2>2
    <3>2. given[p] # <<>>
      BY <3>1
    <3>3. p \in Named
      BY <2>1, <3>2 DEF NamedInv
    <3>4. Sent(EnvOf(p)) /\ EnvOf(p).id # NoMsg /\ EnvOf(p)' = EnvOf(p)
      BY <3>1, <3>3, NamedStable DEF ToldIsSent, Sent, EnvOf, IDInv
    <3>5. PICK e : e = EnvOf(p)
      OBVIOUS
    <3>6. Sent(e)'
      BY <3>4, <3>5, SentStays
    <3>7. EnvOf(p)' = e
      BY <3>4, <3>5
    <3> QED
      BY <3>6, <3>7 DEF Sent
  <2>3. CASE given'[p] # given[p]
    <3>1. Reacts
      <4>1. Quiet => given' = given
        BY QuietFrame
      <4>2. ASSUME NEW q \in Callers,
                   Moves(q) \/ EnterSend(q) \/ SendEnqueues(q) \/ WaitResult(q)
            PROVE  given' = given
        BY <4>2, CallerFrame
      <4> QED
        BY <2>3, <4>1, <4>2, StepKinds
    <3>2. PICK r \in Results :
                /\ given'[p] = <<r>>
                /\ \/ r.err # Nil
                   \/ r = Failure(Nil) /\ to[p] # NoMsg /\ emit' = EnvOf(p)
                   \/ /\ ReactorAnswer /\ p \in pending
                      /\ mid[p] = Head(incoming).replyTo /\ mid[p] # NoMsg
                      /\ r = Answer(mid[p])
      BY <2>1, <2>3, <3>1, GivesWhat
    <3>3. r = Failure(Nil)
      BY <1>1, <3>2
    <3>4. emit' = EnvOf(p)
      BY <3>2, <3>3 DEF Failure, Answer
    <3>5. EnvOf(p)' = EnvOf(p)
      BY <3>1, ReactsFrame DEF EnvOf, callerVars
    <3> QED
      BY <3>4, <3>5 DEF Sent
  <2> QED
    BY <2>2, <2>3
<1> QED
  BY <1>1 DEF ToldIsSent, Sent

----------------------------------------------------------------------------
(* Answers *)

\* A known ID stays known for as long as the reactor serves.
LEMMA KnownStays ==
    ASSUME IInv, NamedInv, [Next]_vars, rpc' \in Looping, NEW i, Known(i)
    PROVE  Known(i)'
<1>1. PICK p \in Named : /\ mid[p] = i
                         /\ \/ p \in pending
                            \/ given[p] # <<>> /\ (p \in Repliers => given[p][1].err # Nil)
  BY DEF Known
<1>2. p \in Named' /\ mid'[p] = i
  BY <1>1, NamedStable
<1>3. CASE given[p] # <<>> /\ (p \in Repliers => given[p][1].err # Nil)
  BY <1>2, <1>3, NamedStable DEF Known
<1>4. CASE p \in pending' \/ (given'[p] # <<>> /\ p \notin Repliers)
  BY <1>2, <1>4 DEF Known
<1>5. CASE p \in pending /\ p \notin pending'
  <2>1. Reacts
    <3>1. Quiet => pending' = pending
      BY QuietFrame
    <3>2. ASSUME NEW q \in Callers,
                 Moves(q) \/ EnterSend(q) \/ SendEnqueues(q) \/ WaitResult(q)
          PROVE  pending' = pending
      BY <3>2, CallerFrame
    <3> QED
      BY <1>5, <3>1, <3>2, StepKinds
  <2>2. rpc \in Looping
    BY <2>1 DEF Reacts, ReactorAnswer, ReactorCall, CleanupCall, ShutdownDrains, ShutdownReports, Looping
  <2>3. p \notin Repliers
    BY <1>5, <2>2 DEF IInv, ReplyInv
  <2>4. ASSUME NEW q \in Reach, NEW r, Deliver(q, r) PROVE given'[q] = <<r>>
    <3>1. q \in Callers /\ given[q] = <<>>
      BY ReachFacts DEF IInv, CoreInv, ReachInv
    <3> QED
      BY <2>4, <3>1 DEF Deliver, IInv, TypeOK, CallerType
  <2>5. ASSUME NEW q \in Reach, NEW r, NEW next, DeliverOrFail(q, r, next) PROVE given'[q] = <<r>>
    BY <2>4, <2>5 DEF DeliverOrFail, ReactorReturns, Looping
  <2>6. CASE ReactorAnswer
    <3>1. PICK q \in pending : /\ pending' = pending \ {q}
                              /\ DeliverOrFail(q, Answer(Head(incoming).replyTo), "select")
      BY <2>6 DEF ReactorAnswer, WithID
    <3>2. q = p /\ p \in Reach
      BY <1>5, <3>1 DEF Reach
    <3>3. given'[p] = <<Answer(Head(incoming).replyTo)>>
      BY <2>5, <3>1, <3>2
    <3> QED
      BY <1>4, <2>3, <3>3
  <2>7. CASE \E q \in due : CleanupCall(q)
    <3>1. PICK q \in due : CleanupCall(q)
      BY <2>7
    <3>2. q = p /\ p \in Reach
      BY <1>5, <3>1 DEF CleanupCall, Reach
    <3>3. given'[p] = <<Failure("responseTimeout")>>
      BY <2>5, <3>1, <3>2 DEF CleanupCall
    <3> QED
      BY <1>4, <2>3, <3>3
  <2>8. CASE ReactorCall
    <3> DEFINE q == Head(calls)
    <3>1. q \in Reach
      BY <2>8, QueuedHead DEF ReactorCall, IInv, TypeOK, QueueType, Reach
    <3>2. q \in Named /\ q \in Named' /\ mid'[q] = mid[q]
      BY <3>1, NamedStable DEF NamedInv
    <3>3. q \notin FailedReplies
      BY <2>8 DEF ReactorCall, ReactorReturns, Looping
    <3>4. CASE q \in Unmapped
      <4>1. /\ pending' = Registered(q) \ WithID(Registered(q), mid[q])
            /\ DeliverOrFail(q, Failure("protocol"), "emit")
        BY <2>8, <3>3, <3>4 DEF ReactorCall
      <4>2. given'[q] = <<Failure("protocol")>>
        BY <2>5, <3>1, <4>1
      <4>3. mid[p] = mid[q]
        BY <1>5, <4>1 DEF Registered, AddCall, WithID
      <4>4. given'[q] # <<>> /\ given'[q][1].err # Nil
        BY <4>2 DEF Failure, Nil
      <4> QED
        BY <1>1, <3>2, <4>3, <4>4 DEF Known
    <3>5. CASE q \notin Unmapped
      <4>1. pending' = Registered(q)
        BY <2>8, <3>3, <3>5 DEF ReactorCall
      <4>2. mid[p] = mid[q] /\ q \in pending'
        BY <1>5, <4>1 DEF Registered, AddCall, WithID
      <4> QED
        BY <1>1, <3>2, <4>2 DEF Known
    <3> QED
      BY <3>4, <3>5
  <2>9. CASE ShutdownDrains \/ \E q \in pending : ShutdownReports(q)
    BY <2>2, <2>9 DEF ShutdownDrains, ShutdownReports, Looping
  <2> QED
    BY <2>1, <2>6, <2>7, <2>8, <2>9 DEF Reacts
<1> QED
  BY <1>1, <1>3, <1>4, <1>5

\* An envelope on its way to the remote was on its way, or the reactor has just
\* made it: an answer of the Handler, or the envelope of the first queued call.
LEMMA OutboundFlow ==
    ASSUME IInv, [Next]_vars, NEW e \in Outbound'
    PROVE  \/ e \in Outbound \/ e.replyTo # NoMsg \/ e = NoEnv
           \/ ReactorCall /\ e = EnvOf(Head(calls)) /\ rpc' # "sdState"
           \/ rpc' \notin Looping
<1> USE DEF connVars, reactorVars, ioVars, supVars, callerVars, resultVars,
            peerVars, appVars, queueVars, envelopeIn, vars
<1>1. CASE UNCHANGED <<wire, emit, outgoing>> /\ held'["writer"] = held["writer"]
  BY <1>1 DEF Outbound
<1>2. CASE Supervisor \/ AppClose \/ AppReceive \/ UNCHANGED vars
  BY <1>1, <1>2 DEF Supervisor, Start, NegotiateFails, Negotiated, SupervisorTakes,
                SupervisorJoins, AppClose, AppReceive
<1>3. ASSUME NEW p \in Callers, CallerStep(p) \/ Begin(p) \/ Cancel(p)
      PROVE  UNCHANGED <<wire, outgoing, held, emit>>
  BY <1>3 DEF CallerStep, Begin, Cancel, Refused, EnterSend, SendEnqueues, SendPanics,
       SendStopped, SendCancelled, SendGivesUp, WaitResult, WaitCancelled
<1>4. CASE Remote
  BY <1>1, <1>4 DEF Remote, ReadRequest, ReadHeartbeat, ReadAnswer, ReaderReads,
     IInv, TypeOK, IOType, IOThreads
<1>5. CASE \E t \in IOThreads : IOStep(t) \/ IOFails(t)
  <2>1. PICK t \in IOThreads : IOStep(t) \/ IOFails(t)
    BY <1>5
  <2>2. CASE WriterTakes
    <3>1. outgoing \in Seq(Envelopes) /\ outgoing # <<>> /\ outgoing' = Tail(outgoing)
      BY <2>2 DEF WriterTakes, IInv, TypeOK, QueueType
    <3>2. /\ \A i \in DOMAIN outgoing' : i + 1 \in DOMAIN outgoing /\ outgoing'[i] = outgoing[i + 1]
          /\ 1 \in DOMAIN outgoing /\ Head(outgoing) = outgoing[1]
      BY <3>1
    <3>3. held'["writer"] = Head(outgoing) /\ wire' = wire /\ emit' = emit
      BY <2>2 DEF WriterTakes, IInv, TypeOK, IOType, IOThreads
    <3> QED
      BY <3>2, <3>3 DEF Outbound
  <2>3. CASE WriterWrites
    BY <2>3 DEF WriterWrites, Outbound, IInv, TypeOK, IOType, IOThreads
  <2>4. CASE ~WriterTakes /\ ~WriterWrites
    <3>1. UNCHANGED <<wire, emit, outgoing>>
      BY <2>1, <2>4 DEF IOStep, IOStops, IORecovers, IOExits, IOFails, IOReturns, ReaderPuts
    <3>2. held'["writer"] = held["writer"] \/ held'["writer"] = NoEnv
      BY <2>1, <2>4 DEF IOStep, IOStops, IORecovers, IOExits, IOFails, IOReturns, ReaderPuts,
         IInv, TypeOK, IOType, IOThreads
    <3> QED
      BY <3>1, <3>2 DEF Outbound
  <2> QED
    BY <2>2, <2>3, <2>4
<1>6. CASE ReactorEmits
  <2>1. outgoing \in Seq(Envelopes) /\ emit \in Envelopes /\ outgoing' = Append(outgoing, emit)
    BY <1>6 DEF ReactorEmits, IInv, TypeOK, QueueType, ReactorType
  <2>2. \A i \in DOMAIN outgoing' : outgoing'[i] = emit \/ (i \in DOMAIN outgoing /\ outgoing'[i] = outgoing[i])
    BY <2>1
  <2>3. emit' = NoEnv /\ wire' = wire /\ held' = held
    BY <1>6 DEF ReactorEmits
  <2> QED
    BY <2>2, <2>3 DEF Outbound
<1>7. CASE ReactorHandles
  <2>1. UNCHANGED <<wire, outgoing, held>>
    BY <1>7 DEF ReactorHandles
  <2>2. Head(incoming) \in Envelopes /\ Head(incoming).id # NoMsg
    <3>1. incoming \in Seq(Envelopes) /\ incoming # <<>>
      BY <1>7 DEF ReactorHandles, IInv, TypeOK, QueueType
    <3>2. Head(incoming) \in Envelopes
      BY <3>1
    <3> QED
      BY <1>7, <3>2 DEF ReactorHandles, Envelopes, NoEnv
  <2>3. emit' = emit \/ emit'.replyTo # NoMsg
    BY <1>7, <2>2 DEF ReactorHandles
  <2> QED
    BY <2>1, <2>3 DEF Outbound
<1>8. CASE ReactorCall
  <2>1. UNCHANGED <<wire, outgoing, held>>
    BY <1>8 DEF ReactorCall
  <2>2. rpc' = "sdState" \/ emit' = EnvOf(Head(calls))
    BY <1>8 DEF ReactorCall, ReactorReturns
  <2> QED
    BY <1>8, <2>1, <2>2 DEF Outbound, Looping
<1>9. CASE \/ ReactorUnexpected \/ ReactorHeartbeat \/ ReactorReadTimeout
           \/ (\E S \in SUBSET pending : CleanupTick(S)) \/ ReactorAnswer
           \/ (\E p \in due : CleanupCall(p)) \/ ReactorShutdown \/ ReactorStops
  <2>1. /\ UNCHANGED <<wire, outgoing, held>>
        /\ emit' = emit \/ emit' = NoEnv
    BY <1>9 DEF ReactorUnexpected, ReactorHeartbeat, ReactorStops, ReactorReadTimeout, CleanupTick,
       ReactorAnswer, CleanupCall, ReactorShutdown, ShutdownStores, ShutdownCloses, ShutdownWaits,
       ShutdownDrains, ShutdownStops, ReactorExits, ShutdownReports
  <2> QED
    BY <2>1 DEF Outbound
<1> QED
  BY <1>1, <1>2, <1>3, <1>4, <1>5, <1>6, <1>7, <1>8, <1>9
     DEF Next, Application, ReactorLoop, Terminated

\* The remote has now answered the call whose envelope has the ID a.
Answers(a) == /\ \E e \in wire : e.replyTo = NoMsg /\ e.id = a
              /\ a \notin answered \/ PeerRepeats
              /\ a \in answered'

\* What has come from the remote came before, one place further back if the
\* reactor has taken the first, except for an answer that comes now.
LEMMA InboundFlow ==
    ASSUME IInv, [Next]_vars
    PROVE  /\ answered \subseteq answered'
           /\ \E d \in {0, 1} :
                /\ ReactorAnswer => d = 1 /\ 1 \in DOMAIN Inbound /\ Inbound[1] = Head(incoming)
                /\ \A i \in DOMAIN Inbound' :
                     \/ Inbound'[i].replyTo = NoMsg
                     \/ i + d \in DOMAIN Inbound /\ Inbound'[i] = Inbound[i + d]
                     \/ i = Len(Inbound') /\ Answers(Inbound'[i].replyTo)
<1> USE DEF connVars, reactorVars, ioVars, supVars, callerVars, resultVars,
            peerVars, appVars, queueVars, envelopeIn, vars
<1> DEFINE Flows(d) ==
      \A i \in DOMAIN Inbound' :
         \/ Inbound'[i].replyTo = NoMsg
         \/ i + d \in DOMAIN Inbound /\ Inbound'[i] = Inbound[i + d]
         \/ i = Len(Inbound') /\ Answers(Inbound'[i].replyTo)
<1>0. /\ incoming \in Seq(Envelopes) /\ held["reader"] \in Envelopes
      /\ incoming' = incoming \/ incoming' \in Seq(Envelopes)
      /\ NoEnv \in Envelopes /\ NoEnv.replyTo = NoMsg
  <2>1. incoming \in Seq(Envelopes) /\ held["reader"] \in Envelopes
    BY DEF IInv, TypeOK, QueueType, IOType, IOThreads
  <2>2. TypeOK'
    BY TypeNext DEF IInv
  <2> QED
    BY <2>1, <2>2 DEF TypeOK, QueueType, Envelopes, NoEnv, NoMsg
<1>1. ASSUME UNCHANGED incoming, held'["reader"] = held["reader"]
      PROVE  Flows(0)
  <2>1. Inbound' = Inbound /\ DOMAIN Inbound \subseteq Int
    BY <1>0, <1>1 DEF Inbound
  <2>2. \A i \in DOMAIN Inbound' : i + 0 \in DOMAIN Inbound /\ Inbound'[i] = Inbound[i + 0]
    BY <2>1
  <2> QED
    BY <2>2
<1>2. ASSUME UNCHANGED incoming, held'["reader"] = NoEnv
      PROVE  Flows(0)
  <2>1. Inbound' = Append(incoming, NoEnv)
    BY <1>2 DEF Inbound
  <2>2. \A i \in DOMAIN Inbound' : \/ Inbound'[i] = NoEnv
                                   \/ i + 0 \in DOMAIN Inbound /\ Inbound'[i] = Inbound[i + 0]
    BY <1>0, <2>1 DEF Inbound
  <2> QED
    BY <1>0, <2>2
<1>3. ASSUME incoming # <<>>, incoming' = Tail(incoming), held' = held
      PROVE  Flows(1) /\ 1 \in DOMAIN Inbound /\ Inbound[1] = Head(incoming)
  <2>1. Inbound' = Append(Tail(incoming), held["reader"])
    BY <1>3 DEF Inbound
  <2>2. \A i \in DOMAIN Inbound' : i + 1 \in DOMAIN Inbound /\ Inbound'[i] = Inbound[i + 1]
    BY <1>0, <1>3, <2>1 DEF Inbound
  <2>3. 1 \in DOMAIN Inbound /\ Inbound[1] = Head(incoming)
    BY <1>0, <1>3 DEF Inbound
  <2> QED
    BY <2>2, <2>3
<1>4. CASE ReaderPuts
  <2>1. Inbound' = Append(Append(incoming, held["reader"]), NoEnv)
    BY <1>4 DEF ReaderPuts, Inbound, IInv, TypeOK, IOType, IOThreads
  <2>2. \A i \in DOMAIN Inbound' : \/ Inbound'[i] = NoEnv
                                   \/ i + 0 \in DOMAIN Inbound /\ Inbound'[i] = Inbound[i + 0]
    BY <1>0, <2>1 DEF Inbound
  <2>3. ~ReactorAnswer /\ answered' = answered
    BY <1>4 DEF ReaderPuts, ReactorAnswer
  <2> QED
    BY <1>0, <2>2, <2>3
<1>5. ASSUME NEW e \in Envelopes, ReaderReads(e),
             e.replyTo = NoMsg \/ Answers(e.replyTo)
      PROVE  Flows(0)
  <2>1. Inbound' = Append(incoming, e)
    BY <1>5 DEF ReaderReads, Inbound, IInv, TypeOK, IOType, IOThreads
  <2>2. \A i \in DOMAIN Inbound' : \/ Inbound'[i] = e /\ i = Len(Inbound')
                                   \/ i + 0 \in DOMAIN Inbound /\ Inbound'[i] = Inbound[i + 0]
    BY <1>0, <2>1 DEF Inbound
  <2> QED
    BY <1>5, <2>2
<1>6. CASE Remote
  <2>1. answered \subseteq answered' /\ ~ReactorAnswer
    BY <1>6 DEF Remote, ReadRequest, ReadHeartbeat, ReadAnswer, ReaderReads, ReactorAnswer
  <2>2. peerSent + 1 \in Nat
    BY Constants DEF IInv, TypeOK, EnvironmentType
  <2>3. CASE ReadRequest \/ ReadHeartbeat
    <3> DEFINE f == [id |-> peerSent + 1, replyTo |-> NoMsg]
    <3>1. f \in Envelopes /\ f.replyTo = NoMsg
      BY <2>2 DEF Envelopes, NoMsg
    <3>2. ReaderReads(f) \/ ReaderReads(NoEnv)
      BY <2>3 DEF ReadRequest, ReadHeartbeat
    <3> HIDE DEF f
    <3>3. Flows(0)
      BY <1>0, <1>5, <3>1, <3>2
    <3> QED
      BY <2>1, <3>3
  <2>4. CASE \E e \in wire : ReadAnswer(e)
    <3>1. PICK e \in wire : ReadAnswer(e)
      BY <2>4
    <3> DEFINE f == [id |-> peerSent + 1, replyTo |-> e.id]
    <3>2. e.id \in Nat
      BY DEF IInv, TypeOK, EnvironmentType, Envelopes
    <3>3. f \in Envelopes /\ f.replyTo = e.id
      BY <2>2, <3>2 DEF Envelopes
    <3>4. ReaderReads(f)
      BY <3>1 DEF ReadAnswer
    <3>5. Answers(e.id)
      BY <3>1 DEF ReadAnswer, Answers
    <3> HIDE DEF f
    <3>6. Flows(0)
      BY <1>5, <3>3, <3>4, <3>5
    <3> QED
      BY <2>1, <3>6
  <2> QED
    BY <1>6, <2>3, <2>4 DEF Remote
<1>7. CASE \E t \in IOThreads : IOStep(t) \/ IOFails(t)
  <2>1. PICK t \in IOThreads : IOStep(t) \/ IOFails(t)
    BY <1>7
  <2>2. CASE ~ReaderPuts
    <3>1. /\ UNCHANGED <<incoming, answered, rpc>>
          /\ held'["reader"] = held["reader"] \/ held'["reader"] = NoEnv
      BY <2>1, <2>2 DEF IOStep, IOStops, IORecovers, IOExits, IOFails, IOReturns, WriterTakes,
         WriterWrites, IInv, TypeOK, IOType, IOThreads
    <3>2. ~ReactorAnswer
      BY <3>1, <1>0 DEF ReactorAnswer
    <3> QED
      BY <1>1, <1>2, <3>1, <3>2
  <2> QED
    BY <1>4, <2>2
<1>8. CASE Supervisor \/ AppClose \/ AppReceive \/ UNCHANGED vars
           \/ \E p \in Callers : CallerStep(p) \/ Begin(p) \/ Cancel(p)
  <2>1. UNCHANGED <<incoming, held, answered>>
    BY <1>8 DEF Supervisor, Start, NegotiateFails, Negotiated, SupervisorTakes,
       SupervisorJoins, AppClose, AppReceive, CallerStep, Begin, Cancel, Refused, EnterSend,
       SendEnqueues, SendPanics, SendStopped, SendCancelled, SendGivesUp, WaitResult, WaitCancelled
  <2>2. ~ReactorAnswer
    BY <1>0, <2>1 DEF ReactorAnswer
  <2> QED
    BY <1>1, <2>1, <2>2
<1>9. CASE ReactorAnswer \/ ReactorUnexpected \/ ReactorHandles \/ ReactorHeartbeat
  <2>1. incoming # <<>> /\ incoming' = Tail(incoming) /\ held' = held /\ answered' = answered
    BY <1>9 DEF ReactorAnswer, ReactorUnexpected, ReactorHandles, ReactorHeartbeat
  <2> QED
    BY <1>3, <2>1
<1>10. CASE \/ ReactorCall \/ ReactorEmits \/ ReactorStops \/ ReactorReadTimeout
            \/ (\E S \in SUBSET pending : CleanupTick(S))
            \/ (\E p \in due : CleanupCall(p)) \/ ReactorShutdown
  <2>1. UNCHANGED <<incoming, held, answered>>
    BY <1>10 DEF ReactorCall, ReactorEmits, ReactorStops, ReactorReadTimeout, CleanupTick,
       CleanupCall, ReactorShutdown, ShutdownStores, ShutdownCloses, ShutdownWaits,
       ShutdownDrains, ShutdownStops, ReactorExits, ShutdownReports
  <2>2. ~ReactorAnswer
    BY <1>0, <2>1 DEF ReactorAnswer
  <2> QED
    BY <1>1, <2>1, <2>2
<1> QED
  BY <1>6, <1>7, <1>8, <1>9, <1>10
     DEF Next, Application, ReactorLoop, Terminated

\* While the reactor serves, it knows the calls whose envelopes it has sent and those
\* that the answers on their way are for.
LEMMA KnownNext ==
    ASSUME IInv, NamedInv, NamedInv', IDInv, KnownInv, [Next]_vars
    PROVE  KnownInv'
<1> SUFFICES ASSUME rpc' \in Looping
             PROVE  /\ \A e \in Outbound' : e.replyTo = NoMsg /\ e.id # NoMsg => Known(e.id)'
                    /\ \A i \in DOMAIN Inbound' :
                         Inbound'[i].replyTo # NoMsg => Known(Inbound[i].replyTo)'
  BY DEF KnownInv
<1>1. rpc \in Looping
  BY DEF vars, connVars, reactorVars, ioVars, supVars, Next, Supervisor, Start,
     NegotiateFails, Negotiated, SupervisorTakes, SupervisorJoins, Application,
     AppClose, AppReceive, Cancel, Begin, CallerStep, Refused, EnterSend,
     SendEnqueues, SendPanics, SendStopped, SendCancelled, SendGivesUp, WaitResult,
     WaitCancelled, Remote, ReadRequest, ReadHeartbeat, ReadAnswer, ReaderReads,
     IOStep, IOFails, IOStops, IORecovers, IOExits, IOReturns, ReaderPuts,
     WriterTakes, WriterWrites, ReactorLoop, ReactorAnswer, ReactorUnexpected,
     ReactorHandles, ReactorHeartbeat, ReactorCall, ReactorEmits, ReactorStops,
     CleanupTick, CleanupCall, ReactorReadTimeout, ReactorShutdown, ShutdownStores,
     ShutdownCloses, ShutdownWaits, ShutdownDrains, ShutdownStops, ReactorExits,
     ShutdownReports, Terminated, Looping
<1>2. ASSUME NEW e \in Outbound', e.replyTo = NoMsg, e.id # NoMsg
      PROVE  Known(e.id)'
  <2>1. CASE e \in Outbound
    <3>1. PICK a : a = e.id
      OBVIOUS
    <3>2. Known(a)
      BY <1>1, <1>2, <2>1, <3>1 DEF KnownInv
    <3>3. Known(a)'
      BY <3>2, KnownStays
    <3> QED
      BY <3>1, <3>3 DEF Known
  <2>2. CASE ReactorCall /\ e = EnvOf(Head(calls)) /\ rpc' # "sdState"
    <3> DEFINE q == Head(calls)
    <3>1. q \in Reach
      BY <2>2, QueuedHead DEF ReactorCall, IInv, TypeOK, QueueType, Reach
    <3>2. q \in Named /\ q \in Named' /\ mid'[q] = mid[q] /\ q \in Callers
      BY <3>1, NamedStable DEF NamedInv, Named
    <3>3. to[q] = NoMsg /\ mid[q] = e.id
      BY <1>2, <2>2 DEF EnvOf
    <3>4. q \notin Repliers
      BY <3>2, <3>3 DEF NamedInv
    <3>5. q \notin FailedReplies
      BY <3>4, Constants
    <3>6. CASE q \in Unmapped
      <4>1. Deliver(q, Failure("protocol"))
        BY <2>2, <3>5, <3>6 DEF ReactorCall, DeliverOrFail, ReactorReturns
      <4>2. given[q] = <<>>
        BY <3>1 DEF IInv, CoreInv, ReachInv
      <4>3. given'[q] = <<Failure("protocol")>>
        BY <3>2, <4>1, <4>2 DEF Deliver, IInv, TypeOK, CallerType
      <4> QED
        BY <3>2, <3>3, <3>4, <4>3 DEF Known
    <3>7. CASE q \notin Unmapped
      <4>1. pending' = Registered(q)
        BY <2>2, <3>5, <3>7 DEF ReactorCall
      <4>2. q \in pending'
        BY <3>3, <4>1 DEF Registered, AddCall
      <4> QED
        BY <3>2, <3>3, <4>2 DEF Known
    <3> QED
      BY <3>6, <3>7
  <2> QED
    BY <1>2, <2>1, <2>2, OutboundFlow DEF NoEnv
<1>3. ASSUME NEW i \in DOMAIN Inbound', Inbound'[i].replyTo # NoMsg
      PROVE  Known(Inbound[i].replyTo)'
  <2>1. PICK a : a = Inbound'[i].replyTo
    OBVIOUS
  <2>2. PICK d \in {0, 1} : \/ i + d \in DOMAIN Inbound /\ Inbound'[i] = Inbound[i + d]
                            \/ Answers(a)
    BY <1>3, <2>1, InboundFlow
  <2>3. ASSUME i + d \in DOMAIN Inbound, Inbound'[i] = Inbound[i + d] PROVE Known(a)
    BY <1>1, <1>3, <2>1, <2>3 DEF KnownInv
  <2>4. ASSUME Answers(a) PROVE Known(a)
    BY <1>1, <1>3, <2>1, <2>4 DEF KnownInv, Answers, Outbound
  <2>5. Known(a)
    BY <2>2, <2>3, <2>4
  <2>6. Known(a)'
    BY <2>5, KnownStays
  <2> QED
    BY <2>1, <2>6 DEF Known
<1> QED
  BY <1>2, <1>3

\* The invariant of the answers is preserved: an answer that is taken was the
\* only one to its call.
LEMMA AnswerNext ==
    ASSUME IInv, IInv', NamedInv, NamedInv', IDInv, AnswerInv, [Next]_vars
    PROVE  AnswerInv'
<1> SUFFICES ASSUME ~PeerRepeats
             PROVE  /\ \A i \in DOMAIN Inbound' : Inbound'[i].replyTo \in answered' \cup {NoMsg}
                    /\ \A i, j \in DOMAIN Inbound' :
                         Inbound'[i].replyTo = Inbound'[j].replyTo /\ i # j
                         => Inbound'[i].replyTo = NoMsg
                    /\ \A p \in Callers \ Repliers :
                         given'[p] # <<>> /\ given'[p][1].err = Nil =>
                           /\ mid'[p] \in answered'
                           /\ \A i \in DOMAIN Inbound' : Inbound'[i].replyTo # mid'[p]
  BY DEF AnswerInv
<1>1. /\ \A i \in DOMAIN Inbound : Inbound[i].replyTo \in answered \cup {NoMsg}
      /\ \A i, j \in DOMAIN Inbound :
           Inbound[i].replyTo = Inbound[j].replyTo /\ i # j => Inbound[i].replyTo = NoMsg
      /\ \A p \in Callers \ Repliers :
           given[p] # <<>> /\ given[p][1].err = Nil =>
             /\ mid[p] \in answered
             /\ \A i \in DOMAIN Inbound : Inbound[i].replyTo # mid[p]
  BY DEF AnswerInv
<1>2. answered \subseteq answered'
  BY InboundFlow
<1>3. PICK d \in {0, 1} :
        /\ ReactorAnswer => d = 1 /\ 1 \in DOMAIN Inbound /\ Inbound[1] = Head(incoming)
        /\ \A i \in DOMAIN Inbound' :
             \/ Inbound'[i].replyTo = NoMsg
             \/ i + d \in DOMAIN Inbound /\ Inbound'[i] = Inbound[i + d]
             \/ i = Len(Inbound') /\ Answers(Inbound'[i].replyTo)
  BY InboundFlow
<1>4. DOMAIN Inbound' \subseteq Nat \ {0}
  BY DEF Inbound, IInv, TypeOK, QueueType, IOType, IOThreads
<1>5. \A i \in DOMAIN Inbound' : Inbound'[i].replyTo \in answered' \cup {NoMsg}
  BY <1>1, <1>2, <1>3 DEF Answers
<1>6. ASSUME NEW i \in DOMAIN Inbound', NEW j \in DOMAIN Inbound',
             Inbound'[i].replyTo = Inbound'[j].replyTo, i # j, Inbound'[i].replyTo # NoMsg
      PROVE  FALSE
  <2>1. \A k \in {i, j} :
             \/ k + d \in DOMAIN Inbound /\ Inbound'[k] = Inbound[k + d]
             \/ k = Len(Inbound') /\ Answers(Inbound'[k].replyTo)
    BY <1>3, <1>6
  <2>2. CASE /\ i + d \in DOMAIN Inbound /\ Inbound'[i] = Inbound[i + d]
             /\ j + d \in DOMAIN Inbound /\ Inbound'[j] = Inbound[j + d]
    <3>1. i + d # j + d
      BY <1>4, <1>6
    <3> QED
      BY <1>1, <1>6, <2>2, <3>1
  <2>3. ASSUME NEW k \in {i, j}, NEW l \in {i, j}, Answers(Inbound'[k].replyTo),
               l + d \in DOMAIN Inbound, Inbound'[l] = Inbound[l + d]
        PROVE  FALSE
    BY <1>1, <1>6, <2>3 DEF Answers
  <2> QED
    BY <1>6, <2>1, <2>2, <2>3
<1>7. ASSUME NEW p \in Callers \ Repliers, given'[p] # <<>>, given'[p][1].err = Nil
      PROVE  /\ mid'[p] \in answered'
             /\ \A i \in DOMAIN Inbound' : Inbound'[i].replyTo # mid'[p]
  <2>1. CASE given'[p] = given[p]
    <3>1. p \in Named /\ mid[p] # NoMsg /\ mid'[p] = mid[p]
      BY <1>7, <2>1, NamedStable DEF NamedInv, IDInv
    <3>2. /\ mid[p] \in answered
          /\ \A i \in DOMAIN Inbound : Inbound[i].replyTo # mid[p]
      BY <1>1, <1>7, <2>1
    <3>3. ASSUME NEW i \in DOMAIN Inbound', Inbound'[i].replyTo = mid[p] PROVE FALSE
      <4>1. \/ i + d \in DOMAIN Inbound /\ Inbound'[i] = Inbound[i + d]
            \/ Answers(mid[p])
        BY <1>3, <3>1, <3>3
      <4> QED
        BY <3>2, <3>3, <4>1 DEF Answers
    <3> QED
      BY <1>2, <3>1, <3>2, <3>3
  <2>2. CASE given'[p] # given[p]
    <3>1. Reacts
      <4>1. Quiet => given' = given
        BY QuietFrame
      <4>2. ASSUME NEW q \in Callers,
                   Moves(q) \/ EnterSend(q) \/ SendEnqueues(q) \/ WaitResult(q)
            PROVE  given' = given
        BY <4>2, CallerFrame
      <4> QED
        BY <2>2, <4>1, <4>2, StepKinds
    <3>2. p \in Callers /\ p \in Reach /\ p \in Named /\ mid'[p] = mid[p]
      BY <2>2, <3>1, GivesWhat, NamedStable DEF NamedInv
    <3>3. to[p] = NoMsg
      BY <3>2 DEF NamedInv
    <3>4. PICK r \in Results :
                /\ given'[p] = <<r>>
                /\ \/ r.err # Nil
                   \/ r = Failure(Nil) /\ to[p] # NoMsg /\ emit' = EnvOf(p)
                   \/ /\ ReactorAnswer /\ p \in pending
                      /\ mid[p] = Head(incoming).replyTo /\ mid[p] # NoMsg
                      /\ r = Answer(mid[p])
      BY <2>2, <3>1, <3>2, GivesWhat
    <3>5. given'[p][1] = r
      BY <3>4
    <3>6. ReactorAnswer /\ mid[p] = Head(incoming).replyTo /\ mid[p] # NoMsg
      BY <1>7, <3>3, <3>4, <3>5
    <3>7. d = 1 /\ 1 \in DOMAIN Inbound /\ Inbound[1].replyTo = mid[p]
      BY <1>3, <3>6
    <3>8. mid[p] \in answered
      BY <1>1, <3>6, <3>7
    <3>9. ASSUME NEW i \in DOMAIN Inbound', Inbound'[i].replyTo = mid[p] PROVE FALSE
      <4>1. \/ i + 1 \in DOMAIN Inbound /\ Inbound'[i] = Inbound[i + 1]
            \/ Answers(mid[p])
        BY <1>3, <3>6, <3>7, <3>9
      <4>2. CASE i + 1 \in DOMAIN Inbound /\ Inbound'[i] = Inbound[i + 1]
        <5>1. i + 1 # 1
          BY <1>4
        <5> QED
          BY <1>1, <3>6, <3>7, <3>9, <4>2, <5>1
      <4>3. CASE Answers(mid[p])
        BY <3>8, <4>3 DEF Answers
      <4> QED
        BY <4>1, <4>2, <4>3
    <3> QED
      BY <1>2, <3>2, <3>8, <3>9
  <2> QED
    BY <2>1, <2>2
<1> QED
  BY <1>5, <1>6, <1>7

----------------------------------------------------------------------------
(* The second half of the invariant, and what it implies *)

\* The second half holds at first: no call has been made.
LEMMA CallInit == Init => CallInv
<1> SUFFICES ASSUME Init PROVE CallInv
  OBVIOUS
<1> USE Constants DEF Init, NoMsg, NoEnv
<1>1. Named = {} /\ Reach = {}
  BY DEF Named, Reach, Queued
<1>2. NamedInv
  BY <1>1 DEF NamedInv
<1>3. HaltInv
  BY DEF HaltInv, Closed, IOThreads
<1>4. EndInv
  BY DEF EndInv, Stated, Looping, IOThreads
<1>5. IDInv
  BY <1>1, IDAssumption DEF IDInv, IOThreads
<1>6. ToldIsSent
  BY DEF ToldIsSent, Callers, SyncCallers
<1>7. KnownInv /\ AnswerInv
  <2>1. Outbound = {NoEnv} /\ Inbound = <<NoEnv>>
    BY DEF Outbound, Inbound, IOThreads
  <2>2. \A p \in Callers : given[p] = <<>>
    OBVIOUS
  <2> QED
    BY <2>1, <2>2 DEF KnownInv, AnswerInv
<1> QED
  BY <1>2, <1>3, <1>4, <1>5, <1>6, <1>7 DEF CallInv

\* The inductive invariant about the calls holds, for every value of the constants.
THEOREM CallInvariance == Spec => [](IInv /\ CallInv)
<1>1. Init => CallInv
  BY CallInit
<1>2. IInv /\ IInv' /\ CallInv /\ [Next]_vars => CallInv'
  BY NamedNext, HaltNext, EndNext, IDNext, ToldNext, KnownNext, AnswerNext DEF CallInv
<1> QED
  BY <1>1, <1>2, Invariance, PTL DEF Spec

\* nextID never yields 0, whatever the width of the counter: no envelope has the ID
\* that stands for "no message".
THEOREM NeverIDZeroAlways == Spec => []NeverIDZero
<1>1. CallInv => NeverIDZero
  BY DEF CallInv, IDInv, NeverIDZero, Named
<1> QED
  BY <1>1, CallInvariance, PTL

\* A Reply that was told of its success has its envelope on the way to the remote, if
\* the connection goes on.
THEOREM ToldIsSentAlways == Spec => []ToldIsSent
<1>1. CallInv => ToldIsSent
  BY DEF CallInv
<1> QED
  BY <1>1, CallInvariance, PTL

\* An application that does not close the connection hears why it ended; only an
\* error of the reactor may be lost.
THEOREM EndTellsWhyAlways == Spec => []EndTellsWhy
<1>1. CallInv => EndTellsWhy
  BY DEF CallInv, EndInv, EndTellsWhy, Stated
<1> QED
  BY <1>1, CallInvariance, PTL

\* The connection is terminated for an unexpected answer only if the call that it
\* answers was resolved before.
THEOREM AnswerRefusedOnlyIfResolvedAlways == Spec => AnswerRefusedOnlyIfResolved
<1> DEFINE Refuses == rerr # "unexpectedReply" /\ rerr' = "unexpectedReply"
    Resolved == \E p \in Callers : /\ mid[p] = Head(incoming).replyTo
                                   /\ given[p] # <<>>
                                   /\ PeerRepeats \/ given[p][1].err # Nil
<1>1. ASSUME IInv, Next, Refuses PROVE ReactorUnexpected
  <2> USE DEF connVars, reactorVars, ioVars, supVars, callerVars, resultVars,
              peerVars, appVars, queueVars, envelopeIn
  <2>1. ~(\/ Supervisor \/ Application \/ Remote \/ Terminated
          \/ \E p \in Callers : CallerStep(p)
          \/ \E t \in IOThreads : IOStep(t) \/ IOFails(t))
    <3>1. Supervisor \/ Application \/ Terminated => rerr' = rerr
      BY DEF Supervisor, Start, NegotiateFails, Negotiated, SupervisorTakes,
             SupervisorJoins, Application, AppClose, AppReceive, Cancel, Begin,
             Terminated, vars
    <3>2. (\E p \in Callers : CallerStep(p)) => rerr' = rerr
      BY DEF CallerStep, Refused, EnterSend, SendEnqueues, SendPanics,
             SendStopped, SendCancelled, SendGivesUp, WaitResult, WaitCancelled
    <3>3. Remote \/ (\E t \in IOThreads : IOStep(t) \/ IOFails(t)) => rerr' = rerr
      BY DEF Remote, ReadRequest, ReadHeartbeat, ReadAnswer, ReaderReads,
             IOStep, IOStops, IORecovers, IOExits, IOFails, IOReturns,
             ReaderPuts, WriterTakes, WriterWrites
    <3> QED
      BY <1>1, <3>1, <3>2, <3>3
  <2>2. ~(\/ ReactorAnswer \/ ReactorHandles \/ ReactorHeartbeat \/ ReactorCall
          \/ ReactorEmits \/ ReactorStops \/ ReactorReadTimeout
          \/ (\E p \in due : CleanupCall(p))
          \/ (\E S \in SUBSET pending : CleanupTick(S)))
    BY <1>1 DEF ReactorAnswer, ReactorHandles, ReactorHeartbeat, ReactorCall,
       ReactorEmits, ReactorStops, ReactorReadTimeout, CleanupTick, CleanupCall,
       DeliverOrFail, ReactorReturns, Nil
  <2>3. ~ReactorShutdown
    BY <1>1 DEF ReactorShutdown, ShutdownStores, ShutdownCloses, ShutdownWaits,
       ShutdownDrains, ShutdownReports, ShutdownStops, ReactorExits, Nil
  <2> QED
    BY <1>1, <2>1, <2>2, <2>3 DEF Next, ReactorLoop
<1>2. ASSUME IInv, CallInv, ReactorUnexpected PROVE Resolved
  <2> DEFINE m == Head(incoming).replyTo
  <2>1. /\ rpc \in Looping /\ incoming # <<>> /\ m # NoMsg
        /\ \A p \in pending : mid[p] # m
    BY <1>2 DEF ReactorUnexpected, WithID, Looping
  <2>2. 1 \in DOMAIN Inbound /\ Inbound[1] = Head(incoming)
    BY <1>2, <2>1 DEF Inbound, IInv, TypeOK, QueueType, IOType, IOThreads
  <2>3. Known(m)
    BY <1>2, <2>1, <2>2 DEF CallInv, KnownInv
  <2>4. PICK p \in Named : /\ mid[p] = m /\ given[p] # <<>>
                           /\ p \in Repliers => given[p][1].err # Nil
    BY <2>1, <2>3 DEF Known
  <2>5. p \in Callers
    BY DEF Named
  <2>6. ASSUME ~PeerRepeats, given[p][1].err = Nil PROVE FALSE
    BY <1>2, <2>2, <2>4, <2>5, <2>6 DEF CallInv, AnswerInv
  <2> QED
    BY <2>4, <2>5, <2>6
<1>3. (IInv /\ CallInv) /\ [Next]_vars => [Refuses => Resolved]_vars
  BY <1>1, <1>2
<1> QED
  BY <1>3, CallInvariance, PTL DEF Spec, AnswerRefusedOnlyIfResolved

----------------------------------------------------------------------------
(* The IDs of few calls differ *)

\* The messages that the reactor has taken; it takes one when it handles one.
LEMMA TakenGrows ==
    ASSUME IInv, [Next]_vars
    PROVE  Taken' >= Taken /\ (ReactorHandles => Taken' = Taken + 1)
<1> USE DEF connVars, reactorVars, ioVars, supVars, callerVars, resultVars,
            peerVars, appVars, queueVars, envelopeIn, vars
<1>0. /\ incoming \in Seq(Envelopes) /\ Len(incoming) \in Nat /\ peerSent \in Int /\ Taken \in Int
      /\ incoming # <<>> => Len(Tail(incoming)) = Len(incoming) - 1
      /\ \A e \in Envelopes : Len(Append(incoming, e)) = Len(incoming) + 1
  BY DEF IInv, TypeOK, QueueType, EnvironmentType, Taken
<1>1. CASE UNCHANGED <<peerSent, incoming>> /\ io'["reader"] = io["reader"]
  BY <1>0, <1>1 DEF Taken, ReactorHandles
<1>2. CASE Supervisor
  <2>1. UNCHANGED <<peerSent, incoming>> /\ (io' = io \/ io'["reader"] = "run")
    BY <1>2 DEF Supervisor, Start, NegotiateFails, Negotiated, SupervisorTakes,
       SupervisorJoins, IOThreads
  <2>2. incoming' # Tail(incoming) \/ incoming = <<>>
    BY <1>0, <2>1
  <2> QED
    BY <1>0, <2>1, <2>2 DEF Taken, ReactorHandles
<1>3. CASE AppClose \/ AppReceive \/ UNCHANGED vars
           \/ \E p \in Callers : CallerStep(p) \/ Begin(p) \/ Cancel(p)
  <2>1. UNCHANGED <<peerSent, incoming, io>>
    BY <1>3 DEF AppClose, AppReceive, CallerStep, Begin, Cancel, Refused, EnterSend,
       SendEnqueues, SendPanics, SendStopped, SendCancelled, SendGivesUp, WaitResult, WaitCancelled
  <2> QED
    BY <1>1, <2>1
<1>4. CASE Remote
  <2>1. /\ peerSent' = peerSent + 1 /\ incoming' = incoming
        /\ io["reader"] = "run" /\ io'["reader"] = "put"
    BY <1>4 DEF Remote, ReadRequest, ReadHeartbeat, ReadAnswer, ReaderReads, IInv, TypeOK, IOType, IOThreads
  <2>2. ~ReactorHandles
    BY <2>1, <1>0 DEF ReactorHandles
  <2> QED
    BY <1>0, <2>1, <2>2 DEF Taken
<1>5. CASE \E t \in IOThreads : IOStep(t) \/ IOFails(t)
  <2>1. PICK t \in IOThreads : IOStep(t) \/ IOFails(t)
    BY <1>5
  <2>2. CASE ReaderPuts
    <3>1. /\ peerSent' = peerSent /\ incoming' = Append(incoming, held["reader"])
          /\ io["reader"] = "put" /\ io'["reader"] = "run"
      BY <2>2 DEF ReaderPuts, IInv, TypeOK, IOType, IOThreads
    <3>2. Len(incoming') = Len(incoming) + 1
      BY <1>0, <3>1 DEF IInv, TypeOK, IOType, IOThreads
    <3>3. ~ReactorHandles
      BY <1>0, <3>2 DEF ReactorHandles
    <3> QED
      BY <1>0, <3>1, <3>2, <3>3 DEF Taken
  <2>3. CASE ~ReaderPuts
    <3>1. /\ UNCHANGED <<incoming, peerSent>>
          /\ io'["reader"] = io["reader"] \/ io'["reader"] # "put"
      BY <2>1, <2>3 DEF IOStep, IOStops, IORecovers, IOExits, IOFails, IOReturns, WriterTakes,
         WriterWrites, IInv, TypeOK, IOType, IOThreads
    <3>2. ~ReactorHandles
      BY <1>0, <3>1 DEF ReactorHandles
    <3> QED
      BY <1>0, <3>1, <3>2 DEF Taken
  <2> QED
    BY <2>2, <2>3
<1>6. CASE ReactorAnswer \/ ReactorUnexpected \/ ReactorHandles \/ ReactorHeartbeat
  <2>1. incoming # <<>> /\ incoming' = Tail(incoming) /\ io' = io /\ peerSent' = peerSent
    BY <1>6 DEF ReactorAnswer, ReactorUnexpected, ReactorHandles, ReactorHeartbeat
  <2>2. Len(incoming') = Len(incoming) - 1 /\ io'["reader"] = io["reader"]
        /\ peerSent' = peerSent
    BY <1>0, <2>1
  <2>3. Len(incoming) \in Int /\ peerSent \in Int
    BY <1>0
  <2>4. Taken' = Taken + 1
    BY <2>2, <2>3 DEF Taken
  <2> QED
    BY <1>0, <2>4
<1>7. CASE \/ ReactorCall \/ ReactorEmits \/ ReactorStops \/ ReactorReadTimeout
           \/ (\E S \in SUBSET pending : CleanupTick(S))
           \/ (\E p \in due : CleanupCall(p)) \/ ReactorShutdown
  <2>1. UNCHANGED <<peerSent, incoming, io>>
    BY <1>7 DEF ReactorCall, ReactorEmits, ReactorStops, ReactorReadTimeout, CleanupTick,
       CleanupCall, ReactorShutdown, ShutdownStores, ShutdownCloses, ShutdownWaits,
       ShutdownDrains, ShutdownStops, ReactorExits, ShutdownReports
  <2> QED
    BY <1>1, <2>1
<1> QED
  BY <1>2, <1>3, <1>4, <1>5, <1>6, <1>7
     DEF Next, Application, ReactorLoop, Terminated

\* Only EnterSend and the handling of a request take an ID.
LEMMA WhoTakesIDs ==
    ASSUME [Next]_vars
    PROVE  \/ nextMessageID' = nextMessageID
           \/ nextMessageID' = NextID /\ (ReactorHandles \/ \E p \in Callers : EnterSend(p))
<1> USE DEF connVars, reactorVars, ioVars, supVars, callerVars, resultVars,
            peerVars, appVars, queueVars, envelopeIn, vars
<1>1. CASE Supervisor \/ AppClose \/ AppReceive \/ UNCHANGED vars
  BY <1>1 DEF Supervisor, Start, NegotiateFails, Negotiated, SupervisorTakes,
     SupervisorJoins, AppClose, AppReceive
<1>2. CASE \E p \in Callers : CallerStep(p) \/ Begin(p) \/ Cancel(p)
  BY <1>2 DEF CallerStep, Begin, Cancel, Refused, EnterSend, SendEnqueues, SendPanics,
     SendStopped, SendCancelled, SendGivesUp, WaitResult, WaitCancelled
<1>3. CASE Remote \/ \E t \in IOThreads : IOStep(t) \/ IOFails(t)
  BY <1>3 DEF Remote, ReadRequest, ReadHeartbeat, ReadAnswer, ReaderReads, IOStep, IOStops,
     IORecovers, IOExits, IOFails, IOReturns, ReaderPuts, WriterTakes, WriterWrites
<1>4. CASE ReactorHandles
  BY <1>4 DEF ReactorHandles
<1>5. CASE \/ ReactorAnswer \/ ReactorUnexpected \/ ReactorHeartbeat
           \/ ReactorCall \/ ReactorEmits \/ ReactorStops \/ ReactorReadTimeout
           \/ (\E S \in SUBSET pending : CleanupTick(S))
           \/ (\E p \in due : CleanupCall(p)) \/ ReactorShutdown
  BY <1>5 DEF ReactorAnswer, ReactorUnexpected, ReactorHeartbeat, ReactorCall, ReactorEmits,
     ReactorStops, ReactorReadTimeout, CleanupTick,
     CleanupCall, ReactorShutdown, ShutdownStores, ShutdownCloses, ShutdownWaits,
     ShutdownDrains, ShutdownStops, ReactorExits, ShutdownReports
<1> QED
  BY <1>1, <1>2, <1>3, <1>4, <1>5
     DEF Next, Application, ReactorLoop, Terminated

\* One more ID makes the others older by two, if none is a lap behind.
LEMMA AgeGrows ==
    ASSUME TypeOK, NEW i \in 0 .. (IDSpace - 1), nextMessageID' = NextID,
           Age(i) + 2 < IDSpace
    PROVE  Age(i)' = Age(i) + 2 /\ Age(i) \in Nat
<1>1. nextMessageID \in 0 .. (IDSpace - 1) /\ IDSpace \in Nat
  BY Constants DEF TypeOK, ConnType
<1> QED
  BY <1>1 DEF Age, NextID

\* A fact of arithmetic, for the two that the counter steps over for each ID.
LEMMA Doubles ==
    \A m, n \in Nat : n >= m + 1 => 2 * m + 2 <= 2 * n
OBVIOUS

\* Of few calls no two have the same ID: the oldest is less than a lap behind.
LEMMA LapNext ==
    ASSUME FewCalls, IInv, IInv', NamedInv, LapInv, [Next]_vars
    PROVE  LapInv'
<1>0. /\ nextMessageID \in 0 .. (IDSpace - 1) /\ nextMessageID' \in 0 .. (IDSpace - 1)
      /\ \A p \in Named : mid[p] \in 0 .. (IDSpace - 1)
      /\ IDSpace \in Nat
  BY Constants DEF IInv, TypeOK, ConnType, CallerType, Named
<1>1. /\ Named \subseteq Callers /\ Named' \subseteq Callers
      /\ IsFiniteSet(Callers) /\ IsFiniteSet(Named) /\ IsFiniteSet(Named')
  BY FS_Subset DEF Named, FewCalls
<1>2. /\ Cardinality(Callers) \in Nat /\ Cardinality(Named) \in Nat
      /\ Cardinality(Named') \in Nat /\ Cardinality(Named') <= Cardinality(Callers)
  BY <1>1, FS_CardinalityType, FS_Subset
<1>3. /\ Taken \in Nat /\ Taken' \in Nat
      /\ Taken' >= Taken /\ (ReactorHandles => Taken' = Taken + 1)
  <2>1. Taken' \in Int
    BY DEF Taken, IInv, TypeOK, QueueType, EnvironmentType
  <2> QED
    BY <2>1, TakenGrows DEF LapInv
<1>4. Taken' <= MaxPeerMsgs
  BY Constants DEF Taken, IInv, TypeOK, QueueType, EnvironmentType
<1>5. 2 * Issued' <= IDSpace
  BY <1>0, <1>2, <1>3, <1>4, Constants DEF Issued, FewCalls
<1>6. ASSUME NEW p \in Callers, EnterSend(p)
      PROVE  /\ p \notin Named /\ Named' = Named \cup {p}
             /\ Cardinality(Named') = Cardinality(Named) + 1
             /\ mid' = [mid EXCEPT ![p] = NextID] /\ nextMessageID' = NextID
  <2>1. p \notin Named /\ Named' = Named \cup {p}
    BY <1>6, CallerFrame
  <2>2. Cardinality(Named') = Cardinality(Named) + 1
    BY <1>1, <2>1, FS_AddElement
  <2> QED
    BY <1>6, <2>1, <2>2 DEF EnterSend
<1>7. ASSUME \A p \in Callers : ~EnterSend(p)
      PROVE  Named' = Named /\ \A p \in Named : mid'[p] = mid[p]
  <2>1. CASE Quiet \/ Reacts
    BY <2>1, QuietFrame, ReactsFrame DEF Named, callerVars
  <2>2. ASSUME NEW q \in Callers,
               Moves(q) \/ EnterSend(q) \/ SendEnqueues(q) \/ WaitResult(q)
        PROVE  Named' = Named
    BY <1>7, <2>2, CallerFrame
  <2> QED
    BY <2>1, <2>2, StepKinds, NamedStable
<1>8. CASE nextMessageID' = nextMessageID /\ \A p \in Callers : ~EnterSend(p)
  <2>1. Named' = Named /\ \A p \in Named : mid'[p] = mid[p]
    BY <1>7, <1>8
  <2>2. Issued' >= Issued /\ Issued' \in Nat /\ Issued \in Nat
    BY <1>2, <1>3, <2>1 DEF Issued
  <2>3. \A p \in Named : Age(mid[p])' = Age(mid[p]) /\ Age(mid[p]) \in Int
    BY <1>0, <1>8, <2>1 DEF Age
  <2> QED
    BY <1>3, <2>1, <2>2, <2>3 DEF LapInv
<1>9. CASE nextMessageID' = NextID /\ (ReactorHandles \/ \E p \in Callers : EnterSend(p))
  <2>1. Issued' >= Issued + 1 /\ Issued' \in Nat /\ Issued \in Nat
    <3>1. CASE \E p \in Callers : EnterSend(p)
      BY <1>2, <1>3, <1>6, <3>1 DEF Issued
    <3>2. CASE ReactorHandles /\ \A p \in Callers : ~EnterSend(p)
      BY <1>2, <1>3, <1>7, <3>2 DEF Issued
    <3> QED
      BY <1>9, <3>1, <3>2
  <2>2. ASSUME NEW p \in Named
        PROVE  /\ Age(mid[p])' + 2 <= 2 * Issued' /\ Age(mid[p])' # 0
               /\ mid'[p] = mid[p]
    <3>1. PICK i \in 0 .. (IDSpace - 1) : i = mid[p]
      BY <1>0
    <3>2. Age(i) + 2 <= 2 * Issued
      BY <3>1 DEF LapInv
    <3>3. Age(i) \in Int
      BY <1>0 DEF Age
    <3>4. Age(i) + 2 < IDSpace
      <4>1. 2 * Issued + 2 <= 2 * Issued'
        BY <2>1, Doubles
      <4>2. 2 * Issued \in Int /\ 2 * Issued' \in Int /\ IDSpace \in Int
        BY <1>0, <2>1
      <4> QED
        BY <1>5, <3>2, <3>3, <4>1, <4>2
    <3>5. Age(i)' = Age(i) + 2 /\ Age(i) \in Nat
      BY <1>9, <3>4, AgeGrows DEF IInv
    <3>6. mid'[p] = mid[p]
      BY NamedStable
    <3>7. Age(mid[p])' = Age(i)'
      BY <3>1, <3>6 DEF Age
    <3> QED
      BY <2>1, <3>2, <3>5, <3>6, <3>7
  <2>3. CASE \E p \in Callers : EnterSend(p)
    <3>1. PICK p \in Callers : EnterSend(p)
      BY <2>3
    <3>2. p \notin Named /\ Named' = Named \cup {p} /\ mid'[p] = NextID
      BY <1>6, <3>1 DEF IInv, TypeOK, CallerType
    <3>3. Age(mid[p])' = 0
      BY <1>0, <1>9, <3>2 DEF Age
    <3>4. \A q \in Named : mid'[q] # mid'[p]
      BY <2>2, <3>3 DEF Age
    <3> QED
      BY <1>3, <2>1, <2>2, <3>2, <3>3, <3>4 DEF LapInv
  <2>4. CASE \A p \in Callers : ~EnterSend(p)
    BY <1>3, <1>7, <2>2, <2>4 DEF LapInv
  <2> QED
    BY <2>3, <2>4
<1> QED
  BY <1>8, <1>9, <1>6, WhoTakesIDs

----------------------------------------------------------------------------
(* No call is lost *)

\* The quiet steps leave the channels of the pool alone, too.
LEMMA QuietChans ==
    ASSUME IInv, Quiet, NEW c \in PoolChans
    PROVE  buf'[c] = buf[c]
<1> USE DEF connVars, reactorVars, ioVars, supVars, callerVars, resultVars,
            peerVars, appVars, queueVars, envelopeIn, vars
<1>1. CASE AppReceive
  BY <1>1, Constants DEF AppReceive, IInv, TypeOK, CallerType, Chans
<1>2. CASE Supervisor \/ Remote \/ AppClose \/ ReactorReadTimeout
           \/ \E p \in Callers : Cancel(p)
  BY <1>2 DEF Supervisor, Start, NegotiateFails, Negotiated, SupervisorTakes,
     SupervisorJoins, Remote, ReadRequest, ReadHeartbeat, ReadAnswer, ReaderReads,
     AppClose, ReactorReadTimeout, Cancel
<1>3. CASE \E t \in IOThreads : IOStep(t) \/ IOFails(t)
  BY <1>3 DEF IOStep, IOStops, IORecovers, IOExits, IOFails, IOReturns,
              ReaderPuts, WriterTakes, WriterWrites
<1>4. CASE \/ ReactorUnexpected \/ ReactorHeartbeat \/ ReactorEmits \/ ReactorStops
           \/ (\E S \in SUBSET pending : CleanupTick(S))
           \/ ShutdownStores \/ ShutdownCloses \/ ShutdownWaits \/ ShutdownStops
           \/ ReactorExits \/ ReactorHandles
  BY <1>4 DEF ReactorUnexpected, ReactorHeartbeat, ReactorEmits, ReactorStops,
         CleanupTick, ShutdownStores, ShutdownCloses, ShutdownWaits,
         ShutdownStops, ReactorExits, ReactorHandles
<1> QED
  BY <1>1, <1>2, <1>3, <1>4 DEF Quiet

\* A step of the reactor resolves one call at most, or drops it because its receiver
\* has no room or it is a Reply with an error; every other call stays in reach, since
\* no other has its ID.
LEMMA ReactsOnOne ==
    ASSUME IInv, NamedInv, LapInv, Reacts
    PROVE  \/ UNCHANGED given /\ Reach' = Reach
           \/ \E p \in Reach, r \in Results :
                HasRoom(p) /\ Deliver(p, r) /\ Reach' = Reach \ {p}
           \/ \E p \in Reach : /\ ~HasRoom(p) \/ p \in FailedReplies
                             /\ UNCHANGED given /\ Reach' = Reach \ {p}
<1> USE DEF connVars, ioVars, supVars, callerVars, peerVars, appVars, queueVars, envelopeIn
<1> DEFINE Gives == \E p \in Reach, r \in Results :
                       HasRoom(p) /\ Deliver(p, r) /\ Reach' = Reach \ {p}
           Drops == \E p \in Reach : /\ ~HasRoom(p) \/ p \in FailedReplies
                                    /\ UNCHANGED given /\ Reach' = Reach \ {p}
<1>1. ASSUME NEW p \in Reach, NEW q \in Reach, mid[q] = mid[p] PROVE q = p
  BY <1>1, ReachFacts DEF NamedInv, LapInv, Named, IInv
<1>2. ASSUME NEW p \in Reach, NEW r \in Results, NEW next, DeliverOrFail(p, r, next),
             Reach' = Reach \ {p}
      PROVE  Gives \/ Drops
  BY <1>2 DEF DeliverOrFail, resultVars
<1>3. ASSUME NEW p \in pending, pending' = pending \ {p}, calls' = calls
      PROVE  p \in Reach /\ Reach' = Reach \ {p}
  BY <1>3 DEF Reach, Queued, IInv, QueueInv
<1>4. CASE ReactorAnswer
  <2> DEFINE m == Head(incoming).replyTo
  <2>1. PICK p \in pending : /\ mid[p] = m /\ pending' = pending \ {p}
                            /\ DeliverOrFail(p, Answer(m), "select")
    BY <1>4 DEF ReactorAnswer, WithID
  <2>2. Answer(m) \in Results
    BY <2>1, ResultTypes, Constants DEF IInv, TypeOK, CallerType, ReactorType
  <2>3. p \in Reach /\ Reach' = Reach \ {p}
    BY <1>3, <1>4, <2>1 DEF ReactorAnswer
  <2> QED
    BY <1>2, <2>1, <2>2, <2>3
<1>5. CASE \E p \in due : CleanupCall(p)
  <2>1. PICK p \in due : CleanupCall(p)
    BY <1>5
  <2>2. p \in Reach /\ Reach' = Reach \ {p}
    BY <1>3, <2>1 DEF CleanupCall, IInv, TypeOK, ReactorType
  <2>3. Failure("responseTimeout") \in Results
    BY ResultTypes DEF Errors
  <2> QED
    BY <1>2, <2>1, <2>2, <2>3 DEF CleanupCall
<1>6. CASE \E p \in pending : ShutdownReports(p)
  <2>1. PICK p \in pending : ShutdownReports(p)
    BY <1>6
  <2>2. p \in Reach /\ Reach' = Reach \ {p}
    BY <1>3, <2>1 DEF ShutdownReports
  <2>3. Failure(IF rerr = Nil THEN "connShutdown" ELSE rerr) \in Results
    BY ResultTypes DEF Errors, IInv, TypeOK, ReactorType
  <2> QED
    BY <2>1, <2>2, <2>3 DEF ShutdownReports, resultVars
<1>7. CASE ReactorCall
  <2> DEFINE p == Head(calls)
  <2>1. p \in Queued /\ Queued' = Queued \ {p}
    BY <1>7, QueuedTail DEF ReactorCall, IInv, TypeOK, QueueType
  <2>2. p \in Reach /\ p \notin pending /\ p \in Callers
    BY <2>1, ReachFacts DEF Reach, IInv, QueueInv
  <2>3. WithID(pending, mid[p]) = {}
    BY <1>1, <2>2 DEF WithID, Reach
  <2>4. /\ to[p] = NoMsg => Registered(p) = pending \cup {p}
        /\ to[p] # NoMsg => Registered(p) = pending
        /\ Registered(p) \ WithID(Registered(p), mid[p]) = pending
    <3>1. AddCall(pending, p) = pending \cup {p}
      BY <2>3 DEF AddCall
    <3>2. \A q \in pending : mid[q] # mid[p]
      BY <2>3 DEF WithID
    <3> QED
      BY <2>2, <3>1, <3>2 DEF Registered, WithID
  <2>5. pending' = pending => Reach' = Reach \ {p}
    BY <2>1, <2>2 DEF Reach
  <2>6. CASE p \in FailedReplies
    <3>1. to[p] # NoMsg /\ UNCHANGED resultVars /\ pending' = Registered(p)
      BY <1>7, <2>2, <2>6, Constants DEF ReactorCall, NamedInv
    <3> QED
      BY <2>2, <2>4, <2>5, <2>6, <3>1 DEF resultVars
  <2>7. CASE p \in Unmapped \ FailedReplies
    <3>1. pending' = pending /\ DeliverOrFail(p, Failure("protocol"), "emit")
      BY <1>7, <2>4, <2>7 DEF ReactorCall
    <3>2. Failure("protocol") \in Results
      BY ResultTypes DEF Errors
    <3> QED
      BY <1>2, <2>2, <2>5, <3>1, <3>2
  <2>8. CASE p \notin Unmapped \cup FailedReplies
    <3>1. pending' = Registered(p)
      BY <1>7, <2>8 DEF ReactorCall
    <3>2. CASE to[p] # NoMsg
      <4>1. DeliverOrFail(p, Failure(Nil), "emit")
        BY <1>7, <2>8, <3>2 DEF ReactorCall
      <4>2. Failure(Nil) \in Results
        BY ResultTypes DEF Errors
      <4> QED
        BY <1>2, <2>2, <2>4, <2>5, <3>1, <3>2, <4>1, <4>2
    <3>3. CASE to[p] = NoMsg
      <4>1. UNCHANGED resultVars
        BY <1>7, <2>8, <3>3 DEF ReactorCall
      <4>2. Reach' = Reach
        BY <2>1, <2>4, <3>1, <3>3 DEF Reach
      <4> QED
        BY <4>1, <4>2 DEF resultVars
    <3> QED
      BY <3>2, <3>3
  <2> QED
    BY <2>6, <2>7, <2>8
<1>8. CASE ShutdownDrains
  <2>1. \A p \in pending : WithID(Queued, mid[p]) = {}
    BY <1>1 DEF WithID, Reach, IInv, QueueInv
  <2>2. Drained = Reach
    BY <2>1 DEF Drained, Reach
  <2>3. pending' = Drained /\ calls' = <<>> /\ UNCHANGED resultVars
    BY <1>8 DEF ShutdownDrains
  <2>4. Queued' = {}
    BY <2>3 DEF Queued
  <2> QED
    BY <2>2, <2>3, <2>4 DEF Reach, resultVars
<1> QED
  BY <1>4, <1>5, <1>6, <1>7, <1>8 DEF Reacts

\* The reactor does not forget a call of Request or Reply: its channel has room
\* for the result.
LEMMA ReachResolved ==
    ASSUME IInv, NamedInv, LapInv, Reacts, NEW p \in Reach,
           p \in SyncCallers \ FailedReplies
    PROVE  p \in Reach' \/ given'[p] # <<>>
<1>1. p \in Callers /\ HasRoom(p) /\ given[p] = <<>>
  BY ReachFacts DEF IInv, CoreInv, ReachInv
<1>2. ASSUME NEW r, Deliver(p, r) PROVE given'[p] # <<>>
  <2>1. given'[p] = <<r>>
    BY <1>1, <1>2 DEF Deliver, IInv, TypeOK, CallerType
  <2> QED
    BY <2>1
<1> QED
  BY <1>1, <1>2, ReactsOnOne

\* What a waiting caller was given is in its channel.
LEMMA WaitingHas ==
    ASSUME IInv, NamedInv, WaitInv, [Next]_vars,
           NEW p \in SyncCallers, pc'[p] = "waiting"
    PROVE  buf'[rs'[p]] = given'[p]
<1>1. /\ p \in Callers /\ p \notin Senders
      /\ pc[p] \in {"sending", "waiting"} => rs[p] \in PoolChans /\ p \in Owners
      /\ pc[p] = "waiting" => buf[rs[p]] = given[p]
  BY Constants DEF Callers, IInv, TypeOK, CallerType, WaitInv, Owners
<1>2. CASE Quiet
  <2>1. UNCHANGED callerVars /\ given' = given
    BY <1>2, QuietFrame
  <2> QED
    BY <1>1, <1>2, <2>1, QuietChans DEF callerVars
<1>3. CASE Reacts
  <2>1. UNCHANGED callerVars
    BY <1>3, ReactsFrame
  <2>2. CASE UNCHANGED resultVars
    BY <1>1, <2>1, <2>2 DEF callerVars, resultVars
  <2>3. CASE \E q \in Reach, r \in Results : HasRoom(q) /\ Deliver(q, r)
    <3>1. PICK q \in Reach, r \in Results : Deliver(q, r)
      BY <2>3
    <3>2. q \in Callers /\ (q \in SyncCallers => q \in Owners) /\ (q \in Senders => rs[q] = AppChan)
      BY ReachFacts DEF IInv
    <3>3. q # p => rs[q] # rs[p]
      BY <1>1, <2>1, <3>2, Constants DEF callerVars, Callers, IInv, CoreInv, OwnerInv
    <3>4. /\ buf'[rs[p]] = IF q = p THEN Append(buf[rs[p]], r) ELSE buf[rs[p]]
          /\ given'[p] = IF q = p THEN Append(given[p], r) ELSE given[p]
      BY <1>1, <2>1, <3>1, <3>2, <3>3 DEF Deliver, callerVars, IInv, TypeOK, CallerType, Chans
    <3> QED
      BY <1>1, <2>1, <3>4 DEF callerVars
  <2> QED
    BY <1>3, <2>2, <2>3, ReactsFrame
<1>4. ASSUME NEW q \in Callers,
             Moves(q) \/ EnterSend(q) \/ SendEnqueues(q) \/ WaitResult(q)
      PROVE  buf'[rs'[p]] = given'[p]
  <2>1. /\ given' = given
        /\ q # p => pc'[p] = pc[p] /\ rs'[p] = rs[p]
        /\ p \in Named => rs'[p] = rs[p]
    BY <1>1, <1>4, CallerFrame
  <2>2. CASE WaitResult(q)
    <3>1. /\ pc'[q] = "returned" /\ pc[q] = "waiting"
          /\ buf' = [buf EXCEPT ![rs[q]] = Tail(@)]
      BY <2>2 DEF WaitResult, IInv, TypeOK, CallerType
    <3>2. q # p
      BY <3>1
    <3>3. q \in Owners
      BY <3>1 DEF IInv, TypeOK, CallerType, Owners, Callers
    <3>4. rs[q] # rs[p]
      BY <1>1, <2>1, <3>2, <3>3 DEF IInv, CoreInv, OwnerInv
    <3>5. buf'[rs[p]] = buf[rs[p]]
      BY <1>1, <2>1, <3>1, <3>2, <3>4 DEF IInv, TypeOK, CallerType, Chans
    <3> QED
      BY <1>1, <2>1, <3>2, <3>5
  <2>3. CASE ~WaitResult(q)
    <3>1. buf' = buf
      BY <1>4, <2>3 DEF Moves, Begin, Refused, SendPanics, WaitCancelled, SendStopped,
         SendCancelled, SendGivesUp, SendEnqueues, EnterSend, resultVars
    <3>2. CASE SendEnqueues(q) /\ q = p
      <4>1. pc[p] = "sending"
        BY <3>2 DEF SendEnqueues
      <4>2. p \in Named /\ given[p] = <<>> /\ buf[rs[p]] = <<>>
        BY <1>1, <4>1 DEF NamedInv, IInv, CoreInv, ChanInv, GivenInv
      <4> QED
        BY <2>1, <3>1, <4>2
    <3>3. CASE ~SendEnqueues(q) /\ q = p
      BY <1>4, <2>3, <3>3 DEF Moves, Begin, Refused, SendPanics, WaitCancelled, SendStopped,
         SendCancelled, SendGivesUp, EnterSend, IInv, TypeOK, CallerType
    <3>4. CASE q # p
      BY <1>1, <2>1, <3>1, <3>4
    <3> QED
      BY <3>2, <3>3, <3>4
  <2> QED
    BY <2>2, <2>3
<1> QED
  BY <1>2, <1>3, <1>4, StepKinds

\* No step takes a waiting call out of the reactor's reach without a result.
LEMMA WaitNext ==
    ASSUME IInv, NamedInv, LapInv, WaitInv, [Next]_vars
    PROVE  WaitInv'
<1> SUFFICES ASSUME NEW p \in SyncCallers \ FailedReplies,
                    pc'[p] \in {"waiting", "abandoned"}
             PROVE  p \in Reach' \/ given'[p] # <<>>
  BY WaitingHas DEF WaitInv
<1>1. p \in Callers /\ p \notin Senders
  BY Constants DEF Callers
<1>2. pc[p] \in {"waiting", "abandoned"} =>
         p \in Reach \/ (given[p] # <<>> /\ p \in Named)
  BY <1>1 DEF WaitInv, NamedInv
<1>3. given[p] # <<>> /\ p \in Named => given'[p] # <<>>
  BY NamedStable
<1>4. CASE Quiet
  <2>1. UNCHANGED callerVars /\ Reach' = Reach
    BY <1>4, QuietFrame DEF Reach, Queued
  <2> QED
    BY <1>2, <1>3, <2>1 DEF callerVars
<1>5. CASE Reacts
  <2>1. UNCHANGED callerVars
    BY <1>5, ReactsFrame
  <2> QED
    BY <1>2, <1>3, <1>5, <2>1, ReachResolved DEF callerVars
<1>6. ASSUME NEW q \in Callers,
             Moves(q) \/ EnterSend(q) \/ SendEnqueues(q) \/ WaitResult(q)
      PROVE  p \in Reach' \/ given'[p] # <<>>
  <2>1. Reach \subseteq Reach' /\ (SendEnqueues(q) => q \in Reach')
    BY <1>6, CallerReach
  <2>2. pc[p] \in {"waiting", "abandoned"} \/ (SendEnqueues(q) /\ q = p)
    BY <1>1, <1>6 DEF Moves, Begin, Refused, SendPanics, WaitCancelled, SendStopped,
         SendCancelled, SendGivesUp, EnterSend, SendEnqueues, WaitResult, IInv, TypeOK, CallerType
  <2> QED
    BY <1>2, <1>3, <2>1, <2>2
<1> QED
  BY <1>4, <1>5, <1>6, StepKinds

\* With few calls the whole of the invariant is preserved.
THEOREM WholeInvariance ==
    ASSUME FewCalls
    PROVE  Spec => []WholeInv
<1>1. Init => LapInv /\ WaitInv
  <2> SUFFICES ASSUME Init PROVE LapInv /\ WaitInv
    OBVIOUS
  <2>1. Named = {}
    BY DEF Init, Named
  <2>3. Taken = 0
    <3>1. peerSent = 0 /\ incoming = <<>> /\ io["reader"] = "off"
      BY DEF Init, IOThreads
    <3>2. Len(incoming) = 0 /\ io["reader"] # "put"
      BY <3>1
    <3>3. Taken = 0 - 0 - 0
      BY <3>1, <3>2 DEF Taken
    <3> QED
      BY <3>3
  <2>2. \A p \in SyncCallers : pc[p] = "idle"
    BY DEF Init, Callers
  <2> QED
    BY <2>1, <2>2, <2>3 DEF LapInv, WaitInv
<1>2. /\ IInv /\ CallInv /\ LapInv /\ WaitInv /\ IInv' /\ CallInv' /\ [Next]_vars
      => LapInv' /\ WaitInv'
  BY LapNext, WaitNext DEF CallInv
<1>3. IInv /\ CallInv /\ LapInv /\ WaitInv => WholeInv
  BY DEF WholeInv
<1> QED
  BY <1>1, <1>2, <1>3, CallInvariance, PTL DEF Spec

\* A call that waits is queued, or awaits its answer, or has its result: neither the
\* reuse of an ID nor the shutdown loses it.
THEOREM NoCallLostAlways ==
    ASSUME FewCalls
    PROVE  Spec => []NoCallLost
<1>1. WholeInv => NoCallLost
  BY DEF WholeInv, WaitInv, NoCallLost
<1> QED
  BY <1>1, WholeInvariance, PTL

\* Once stopped is closed the connection refuses calls, its Communicator is closed and
\* every caller that waits has a result to wake up for.
THEOREM StoppedMeansHaltedAlways ==
    ASSUME FewCalls
    PROVE  Spec => []StoppedMeansHalted
<1>1. WholeInv => StoppedMeansHalted
  <2> SUFFICES ASSUME WholeInv, stopped PROVE StoppedMeansHalted
    BY DEF StoppedMeansHalted
  <2>1. rpc \in {"exit", "done"}
    BY DEF WholeInv, CallInv, HaltInv
  <2>2. /\ state = "complete" /\ stopClosed /\ commClosed /\ callsClosed
        /\ calls = <<>> /\ pending = {}
    BY <2>1 DEF WholeInv, CallInv, HaltInv, Closed
  <2>3. Reach = {}
    BY <2>2 DEF Reach, Queued
  <2>4. \A p \in SyncCallers \ FailedReplies : pc[p] = "waiting" => buf[rs[p]] # <<>>
    BY <2>3 DEF WholeInv, WaitInv
  <2> QED
    BY <2>2, <2>3, <2>4 DEF StoppedMeansHalted
<1> QED
  BY <1>1, WholeInvariance, PTL

----------------------------------------------------------------------------
(* The connection implements CallOutcomes *)

\* The calls that the connection has taken, when one caller takes a step: only
\* the send to conn.calls takes one.
LEMMA CallerAccepts ==
    ASSUME WholeInv, NEW p \in Callers,
           Moves(p) \/ EnterSend(p) \/ SendEnqueues(p) \/ WaitResult(p)
    PROVE  UNCHANGED <<Accepted, given, Lost, stopped>> \/ Promise!Accept(p)
<1> DEFINE Same == UNCHANGED <<given, stopped>> /\ Accepted' = Accepted
           More == /\ UNCHANGED <<given, stopped>> /\ ~stopped /\ p \notin Accepted
                   /\ SendEnqueues(p) /\ Accepted' = Accepted \cup {p}
<1>0. IInv /\ NamedInv /\ HaltInv /\ WaitInv
  BY DEF WholeInv, CallInv
<1>1. /\ given' = given /\ stopped' = stopped
      /\ \A q \in Callers : q # p => pc'[q] = pc[q] /\ ret'[q] = ret[q]
  BY <1>0, CallerFrame DEF connVars
<1>2. \A q \in Callers : q # p => (q \in Accepted' <=> q \in Accepted)
  BY <1>1 DEF Accepted
<1>3. Accepted \subseteq Callers /\ Accepted' \subseteq Callers
  BY DEF Accepted, Callers
<1>4. ASSUME SendEnqueues(p) PROVE More
  <2>1. pc[p] = "sending" /\ given[p] = <<>> /\ ~callsClosed
    BY <1>0, <1>4 DEF SendEnqueues, IInv, CoreInv, GivenInv
  <2>2. ~stopped
    BY <1>0, <2>1 DEF HaltInv, Closed
  <2>3. p \notin Accepted
    BY <2>1 DEF Accepted
  <2>4. p \in Accepted'
    BY <1>0, <1>4, Constants DEF SendEnqueues, Accepted, Callers, Failure, IInv, TypeOK, CallerType
  <2> QED
    BY <1>1, <1>2, <1>3, <1>4, <2>2, <2>3, <2>4
<1>5. ASSUME ~SendEnqueues(p) PROVE Same
  <2>1. CASE p \in Senders
    <3>1. pc[p] = "returned" => pc'[p] = "returned" /\ ret'[p] = ret[p]
      BY <1>0, <1>4, <1>5 DEF Moves, Begin, Refused, SendPanics, WaitCancelled, SendStopped,
         SendCancelled, SendGivesUp, EnterSend, WaitResult, IInv, TypeOK, CallerType
    <3>2. pc[p] # "returned" => pc'[p] # "returned" \/ ret'[p].err # Nil
      BY <1>0, <1>5, <2>1, Constants, CallerKinds DEF Moves, Begin, Refused, SendPanics, WaitCancelled,
         SendStopped, SendCancelled, SendGivesUp, EnterSend, WaitResult, IInv, TypeOK, CallerType,
         Failure, Nil, CtxErr, CtxDone, SyncCallers
    <3> QED
      BY <1>1, <1>2, <1>3, <2>1, <3>1, <3>2, Constants DEF Accepted
  <2>2. CASE p \in SyncCallers
    <3>1. p \in Accepted <=> pc[p] \in {"waiting", "abandoned"} \/ given[p] # <<>>
      BY <2>2, Constants DEF Accepted
    <3>2. p \in Accepted' <=> pc'[p] \in {"waiting", "abandoned"} \/ given[p] # <<>>
      BY <1>1, <2>2, Constants DEF Accepted
    <3>3. pc[p] \in {"waiting", "abandoned"} =>
             pc'[p] \in {"waiting", "abandoned"} \/ given[p] # <<>>
      BY <1>0, <1>5, <2>2 DEF Moves, Begin, Refused, SendPanics, WaitCancelled, SendStopped,
         SendCancelled, SendGivesUp, EnterSend, WaitResult, IInv, TypeOK, CallerType, WaitInv
    <3>4. pc'[p] \in {"waiting", "abandoned"} => pc[p] \in {"waiting", "abandoned"}
      BY <1>0, <1>5, <2>2 DEF Moves, Begin, Refused, SendPanics, WaitCancelled, SendStopped,
         SendCancelled, SendGivesUp, EnterSend, WaitResult, IInv, TypeOK, CallerType
    <3>5. p \in Accepted' <=> p \in Accepted
      BY <3>1, <3>2, <3>3, <3>4
    <3> QED
      BY <1>1, <1>2, <1>3, <3>5
  <2> QED
    BY <2>1, <2>2 DEF Callers
<1>6. Same \/ More
  BY <1>4, <1>5
<1>7. \/ Reach' = Reach /\ ~SendEnqueues(p)
      \/ SendEnqueues(p) /\ Reach' = Reach \cup {p}
  BY <1>0, CallerReach
<1>8. Lost' = Lost
  <2>1. CASE ~SendEnqueues(p)
    BY <1>5, <1>7, <2>1 DEF Lost
  <2>2. CASE SendEnqueues(p)
    BY <1>4, <1>7, <2>2 DEF Lost
  <2> QED
    BY <2>1, <2>2
<1> QED
  BY <1>6, <1>8 DEF Promise!Accept

\* A call in the reactor's reach was taken and is owed its result; it finds no room
\* only if it is a Send and the application's channel is full.
LEMMA ReachOwed ==
    ASSUME WholeInv, NEW p \in Reach
    PROVE  /\ p \in Callers /\ p \in Promise!Owed
           /\ HasRoom(p) <=> p \notin Full
<1>0. IInv /\ NamedInv
  BY DEF WholeInv, CallInv
<1>1. /\ p \in Callers /\ given[p] = <<>>
      /\ p \in SyncCallers => p \in Owners /\ pc[p] \in {"waiting", "abandoned", "returned"}
      /\ p \in Senders => pc[p] = "returned" /\ ret[p].err = Nil
  BY <1>0, ReachFacts DEF NamedInv, IInv, CoreInv, ReachInv
<1>2. p \in Accepted
  BY <1>1 DEF Accepted, Owners, Callers
<1>3. p \in Promise!Owed
  BY <1>1, <1>2 DEF Promise!Owed, Lost
<1>4. CASE p \in Senders
  <2>1. rs[p] = AppChan
    BY <1>0, <1>4, ReachFacts DEF IInv
  <2> QED
    BY <1>1, <1>3, <1>4, <2>1 DEF Full, HasRoom, Cap
<1>5. CASE p \in SyncCallers
  <2>1. HasRoom(p) /\ p \notin Senders
    BY <1>0, <1>5, ReachFacts, Constants DEF IInv
  <2> QED
    BY <1>1, <1>3, <2>1 DEF Full
<1> QED
  BY <1>1, <1>4, <1>5 DEF Callers

\* When the reactor takes a step it takes no call, and resolves or loses one at most.
LEMMA ReactsResolve ==
    ASSUME WholeInv, Reacts
    PROVE  \/ UNCHANGED <<Accepted, given, Lost, stopped>>
           \/ \E p \in Callers : Promise!Resolve(p) \/ Promise!Lose(p)
<1>0. IInv /\ NamedInv /\ HaltInv /\ LapInv
  BY DEF WholeInv, CallInv
<1>1. /\ UNCHANGED callerVars /\ rpc \in {"select", "cleanup", "sdDrain", "sdReport"}
  BY <1>0, ReactsFrame
<1>2. ~stopped /\ stopped' = stopped
  BY <1>0, <1>1 DEF HaltInv, Reacts, ReactorAnswer, ReactorCall, CleanupCall,
     ShutdownDrains, ShutdownReports, envelopeIn, connVars
<1>3. CASE UNCHANGED given /\ Reach' = Reach
  <2>1. Accepted' = Accepted
    BY <1>1, <1>3 DEF Accepted, callerVars
  <2> QED
    BY <1>2, <1>3, <2>1 DEF Lost
<1>4. CASE \E p \in Reach, r \in Results :
             HasRoom(p) /\ Deliver(p, r) /\ Reach' = Reach \ {p}
  <2>1. PICK p \in Reach, r \in Results :
               HasRoom(p) /\ Deliver(p, r) /\ Reach' = Reach \ {p}
    BY <1>4
  <2>2. /\ p \in Callers /\ p \in Promise!Owed /\ p \notin Full
        /\ p \in Accepted /\ p \notin Lost /\ given[p] = <<>>
    BY <2>1, ReachOwed DEF Promise!Owed
  <2>3. given' = [given EXCEPT ![p] = <<r>>]
    BY <2>1, <2>2 DEF Deliver
  <2>4. /\ given'[p] = <<r>> /\ given' = [given EXCEPT ![p] = given'[p]]
        /\ \A q \in Callers : q # p => given'[q] = given[q]
    BY <1>0, <2>2, <2>3 DEF IInv, TypeOK, CallerType
  <2>5. given'[p] \in [{1} -> Results] /\ given'[p] # <<>>
    BY <2>4
  <2>6. Accepted' = Accepted
    <3>1. Accepted' \subseteq Callers /\ Accepted \subseteq Callers
      BY DEF Accepted, Callers
    <3>2. \A q \in Callers : q # p => (q \in Accepted' <=> q \in Accepted)
      BY <1>1, <2>4 DEF Accepted, callerVars
    <3>3. p \in Accepted'
      BY <1>1, <2>2, <2>5 DEF Accepted, callerVars
    <3>4. \A q : q \in Accepted' <=> q \in Accepted
      BY <2>2, <3>1, <3>2, <3>3
    <3> QED
      BY <3>4
  <2>7. Lost' = Lost
    <3>1. Accepted \subseteq Callers
      BY DEF Accepted, Callers
    <3>2. \A q \in Accepted : (q \notin Reach' /\ given'[q] = <<>>)
                              <=> (q \notin Reach /\ given[q] = <<>>)
      BY <2>1, <2>2, <2>4, <2>5, <3>1
    <3> QED
      BY <2>6, <3>2 DEF Lost
  <2>8. Promise!Resolve(p)
    <3>1. given' = [given EXCEPT ![p] = given'[p]]
      BY <2>4
    <3> HIDE <2>1
    <3> QED
      BY <1>2, <2>2, <2>5, <2>6, <2>7, <3>1 DEF Promise!Resolve
  <2> QED
    BY <2>2, <2>8
<1>5. CASE \E p \in Reach : /\ ~HasRoom(p) \/ p \in FailedReplies
                           /\ UNCHANGED given /\ Reach' = Reach \ {p}
  <2>1. PICK p \in Reach : /\ ~HasRoom(p) \/ p \in FailedReplies
                          /\ UNCHANGED given /\ Reach' = Reach \ {p}
    BY <1>5
  <2>2. /\ p \in Callers /\ p \in Promise!Owed \cap (Full \cup FailedReplies)
        /\ p \in Accepted /\ given[p] = <<>>
    BY <2>1, ReachOwed DEF Promise!Owed
  <2>3. Accepted' = Accepted
    BY <1>1, <2>1 DEF Accepted, callerVars
  <2>4. Lost' = Lost \cup {p}
    BY <2>1, <2>2, <2>3 DEF Lost
  <2>5. Promise!Lose(p)
    BY <1>2, <2>1, <2>2, <2>3, <2>4 DEF Promise!Lose
  <2> QED
    BY <2>2, <2>5
<1> QED
  BY <1>0, <1>3, <1>4, <1>5, ReactsOnOne

\* Of the quiet steps only close(c.stopped) concerns the promise, and no call is owed
\* a result then: none is in the reactor's reach.
LEMMA QuietHalts ==
    ASSUME WholeInv, Quiet
    PROVE  UNCHANGED <<Accepted, given, Lost, stopped>> \/ Promise!Halt
<1>0. HaltInv
  BY DEF WholeInv, CallInv
<1>1. UNCHANGED <<Accepted, given, Lost>>
  <2>1. UNCHANGED <<callerVars, given, calls, pending>>
    BY QuietFrame
  <2>2. Reach' = Reach /\ Accepted' = Accepted
    BY <2>1 DEF Reach, Queued, Accepted, callerVars
  <2> QED
    BY <2>1, <2>2 DEF Lost
<1>2. CASE ShutdownStops
  <2>1. rpc = "sdReport" /\ pending = {} /\ stopped' = TRUE
    BY <1>2 DEF ShutdownStops
  <2>2. ~stopped /\ calls = <<>>
    BY <1>0, <2>1 DEF HaltInv, Closed
  <2>3. Reach = {}
    BY <2>1, <2>2 DEF Reach, Queued
  <2>4. Promise!Owed = {}
    BY <2>3 DEF Promise!Owed, Lost
  <2> QED
    BY <1>1, <2>1, <2>2, <2>4 DEF Promise!Halt
<1>3. CASE ~ShutdownStops
  <2> USE DEF connVars, reactorVars, ioVars, supVars, callerVars, resultVars,
              peerVars, appVars, queueVars, envelopeIn, vars
  <2>1. CASE Supervisor \/ Remote \/ AppClose \/ AppReceive \/ ReactorReadTimeout
             \/ (\E p \in Callers : Cancel(p)) \/ UNCHANGED vars
    BY <1>1, <2>1 DEF Supervisor, Start, NegotiateFails, Negotiated, SupervisorTakes,
       SupervisorJoins, Remote, ReadRequest, ReadHeartbeat, ReadAnswer, ReaderReads,
       AppClose, AppReceive, ReactorReadTimeout, Cancel
  <2>2. CASE \E t \in IOThreads : IOStep(t) \/ IOFails(t)
    BY <1>1, <2>2 DEF IOStep, IOStops, IORecovers, IOExits, IOFails, IOReturns,
                ReaderPuts, WriterTakes, WriterWrites
  <2>3. CASE \/ ReactorUnexpected \/ ReactorHeartbeat \/ ReactorEmits \/ ReactorStops
             \/ (\E S \in SUBSET pending : CleanupTick(S))
             \/ ShutdownStores \/ ShutdownCloses \/ ShutdownWaits
             \/ ReactorExits \/ ReactorHandles
    BY <1>1, <2>3 DEF ReactorUnexpected, ReactorHeartbeat, ReactorEmits, ReactorStops,
           CleanupTick, ShutdownStores, ShutdownCloses, ShutdownWaits,
           ReactorExits, ReactorHandles
  <2> QED
    BY <1>3, <2>1, <2>2, <2>3 DEF Quiet
<1> QED
  BY <1>2, <1>3

\* Send, Reply and Request keep the promise of CallOutcomes: one outcome for each call
\* that is taken, lost only to a full receiver or to a Reply's error, and none owed
\* once the connection has halted.
THEOREM ConnImplementsCallOutcomes ==
    ASSUME FewCalls
    PROVE  Spec => ImplementsCallOutcomes
<1>1. Init => Promise!OutcomesInit
  BY DEF Init, Promise!OutcomesInit, Accepted, Lost, Callers, Failure
<1>2. WholeInv /\ [Next]_vars => [Promise!OutcomesNext]_(Promise!outcomeVars)
  <2> SUFFICES ASSUME WholeInv, [Next]_vars
               PROVE  Promise!OutcomesNext \/ UNCHANGED <<Accepted, given, Lost, stopped>>
    BY DEF Promise!outcomeVars
  <2>1. CASE Quiet
    BY <2>1, QuietHalts DEF Promise!OutcomesNext
  <2>2. CASE Reacts
    BY <2>2, ReactsResolve DEF Promise!OutcomesNext
  <2>3. ASSUME NEW p \in Callers,
               Moves(p) \/ EnterSend(p) \/ SendEnqueues(p) \/ WaitResult(p)
        PROVE  Promise!OutcomesNext \/ UNCHANGED <<Accepted, given, Lost, stopped>>
    BY <2>3, CallerAccepts DEF Promise!OutcomesNext
  <2> QED
    BY <2>1, <2>2, <2>3, StepKinds
<1> QED
  BY <1>1, <1>2, WholeInvariance, PTL
     DEF Spec, ImplementsCallOutcomes, Promise!OutcomesSpec

=============================================================================
