----------------------------- MODULE ConnProofs -----------------------------
(***************************************************************************)
(* Proofs about Conn, for every value of its constants: type correctness,  *)
(* the inductive invariant of ConnInv, and the properties it implies.      *)
(***************************************************************************)
EXTENDS ConnInv, TLAPS

\* The constants' assumptions, as one fact.
LEMMA Constants ==
    /\ RecvCap \in Nat \ {0} /\ IncomingBuffer \in Nat \ {0}
    /\ OutgoingBuffer \in Nat \ {0}
    /\ IDSpace \in Nat /\ IDSpace > 2
    /\ InitialID \in 0 .. (IDSpace - 1)
    /\ MaxPeerMsgs \in Nat
    /\ AppChan \notin PoolChans /\ NoChan \notin Chans
    /\ FailedReplies \subseteq Repliers
    /\ Requesters \cap Repliers = {} /\ Senders \cap SyncCallers = {}
BY CapacityAssumption, IDAssumption, EnvironmentAssumption, ChansDistinct,
   CallerKinds, CallersDisjoint

----------------------------------------------------------------------------
(* Type correctness *)

\* The next ID is a uint32 again.
LEMMA NextIDType == TypeOK => NextID \in 0 .. (IDSpace - 1)
BY Constants DEF TypeOK, ConnType, NextID

\* A new connection is type correct.
LEMMA TypeInit == Init => TypeOK
<1> SUFFICES ASSUME Init PROVE TypeOK
  OBVIOUS
<1> USE Constants DEF Init, NoMsg, NoEnv, None, Envelopes, Errors, Failure, Results
<1>1. ConnType
  BY DEF ConnType
<1>2. ReactorType
  BY DEF ReactorType, ReactorPCs
<1>3. IOType
  BY DEF IOType
<1>4. QueueType
  BY DEF QueueType
<1>5. CallerType
  BY DEF CallerType, CallerPCs, Callers
<1>6. EnvironmentType
  BY DEF EnvironmentType
<1> QED
  BY <1>1, <1>2, <1>3, <1>4, <1>5, <1>6 DEF TypeOK

\* What the queues' operators do to a sequence over S.
LEMMA AppendType ==
    ASSUME NEW S, NEW s \in Seq(S), NEW e \in S
    PROVE  Append(s, e) \in Seq(S) /\ Len(Append(s, e)) = Len(s) + 1
OBVIOUS

\* ... and taking the first element of it.
LEMMA TailType ==
    ASSUME NEW S, NEW s \in Seq(S), s # <<>>
    PROVE  /\ Tail(s) \in Seq(S) /\ Len(Tail(s)) = Len(s) - 1
           /\ Head(s) \in S /\ Head(s) = s[1]
OBVIOUS

\* What is queued are callers.
LEMMA QueuedType == QueueType => Queued \subseteq Callers
BY DEF QueueType, Queued

\* A sequence of at most one element, given one.
LEMMA OneElement ==
    ASSUME NEW S, NEW s \in Seq(S), s # <<>>, Len(s) <= 1
    PROVE  Tail(s) = <<>> /\ Head(s) = s[1]
OBVIOUS

\* Answers and failures are results.
LEMMA ResultTypes ==
    /\ \A e \in Errors : Failure(e) \in Results
    /\ \A m \in Nat : Answer(m) \in Results
BY DEF Results, Failure, Answer, Errors, NoMsg, Nil

\* A delivery, or none, keeps the types of what belongs to the callers.
LEMMA DeliverType ==
    ASSUME CallerType, NEW p \in Callers, NEW r \in Results,
           Deliver(p, r) \/ UNCHANGED resultVars, UNCHANGED <<callerVars, pool>>
    PROVE  CallerType'
<1>1. CASE UNCHANGED resultVars
  BY <1>1 DEF CallerType, resultVars, callerVars
<1>2. CASE Deliver(p, r)
  <2>1. given[p] \in Seq(Results) /\ (rs[p] \in Chans => buf[rs[p]] \in Seq(Results))
    BY DEF CallerType
  <2>2. /\ Append(given[p], r) \in Seq(Results)
        /\ rs[p] \in Chans => Append(buf[rs[p]], r) \in Seq(Results)
    BY <2>1, AppendType
  <2>3. given' \in [Callers -> Seq(Results)] /\ buf' \in [Chans -> Seq(Results)]
    BY <1>2, <2>2 DEF Deliver, CallerType
  <2> QED
    BY <2>3 DEF CallerType, callerVars
<1> QED
  BY <1>1, <1>2

\* The same of a delivery that may terminate the connection instead.
LEMMA DeliverOrFailType ==
    ASSUME CallerType, NEW p \in Callers, NEW r \in Results, NEW next,
           DeliverOrFail(p, r, next), UNCHANGED <<callerVars, pool>>
    PROVE  /\ CallerType'
           /\ (rpc' = next /\ rerr' = rerr) \/ (rpc' = "sdState" /\ rerr' \in Errors)
BY DeliverType DEF DeliverOrFail, ReactorReturns, Errors

\* A receiver takes a result from its channel.
LEMMA ReceiveType ==
    ASSUME CallerType, NEW p \in Callers, pc[p] = "waiting", buf[rs[p]] # <<>>
    PROVE  Head(buf[rs[p]]) \in Results /\ Tail(buf[rs[p]]) \in Seq(Results)
           /\ rs[p] \in PoolChans
<1>1. rs[p] \in PoolChans
  BY DEF CallerType, Callers
<1>2. buf[rs[p]] \in Seq(Results)
  BY <1>1 DEF CallerType, Chans
<1> QED
  BY <1>1, <1>2, TailType

\* The supervisor touches only flags and its own variables.
LEMMA TypeSupervisor ==
    ASSUME TypeOK, Supervisor
    PROVE  TypeOK'
<1> USE DEF TypeOK, connVars, reactorVars, ioVars, supVars, callerVars,
            resultVars, peerVars, appVars, queueVars
<1>1. CASE Start
  <2>1. ReactorType' /\ IOType' /\ QueueType'
        /\ CallerType' /\ EnvironmentType'
    BY <1>1 DEF Start, ReactorType, IOType, QueueType, CallerType,
       EnvironmentType
  <2>2. ConnType'
    BY <1>1 DEF Start, ConnType
  <2> QED
    BY <2>1, <2>2
<1>2. CASE NegotiateFails
  <2>1. ReactorType' /\ IOType' /\ QueueType'
        /\ CallerType' /\ EnvironmentType'
    BY <1>2 DEF NegotiateFails, ReactorType, IOType, QueueType, CallerType,
       EnvironmentType
  <2>2. ConnType'
    BY <1>2 DEF NegotiateFails, ConnType
  <2> QED
    BY <2>1, <2>2
<1>3. CASE Negotiated
  <2>1. QueueType' /\ CallerType' /\ EnvironmentType'
    BY <1>3 DEF Negotiated, QueueType, CallerType, EnvironmentType
  <2>2. ConnType'
    BY <1>3 DEF Negotiated, ConnType
  <2>3. ReactorType'
    BY <1>3 DEF Negotiated, ReactorType, ReactorPCs
  <2>4. IOType'
    BY <1>3 DEF Negotiated, IOType
  <2> QED
    BY <2>1, <2>2, <2>3, <2>4
<1>4. CASE SupervisorTakes
  <2>1. ReactorType' /\ IOType' /\ QueueType'
        /\ CallerType' /\ EnvironmentType'
    BY <1>4 DEF SupervisorTakes, ReactorType, IOType, QueueType, CallerType,
       EnvironmentType
  <2>2. ConnType'
    BY <1>4 DEF SupervisorTakes, ConnType, Errors
  <2> QED
    BY <2>1, <2>2
<1>5. CASE SupervisorJoins
  <2>1. ReactorType' /\ IOType' /\ QueueType'
        /\ CallerType' /\ EnvironmentType'
    BY <1>5 DEF SupervisorJoins, ReactorType, IOType, QueueType, CallerType,
       EnvironmentType
  <2>2. ConnType'
    BY <1>5 DEF SupervisorJoins, ConnType
  <2> QED
    BY <2>1, <2>2
<1> QED
  BY <1>1, <1>2, <1>3, <1>4, <1>5 DEF Supervisor

\* The application closes, receives, cancels and begins calls.
LEMMA TypeApplication ==
    ASSUME TypeOK, Application
    PROVE  TypeOK'
<1> USE DEF TypeOK, connVars, reactorVars, ioVars, supVars, callerVars,
            resultVars, peerVars, appVars, queueVars
<1>1. CASE AppClose
  <2>1. ReactorType' /\ IOType' /\ QueueType'
        /\ CallerType' /\ EnvironmentType'
    BY <1>1 DEF AppClose, ReactorType, IOType, QueueType, CallerType,
       EnvironmentType
  <2>2. ConnType'
    BY <1>1 DEF AppClose, ConnType
  <2> QED
    BY <2>1, <2>2
<1>2. CASE AppReceive
  <2>1. ConnType' /\ ReactorType' /\ IOType'
        /\ QueueType' /\ EnvironmentType'
    BY <1>2 DEF AppReceive, ConnType, ReactorType, IOType, QueueType,
       EnvironmentType
  <2>2. CallerType'
    BY <1>2, TailType DEF AppReceive, CallerType, Chans
  <2> QED
    BY <2>1, <2>2
<1>3. ASSUME NEW p \in Callers, Cancel(p) PROVE TypeOK'
  <2>1. ConnType' /\ ReactorType' /\ IOType'
        /\ QueueType' /\ CallerType'
    BY <1>3 DEF Cancel, ConnType, ReactorType, IOType, QueueType, CallerType
  <2>2. EnvironmentType'
    BY <1>3 DEF Cancel, EnvironmentType
  <2> QED
    BY <2>1, <2>2
<1>4. ASSUME NEW p \in Callers, Begin(p) PROVE TypeOK'
  <2>1. ConnType' /\ ReactorType' /\ IOType'
        /\ QueueType' /\ EnvironmentType'
    BY <1>4 DEF Begin, ConnType, ReactorType, IOType, QueueType,
       EnvironmentType
  <2>2. CallerType'
    BY <1>4 DEF Begin, CallerType, ReplyTarget, CallerPCs, NoMsg,
       EnvironmentType
  <2> QED
    BY <2>1, <2>2
<1> QED
  BY <1>1, <1>2, <1>3, <1>4 DEF Application

\* A caller leaves send with an error, or with a nil that means none.
LEMMA TypeGivesUp ==
    ASSUME CallerType, NEW p \in Callers, NEW e \in Errors, SendGivesUp(p, e)
    PROVE  CallerType'
<1>1. /\ ret' \in [Callers -> Results]
      /\ pc' \in [Callers -> CallerPCs]
      /\ pc' \in {[pc EXCEPT ![p] = "unsent"], [pc EXCEPT ![p] = "returned"]}
  <2>1. Failure(IF p \in Senders THEN e ELSE Nil) \in Results
    BY ResultTypes DEF Errors
  <2> QED
    BY <2>1 DEF SendGivesUp, CallerType, CallerPCs
<1>2. \A q \in Callers : pc'[q] = pc[q] \/ pc'[q] \in {"unsent", "returned"}
  BY <1>1 DEF CallerType
<1> QED
  BY <1>1, <1>2 DEF SendGivesUp, CallerType, resultVars, Callers

\* A caller changes its own place and envelope, its channel, and the calls queue.
LEMMA TypeCaller ==
    ASSUME TypeOK, NEW p \in Callers, CallerStep(p)
    PROVE  TypeOK'
<1> USE DEF TypeOK, connVars, reactorVars, ioVars, supVars, callerVars,
            resultVars, peerVars, appVars, queueVars
<1>1. CASE Refused(p)
  <2>1. ConnType' /\ ReactorType' /\ IOType'
        /\ QueueType' /\ EnvironmentType'
    BY <1>1 DEF Refused, ConnType, ReactorType, IOType, QueueType,
       EnvironmentType
  <2>2. CallerType'
    BY <1>1 DEF Refused, CallerType, CallerPCs, Callers, Results, Failure,
       Errors, NoMsg
  <2> QED
    BY <2>1, <2>2
<1>2. CASE EnterSend(p)
  <2>1. ReactorType' /\ IOType' /\ QueueType'
        /\ EnvironmentType'
    BY <1>2 DEF EnterSend, ReactorType, IOType, QueueType, EnvironmentType
  <2>2. ConnType'
    BY <1>2, NextIDType DEF EnterSend, ConnType
  <2>3. CallerType'
    BY <1>2, NextIDType DEF EnterSend, CallerType, CallerPCs, Callers,
       ReceiverOf, Chans
  <2> QED
    BY <2>1, <2>2, <2>3
<1>3. CASE SendEnqueues(p)
  <2>1. ConnType' /\ ReactorType' /\ IOType'
        /\ EnvironmentType'
    BY <1>3 DEF SendEnqueues, ConnType, ReactorType, IOType, EnvironmentType
  <2>2. QueueType'
    BY <1>3, Constants, AppendType DEF SendEnqueues, QueueType
  <2>3. CallerType'
    <3>1. CASE p \in Senders
      BY <1>3, <3>1, ResultTypes
         DEF SendEnqueues, CallerType, CallerPCs, Callers, Errors
    <3>2. CASE p \notin Senders
      BY <1>3, <3>2 DEF SendEnqueues, CallerType, CallerPCs, Callers
    <3> QED
      BY <3>1, <3>2
  <2> QED
    BY <2>1, <2>2, <2>3
<1>4. CASE SendPanics(p)
  <2>1. ConnType' /\ ReactorType' /\ IOType'
        /\ QueueType' /\ EnvironmentType'
    BY <1>4 DEF SendPanics, ConnType, ReactorType, IOType, QueueType,
       EnvironmentType
  <2>2. CallerType'
    BY <1>4 DEF SendPanics, CallerType, CallerPCs, Callers
  <2> QED
    BY <2>1, <2>2
<1>5. CASE SendStopped(p)
  <2>1. ConnType' /\ ReactorType' /\ IOType'
        /\ QueueType' /\ EnvironmentType'
    BY <1>5 DEF SendStopped, SendGivesUp, ConnType, ReactorType, IOType,
       QueueType, EnvironmentType
  <2>2. CallerType'
    BY <1>5, TypeGivesUp DEF SendStopped, Errors
  <2> QED
    BY <2>1, <2>2
<1>6. CASE SendCancelled(p)
  <2>1. ConnType' /\ ReactorType' /\ IOType'
        /\ QueueType' /\ EnvironmentType'
    BY <1>6 DEF SendCancelled, SendGivesUp, ConnType, ReactorType, IOType,
       QueueType, EnvironmentType
  <2>2. CallerType'
    BY <1>6, TypeGivesUp DEF SendCancelled, CtxErr, Errors
  <2> QED
    BY <2>1, <2>2
<1>7. CASE WaitResult(p)
  <2>1. ConnType' /\ ReactorType' /\ IOType'
        /\ QueueType' /\ EnvironmentType'
    BY <1>7 DEF WaitResult, ConnType, ReactorType, IOType, QueueType,
       EnvironmentType
  <2>2. CallerType'
    BY <1>7, ReceiveType, Constants DEF WaitResult, CallerType, CallerPCs,
       Callers
  <2> QED
    BY <2>1, <2>2
<1>8. CASE WaitCancelled(p)
  <2>1. ConnType' /\ ReactorType' /\ IOType'
        /\ QueueType' /\ EnvironmentType'
    BY <1>8 DEF WaitCancelled, ConnType, ReactorType, IOType, QueueType,
       EnvironmentType
  <2>2. CallerType'
    BY <1>8 DEF WaitCancelled, CallerType, CallerPCs, Callers, Results,
       Failure, Errors, NoMsg, CtxErr
  <2> QED
    BY <2>1, <2>2
<1> QED
  BY <1>1, <1>2, <1>3, <1>4, <1>5, <1>6, <1>7, <1>8 DEF CallerStep

\* The remote, the reader and the writer.
LEMMA TypeIO ==
    ASSUME TypeOK, Remote \/ \E t \in IOThreads : IOStep(t) \/ IOFails(t)
    PROVE  TypeOK'
<1> USE DEF TypeOK, connVars, reactorVars, ioVars, supVars, callerVars,
            resultVars, peerVars, appVars, queueVars
<1>1. CASE ReadRequest
  <2>1. ConnType' /\ ReactorType' /\ QueueType'
        /\ CallerType'
    BY <1>1 DEF ReadRequest, ReaderReads, ConnType, ReactorType, QueueType,
       CallerType
  <2>2. IOType'
    BY <1>1 DEF ReadRequest, ReaderReads, IOType, IOThreads, Envelopes, NoEnv,
       NoMsg, EnvironmentType
  <2>3. EnvironmentType'
    BY <1>1, Constants DEF ReadRequest, ReaderReads, EnvironmentType
  <2> QED
    BY <2>1, <2>2, <2>3
<1>2. CASE ReadHeartbeat
  <2>1. ConnType' /\ ReactorType' /\ QueueType'
        /\ CallerType'
    BY <1>2 DEF ReadHeartbeat, ReaderReads, ConnType, ReactorType, QueueType,
       CallerType
  <2>2. IOType'
    BY <1>2 DEF ReadHeartbeat, ReaderReads, IOType, IOThreads, Envelopes,
       NoEnv, NoMsg, EnvironmentType
  <2>3. EnvironmentType'
    BY <1>2, Constants DEF ReadHeartbeat, ReaderReads, EnvironmentType
  <2> QED
    BY <2>1, <2>2, <2>3
<1>3. ASSUME NEW e \in wire, ReadAnswer(e) PROVE TypeOK'
  <2>1. ConnType' /\ ReactorType' /\ QueueType'
        /\ CallerType'
    BY <1>3 DEF ReadAnswer, ReaderReads, ConnType, ReactorType, QueueType,
       CallerType
  <2>2. IOType'
    BY <1>3 DEF ReadAnswer, ReaderReads, IOType, IOThreads, Envelopes, NoEnv,
       NoMsg, EnvironmentType
  <2>3. EnvironmentType'
    <3>1. e.id \in Nat /\ answered' \subseteq Nat
      BY <1>3 DEF ReadAnswer, EnvironmentType, Envelopes
    <3> QED
      BY <1>3, <3>1, Constants DEF ReadAnswer, ReaderReads, EnvironmentType
  <2> QED
    BY <2>1, <2>2, <2>3
<1>4. CASE ReaderPuts
  <2>1. ConnType' /\ ReactorType' /\ CallerType'
        /\ EnvironmentType'
    BY <1>4 DEF ReaderPuts, ConnType, ReactorType, CallerType, EnvironmentType
  <2>2. IOType'
    BY <1>4 DEF ReaderPuts, IOType, IOThreads, Envelopes, NoEnv, NoMsg
  <2>3. QueueType'
    BY <1>4, Constants, AppendType DEF ReaderPuts, QueueType, IOType,
       IOThreads
  <2> QED
    BY <2>1, <2>2, <2>3
<1>5. CASE WriterTakes
  <2>1. ConnType' /\ ReactorType' /\ CallerType'
        /\ EnvironmentType'
    BY <1>5 DEF WriterTakes, ConnType, ReactorType, CallerType,
       EnvironmentType
  <2>2. IOType'
    BY <1>5, TailType DEF WriterTakes, IOType, IOThreads, Envelopes, NoEnv,
       NoMsg, QueueType
  <2>3. QueueType'
    BY <1>5, Constants, TailType DEF WriterTakes, QueueType
  <2> QED
    BY <2>1, <2>2, <2>3
<1>6. CASE WriterWrites
  <2>1. ConnType' /\ ReactorType' /\ QueueType'
        /\ CallerType'
    BY <1>6 DEF WriterWrites, ConnType, ReactorType, QueueType, CallerType
  <2>2. IOType'
    BY <1>6 DEF WriterWrites, IOType, IOThreads, Envelopes, NoEnv, NoMsg
  <2>3. EnvironmentType'
    BY <1>6 DEF WriterWrites, EnvironmentType, IOType, IOThreads
  <2> QED
    BY <2>1, <2>2, <2>3
<1>7. ASSUME NEW t \in IOThreads, IOFails(t) PROVE TypeOK'
  <2>1. ConnType' /\ ReactorType' /\ QueueType'
        /\ CallerType' /\ EnvironmentType'
    BY <1>7 DEF IOFails, IOReturns, ConnType, ReactorType, QueueType,
       CallerType, EnvironmentType
  <2>2. IOType'
    BY <1>7 DEF IOFails, IOReturns, IOType, IOThreads, Envelopes, NoEnv, NoMsg
  <2> QED
    BY <2>1, <2>2
<1>8. ASSUME NEW t \in IOThreads, IOStops(t) PROVE TypeOK'
  <2>1. ConnType' /\ ReactorType' /\ QueueType'
        /\ CallerType' /\ EnvironmentType'
    BY <1>8 DEF IOStops, IOReturns, ConnType, ReactorType, QueueType,
       CallerType, EnvironmentType
  <2>2. IOType'
    BY <1>8 DEF IOStops, IOReturns, IOType, IOThreads, Envelopes, NoEnv, NoMsg
  <2> QED
    BY <2>1, <2>2
<1>9. ASSUME NEW t \in IOThreads, IORecovers(t) PROVE TypeOK'
  <2>1. ConnType' /\ ReactorType' /\ QueueType'
        /\ CallerType' /\ EnvironmentType'
    BY <1>9 DEF IORecovers, IOReturns, ConnType, ReactorType, QueueType,
       CallerType, EnvironmentType
  <2>2. IOType'
    BY <1>9 DEF IORecovers, IOReturns, IOType, IOThreads, Envelopes, NoEnv,
       NoMsg
  <2> QED
    BY <2>1, <2>2
<1>10. ASSUME NEW t \in IOThreads, IOExits(t) PROVE TypeOK'
  <2>1. ReactorType' /\ QueueType' /\ CallerType'
        /\ EnvironmentType'
    BY <1>10 DEF IOExits, ReactorType, QueueType, CallerType, EnvironmentType
  <2>2. IOType'
    BY <1>10 DEF IOExits, IOType, IOThreads, Envelopes, NoEnv, NoMsg
  <2>3. ConnType'
    BY <1>10 DEF IOExits, ConnType, PutErr, Errors, IOType, Nil, None
  <2> QED
    BY <2>1, <2>2, <2>3
<1> QED
  BY <1>1, <1>2, <1>3, <1>4, <1>5, <1>6, <1>7, <1>8, <1>9, <1>10 DEF Remote,
     IOStep

\* The reactor's select.
LEMMA TypeReactor ==
    ASSUME TypeOK, ReactorLoop \/ ReactorReadTimeout
    PROVE  TypeOK'
<1> USE DEF TypeOK, connVars, reactorVars, ioVars, supVars, callerVars,
            resultVars, peerVars, appVars, queueVars
<1>1. CASE ReactorAnswer
  <2>1. ConnType' /\ IOType' /\ EnvironmentType'
    BY <1>1 DEF ReactorAnswer, envelopeIn, ConnType, IOType, EnvironmentType
  <2>2. PICK p \in pending : /\ pending' = pending \ {p}
                            /\ DeliverOrFail(p, Answer(Head(incoming).replyTo),
                                             "select")
    BY <1>1 DEF ReactorAnswer, WithID
  <2>3. p \in Callers /\ Answer(Head(incoming).replyTo) \in Results
    <3>1. Head(incoming) \in Envelopes
      BY <1>1, TailType DEF ReactorAnswer, QueueType
    <3> QED
      BY <3>1, ResultTypes DEF ReactorType, Envelopes
  <2>4. CallerType' /\ rpc' \in {"select", "sdState"} /\ rerr' \in Errors
    BY <1>1, <2>2, <2>3, DeliverOrFailType
       DEF ReactorAnswer, envelopeIn, ReactorType
  <2>5. ReactorType'
    BY <1>1, <2>2, <2>4 DEF ReactorAnswer, envelopeIn, ReactorType, ReactorPCs
  <2>6. QueueType'
    BY <1>1, Constants, TailType DEF ReactorAnswer, envelopeIn, QueueType
  <2> QED
    BY <2>1, <2>4, <2>5, <2>6
<1>2. CASE ReactorUnexpected
  <2>1. ConnType' /\ IOType' /\ CallerType'
        /\ EnvironmentType'
    BY <1>2 DEF ReactorUnexpected, envelopeIn, ConnType, IOType, CallerType,
       EnvironmentType
  <2>2. ReactorType'
    BY <1>2 DEF ReactorUnexpected, envelopeIn, ReactorType, ReactorPCs,
       ReactorReturns, Errors
  <2>3. QueueType'
    BY <1>2, Constants, TailType DEF ReactorUnexpected, envelopeIn, QueueType
  <2> QED
    BY <2>1, <2>2, <2>3
<1>3. CASE ReactorHandles
  <2>1. IOType' /\ CallerType'
    BY <1>3 DEF ReactorHandles, IOType, CallerType
  <2>2. ConnType'
    BY <1>3, NextIDType DEF ReactorHandles, ConnType
  <2>3. Head(incoming).id \in Nat
    <3>1. Head(incoming) \in Envelopes
      BY <1>3, TailType DEF ReactorHandles, QueueType
    <3> QED
      BY <3>1 DEF Envelopes
  <2>4. NextID \in Nat
    BY NextIDType, Constants
  <2>5. ReactorType'
    BY <1>3, <2>3, <2>4 DEF ReactorHandles, ReactorType, ReactorPCs,
       ReactorReturns, Errors, Envelopes
  <2>6. QueueType'
    BY <1>3, Constants, TailType DEF ReactorHandles, QueueType
  <2>7. EnvironmentType'
    BY <1>3, <2>3 DEF ReactorHandles, EnvironmentType
  <2> QED
    BY <2>1, <2>2, <2>5, <2>6, <2>7
<1>4. CASE ReactorHeartbeat
  <2>1. ConnType' /\ ReactorType' /\ IOType'
        /\ CallerType' /\ EnvironmentType'
    BY <1>4 DEF ReactorHeartbeat, ConnType, ReactorType, IOType, CallerType,
       EnvironmentType
  <2>2. QueueType'
    BY <1>4, Constants, TailType DEF ReactorHeartbeat, QueueType
  <2> QED
    BY <2>1, <2>2
<1>5. CASE ReactorCall
  <2>1. ConnType' /\ IOType' /\ EnvironmentType'
    BY <1>5 DEF ReactorCall, ConnType, IOType, EnvironmentType
  <2>2. QueueType'
    BY <1>5, Constants, TailType DEF ReactorCall, QueueType
  <2> DEFINE p == Head(calls)
  <2>3. p \in Callers
    BY <1>5, TailType DEF ReactorCall, QueueType
  <2>4. Registered(p) \subseteq Callers /\ EnvOf(p) \in Envelopes
    BY <2>3, Constants DEF Registered, AddCall, WithID, EnvOf, Envelopes,
       ReactorType, CallerType
  <2>5. rpc = "select" /\ due = {} /\ due' = {}
    BY <1>5 DEF ReactorCall, ReactorType
  <2>6. pending' \subseteq Callers /\ emit' \in Envelopes
    BY <1>5, <2>4 DEF ReactorCall, ReactorType
  <2>7. /\ CallerType'
        /\ rpc' \in {"emit", "sdState"} /\ rerr' \in Errors
    <3>1. CASE p \in FailedReplies
      BY <1>5, <3>1 DEF ReactorCall, ReactorReturns, CallerType, Errors
    <3>2. ASSUME NEW r \in Results, DeliverOrFail(p, r, "emit")
          PROVE  CallerType' /\ rpc' \in {"emit", "sdState"} /\ rerr' \in Errors
      BY <1>5, <2>3, <3>2, DeliverOrFailType DEF ReactorCall, ReactorType
    <3>3. CASE p \notin FailedReplies /\ (p \in Unmapped \/ to[p] # NoMsg)
      BY <1>5, <3>2, <3>3, ResultTypes DEF ReactorCall, Errors
    <3>4. CASE p \notin Unmapped \cup FailedReplies /\ to[p] = NoMsg
      BY <1>5, <3>4 DEF ReactorCall, CallerType, ReactorType
    <3> QED
      BY <3>1, <3>3, <3>4
  <2>8. ReactorType'
    BY <2>5, <2>6, <2>7 DEF ReactorType, ReactorPCs
  <2> QED
    BY <2>1, <2>2, <2>7, <2>8
<1>6. CASE ReactorEmits
  <2>1. ConnType' /\ IOType' /\ CallerType'
        /\ EnvironmentType'
    BY <1>6 DEF ReactorEmits, ConnType, IOType, CallerType, EnvironmentType
  <2>2. ReactorType'
    BY <1>6 DEF ReactorEmits, ReactorType, ReactorPCs, ReactorReturns,
       Envelopes, NoEnv, NoMsg
  <2>3. QueueType'
    BY <1>6, Constants, AppendType DEF ReactorEmits, QueueType, ReactorType
  <2> QED
    BY <2>1, <2>2, <2>3
<1>7. CASE ReactorStops
  <2>1. ConnType' /\ IOType' /\ QueueType'
        /\ CallerType' /\ EnvironmentType'
    BY <1>7 DEF ReactorStops, ConnType, IOType, QueueType, CallerType,
       EnvironmentType
  <2>2. ReactorType'
    BY <1>7 DEF ReactorStops, ReactorType, ReactorPCs, ReactorReturns, Errors,
       Envelopes, NoEnv, NoMsg
  <2> QED
    BY <2>1, <2>2
<1>8. ASSUME NEW S \in SUBSET pending, CleanupTick(S) PROVE TypeOK'
  <2>1. ConnType' /\ IOType' /\ QueueType'
        /\ CallerType' /\ EnvironmentType'
    BY <1>8 DEF CleanupTick, ConnType, IOType, QueueType, CallerType,
       EnvironmentType
  <2>2. ReactorType'
    BY <1>8 DEF CleanupTick, ReactorType, ReactorPCs, ReactorReturns
  <2> QED
    BY <2>1, <2>2
<1>9. ASSUME NEW p \in due, CleanupCall(p) PROVE TypeOK'
  <2>1. ConnType' /\ IOType' /\ QueueType'
        /\ EnvironmentType'
    BY <1>9 DEF CleanupCall, ConnType, IOType, QueueType, EnvironmentType
  <2>2. p \in Callers /\ Failure("responseTimeout") \in Results
    BY ResultTypes DEF ReactorType, Errors
  <2>3. /\ CallerType' /\ rerr' \in Errors
        /\ rpc' \in {"select", "cleanup", "sdState"}
    BY <1>9, <2>2, DeliverOrFailType DEF CleanupCall, ReactorType
  <2>4. rpc' # "cleanup" => due' = {}
    BY <1>9 DEF CleanupCall, DeliverOrFail
  <2>5. ReactorType'
    BY <1>9, <2>3, <2>4 DEF CleanupCall, ReactorType, ReactorPCs
  <2> QED
    BY <2>1, <2>3, <2>5
<1>10. CASE ReactorReadTimeout
  <2>1. ConnType' /\ IOType' /\ QueueType'
        /\ CallerType' /\ EnvironmentType'
    BY <1>10 DEF ReactorReadTimeout, ConnType, IOType, QueueType, CallerType,
       EnvironmentType
  <2>2. ReactorType'
    BY <1>10 DEF ReactorReadTimeout, ReactorType, ReactorPCs, ReactorReturns,
       Errors
  <2> QED
    BY <2>1, <2>2
<1> QED
  BY <1>1, <1>2, <1>3, <1>4, <1>5, <1>6, <1>7, <1>8, <1>9, <1>10 DEF
     ReactorLoop

\* reactorShutdown.
LEMMA TypeShutdown ==
    ASSUME TypeOK, ReactorShutdown
    PROVE  TypeOK'
<1> USE DEF TypeOK, connVars, reactorVars, ioVars, supVars, callerVars,
            resultVars, peerVars, appVars, queueVars
<1>1. CASE ShutdownStores
  <2>1. IOType' /\ QueueType' /\ CallerType'
        /\ EnvironmentType'
    BY <1>1 DEF ShutdownStores, IOType, QueueType, CallerType, EnvironmentType
  <2>2. ConnType'
    BY <1>1 DEF ShutdownStores, ConnType
  <2>3. ReactorType'
    BY <1>1 DEF ShutdownStores, ReactorType, ReactorPCs
  <2> QED
    BY <2>1, <2>2, <2>3
<1>2. CASE ShutdownCloses
  <2>1. IOType' /\ QueueType' /\ CallerType'
        /\ EnvironmentType'
    BY <1>2 DEF ShutdownCloses, IOType, QueueType, CallerType, EnvironmentType
  <2>2. ConnType'
    BY <1>2 DEF ShutdownCloses, ConnType
  <2>3. ReactorType'
    BY <1>2 DEF ShutdownCloses, ReactorType, ReactorPCs
  <2> QED
    BY <2>1, <2>2, <2>3
<1>3. CASE ShutdownWaits
  <2>1. IOType' /\ QueueType' /\ CallerType'
        /\ EnvironmentType'
    BY <1>3 DEF ShutdownWaits, IOType, QueueType, CallerType, EnvironmentType
  <2>2. ConnType'
    BY <1>3 DEF ShutdownWaits, ConnType
  <2>3. ReactorType'
    BY <1>3 DEF ShutdownWaits, ReactorType, ReactorPCs, Errors
  <2> QED
    BY <2>1, <2>2, <2>3
<1>4. CASE ShutdownDrains
  <2>1. IOType' /\ CallerType' /\ EnvironmentType'
    BY <1>4 DEF ShutdownDrains, IOType, CallerType, EnvironmentType
  <2>2. ConnType'
    BY <1>4 DEF ShutdownDrains, ConnType
  <2>3. ReactorType'
    BY <1>4, QueuedType DEF ShutdownDrains, ReactorType, ReactorPCs, Drained
  <2>4. QueueType'
    BY <1>4, Constants DEF ShutdownDrains, QueueType
  <2> QED
    BY <2>1, <2>2, <2>3, <2>4
<1>5. ASSUME NEW p \in pending, ShutdownReports(p) PROVE TypeOK'
  <2>1. ConnType' /\ IOType' /\ QueueType'
        /\ EnvironmentType'
    BY <1>5 DEF ShutdownReports, ConnType, IOType, QueueType, EnvironmentType
  <2>2. ReactorType'
    BY <1>5 DEF ShutdownReports, ReactorType
  <2>3. CallerType'
    <3> DEFINE e == IF rerr = Nil THEN "connShutdown" ELSE rerr
    <3>1. p \in Callers /\ Failure(e) \in Results
      BY ResultTypes DEF ReactorType, Errors
    <3>2. Deliver(p, Failure(e)) \/ UNCHANGED resultVars
      BY <1>5 DEF ShutdownReports
    <3> QED
      BY <1>5, <3>1, <3>2, DeliverType DEF ShutdownReports
  <2> QED
    BY <2>1, <2>2, <2>3
<1>6. CASE ShutdownStops
  <2>1. IOType' /\ QueueType' /\ CallerType'
        /\ EnvironmentType'
    BY <1>6 DEF ShutdownStops, IOType, QueueType, CallerType, EnvironmentType
  <2>2. ConnType'
    BY <1>6 DEF ShutdownStops, ConnType
  <2>3. ReactorType'
    BY <1>6 DEF ShutdownStops, ReactorType, ReactorPCs
  <2> QED
    BY <2>1, <2>2, <2>3
<1>7. CASE ReactorExits
  <2>1. IOType' /\ QueueType' /\ CallerType'
        /\ EnvironmentType'
    BY <1>7 DEF ReactorExits, IOType, QueueType, CallerType, EnvironmentType
  <2>2. ConnType'
    BY <1>7 DEF ReactorExits, ConnType, PutErr, ReactorType
  <2>3. ReactorType'
    BY <1>7 DEF ReactorExits, ReactorType, ReactorPCs
  <2> QED
    BY <2>1, <2>2, <2>3
<1> QED
  BY <1>1, <1>2, <1>3, <1>4, <1>5, <1>6, <1>7 DEF ReactorShutdown

\* Every step keeps the types.
LEMMA TypeNext == TypeOK /\ [Next]_vars => TypeOK'
<1> SUFFICES ASSUME TypeOK, [Next]_vars PROVE TypeOK'
  OBVIOUS
<1>1. CASE UNCHANGED vars
  BY <1>1 DEF TypeOK, ConnType, ReactorType, IOType, QueueType, CallerType,
              EnvironmentType, vars, connVars, reactorVars, ioVars, supVars,
              callerVars, resultVars, peerVars, appVars, queueVars
<1> QED
  BY <1>1, TypeSupervisor, TypeApplication, TypeCaller, TypeIO, TypeReactor,
     TypeShutdown DEF Next, Terminated

\* Type correctness of the connection, for any number of callers, capacities,
\* and whatever the Handler, the Mapper and the remote do.
THEOREM TypeCorrect == Spec => []TypeOK
<1>1. Init => TypeOK
  BY TypeInit
<1>2. TypeOK /\ [Next]_vars => TypeOK'
  BY TypeNext
<1> QED
  BY <1>1, <1>2, PTL DEF Spec

----------------------------------------------------------------------------
(* The inductive invariant.  CoreInv says what callers, the reactor and the *)
(* channels have to do with each other.                                     *)

\* A new connection satisfies the invariant: nothing is sent or given out.
LEMMA InvInit == Init => CoreInv /\ QueueInv /\ ReplyInv
<1> SUFFICES ASSUME Init PROVE CoreInv /\ QueueInv /\ ReplyInv
  OBVIOUS
<1> USE DEF Init
<1>1. Reach = {} /\ Owners = {}
  BY DEF Reach, Queued, Owners, Callers
<1>2. ReachInv /\ OwnerInv
  BY <1>1 DEF ReachInv, OwnerInv, Callers
<1>3. QueueInv /\ ReplyInv
  BY DEF QueueInv, ReplyInv, Queued, Callers, SyncCallers
<1>4. ChanInv /\ GivenInv /\ Correlated
  BY <1>1, Constants DEF ChanInv, GivenInv, Correlated, Chans, Callers
<1> QED
  BY <1>2, <1>3, <1>4 DEF CoreInv

\* Facts about a caller the reactor can reach.
LEMMA ReachFacts ==
    ASSUME TypeOK, CoreInv, NEW p \in Reach
    PROVE  /\ p \in Callers
           /\ p \in SyncCallers => p \in Owners /\ HasRoom(p)
           /\ p \in Senders => rs[p] = AppChan
<1>1. p \in Callers
  BY QueuedType DEF Reach, TypeOK, ReactorType
<1>2. p \in Senders => rs[p] = AppChan
  BY DEF CoreInv, OwnerInv
<1>3. ASSUME p \in SyncCallers PROVE p \in Owners /\ HasRoom(p)
  BY <1>3, Constants
     DEF CoreInv, ReachInv, OwnerInv, HasRoom, Cap, TypeOK, CallerType
<1> QED
  BY <1>1, <1>2, <1>3

\* The reactor drops calls, or moves them from the queue to its map.
LEMMA CoreShrinks ==
    ASSUME CoreInv, Reach' \subseteq Reach,
           UNCHANGED <<callerVars, resultVars, pool>>
    PROVE  CoreInv'
<1> USE DEF callerVars, resultVars
<1>1. Owners' = Owners
  BY DEF Owners
<1>2. ReachInv'
  BY <1>1 DEF CoreInv, ReachInv
<1>3. OwnerInv' /\ ChanInv' /\ GivenInv' /\ Correlated'
  BY <1>1 DEF CoreInv, OwnerInv, ChanInv, GivenInv, Correlated
<1> QED
  BY <1>2, <1>3 DEF CoreInv

\* The reactor resolves a call: it can no longer reach it, and gives it its one
\* result, which is an answer only if it is the answer to the call's message.
LEMMA CoreDelivers ==
    ASSUME TypeOK, CoreInv, NEW p \in Reach, NEW r \in Results,
           r.msg # NoMsg => p \notin Repliers /\ r.msg = mid[p],
           HasRoom(p), Deliver(p, r), Reach' \subseteq Reach \ {p},
           UNCHANGED <<callerVars, pool>>
    PROVE  CoreInv'
<1> USE DEF callerVars
<1> DEFINE c == rs[p]
<1>1. /\ p \in Callers
      /\ p \in SyncCallers => p \in Owners
      /\ p \in Senders => c = AppChan
  BY ReachFacts
<1>2. Owners' = Owners
  BY DEF Owners
<1>3. /\ pc[p] \in {"waiting", "abandoned", "returned"} /\ given[p] = <<>>
      /\ p \in SyncCallers => buf[c] = <<>>
  BY DEF CoreInv, ReachInv
<1>4. p \in SyncCallers \/ p \in Senders
  BY <1>1 DEF Callers
<1>5. c \in Chans /\ c \notin pool
  BY <1>1, <1>4, Constants
     DEF CoreInv, OwnerInv, Chans, TypeOK, CallerType
<1>6. /\ buf'[c] = Append(buf[c], r)
      /\ \A d \in Chans : d # c => buf'[d] = buf[d]
      /\ given'[p] = <<r>>
      /\ \A q \in Callers : q # p => given'[q] = given[q]
  BY <1>1, <1>3, <1>5 DEF Deliver, TypeOK, CallerType
<1>7. \A q \in Owners : /\ rs[q] \in PoolChans
                        /\ q # p => rs[q] # c
  BY <1>1, <1>4, Constants DEF CoreInv, OwnerInv
<1>8. ReachInv'
  <2> SUFFICES ASSUME NEW q \in Reach'
               PROVE  /\ pc'[q] \in {"waiting", "abandoned", "returned"}
                      /\ given'[q] = <<>>
                      /\ q \in SyncCallers => q \in Owners' /\ buf'[rs'[q]] = <<>>
    BY DEF ReachInv
  <2>1. q \in Reach /\ q # p /\ q \in Callers
    BY ReachFacts
  <2> QED
    BY <1>2, <1>6, <1>7, <2>1 DEF CoreInv, ReachInv, Chans
<1>9. OwnerInv'
  BY <1>2 DEF CoreInv, OwnerInv
<1>10. ChanInv'
  <2>1. \A d \in pool : buf'[d] = <<>>
    BY <1>5, <1>6 DEF CoreInv, ChanInv, TypeOK, CallerType, Chans
  <2>2. ASSUME NEW q \in Owners
        PROVE  /\ Len(buf'[rs[q]]) <= 1
               /\ buf'[rs[q]] # <<>> =>
                    /\ pc[q] # "sending"
                    /\ buf'[rs[q]][1].msg # NoMsg =>
                         q \in Requesters /\ buf'[rs[q]][1].msg = mid[q]
    <3>1. CASE q # p
      BY <1>6, <1>7, <2>2, <3>1 DEF CoreInv, ChanInv, Chans
    <3>2. CASE q = p
      <4>1. p \in SyncCallers /\ buf[c] = <<>>
        BY <1>3, <2>2, <3>2 DEF Owners
      <4>2. buf'[c] = <<r>>
        BY <1>6, <4>1
      <4>3. r.msg # NoMsg => p \in Requesters
        BY <4>1 DEF SyncCallers
      <4> QED
        BY <1>3, <3>2, <4>2, <4>3
    <3> QED
      BY <3>1, <3>2
  <2>3. Len(buf'[AppChan]) <= RecvCap
    <3>1. CASE c = AppChan
      <4>1. Len(buf[c]) < RecvCap /\ buf[c] \in Seq(Results)
        BY <1>5, <3>1 DEF HasRoom, Cap, TypeOK, CallerType
      <4>2. Len(buf'[c]) = Len(buf[c]) + 1
        BY <1>6, <4>1, AppendType
      <4> QED
        BY <3>1, <4>1, <4>2, Constants
    <3>2. CASE c # AppChan
      BY <1>6, <3>2 DEF CoreInv, ChanInv, Chans
    <3> QED
      BY <3>1, <3>2
  <2> QED
    BY <1>2, <2>1, <2>2, <2>3 DEF ChanInv
<1>11. GivenInv'
  <2> SUFFICES ASSUME NEW q \in Callers
               PROVE  /\ Len(given'[q]) <= 1
                      /\ pc[q] \in {"idle", "checked", "sending"} => given'[q] = <<>>
    BY DEF GivenInv
  <2>1. CASE q = p
    <3>1. given'[q] = <<r>> /\ pc[q] \in {"waiting", "abandoned", "returned"}
      BY <1>3, <1>6, <2>1
    <3>2. Len(<<r>>) = 1
      OBVIOUS
    <3> QED
      BY <3>1, <3>2
  <2>2. CASE q # p
    BY <1>6, <2>2 DEF CoreInv, GivenInv
  <2> QED
    BY <2>1, <2>2
<1>12. Correlated'
  BY DEF CoreInv, Correlated
<1> QED
  BY <1>8, <1>9, <1>10, <1>11, <1>12 DEF CoreInv

\* Steps that touch nothing the invariant is about.
LEMMA InvFrame ==
    ASSUME IInv, TypeOK', rpc' \in Looping => rpc \in Looping,
           UNCHANGED <<callerVars, resultVars, pool, calls, pending, retained>>
    PROVE  IInv'
<1> USE DEF callerVars, resultVars
<1>1. Reach' = Reach /\ Queued' = Queued
  BY DEF Reach, Queued
<1>2. CoreInv'
  BY <1>1, CoreShrinks DEF IInv
<1>3. QueueInv' /\ ReplyInv'
  BY <1>1 DEF IInv, QueueInv, ReplyInv
<1> QED
  BY <1>2, <1>3 DEF IInv

\* The supervisor, the reader, the writer and the remote; and stuttering.
LEMMA InvOthers ==
    ASSUME IInv, TypeOK',
           \/ Supervisor \/ Remote \/ AppClose \/ ReactorReadTimeout
           \/ \E p \in Callers : Cancel(p)
           \/ \E t \in IOThreads : IOStep(t) \/ IOFails(t)
           \/ UNCHANGED vars
    PROVE  IInv'
<1> USE DEF connVars, reactorVars, ioVars, supVars, callerVars, resultVars,
            peerVars, appVars, queueVars, vars
<1>1. UNCHANGED <<callerVars, resultVars, pool, calls, pending, retained>>
  <2>1. CASE Supervisor
    BY <2>1 DEF Supervisor, Start, NegotiateFails, Negotiated, SupervisorTakes,
                SupervisorJoins
  <2>2. CASE Remote
    BY <2>2 DEF Remote, ReadRequest, ReadHeartbeat, ReadAnswer, ReaderReads
  <2>3. CASE AppClose \/ ReactorReadTimeout \/ \E p \in Callers : Cancel(p)
    BY <2>3 DEF AppClose, ReactorReadTimeout, Cancel
  <2>4. CASE \E t \in IOThreads : IOStep(t) \/ IOFails(t)
    BY <2>4 DEF IOStep, IOStops, IORecovers, IOExits, IOFails, IOReturns,
                ReaderPuts, WriterTakes, WriterWrites
  <2> QED
    BY <2>1, <2>2, <2>3, <2>4
<1>2. rpc' \in Looping => rpc \in Looping
  BY DEF Looping, Supervisor, Start, NegotiateFails, Negotiated,
         SupervisorTakes, SupervisorJoins, Remote, ReadRequest, ReadHeartbeat,
         ReadAnswer, ReaderReads, AppClose, ReactorReadTimeout, Cancel, IOStep,
         IOStops, IORecovers, IOExits, IOFails, IOReturns, ReaderPuts,
         WriterTakes, WriterWrites
<1> QED
  BY <1>1, <1>2, InvFrame

\* The first of a queue of distinct calls leaves the set of queued ones.
LEMMA QueuedHead ==
    ASSUME calls \in Seq(Callers), calls # <<>>
    PROVE  Head(calls) \in Queued
<1>1. 1 \in DOMAIN calls /\ Head(calls) = calls[1]
  OBVIOUS
<1> QED
  BY <1>1 DEF Queued

\* ... and the rest stays queued, each once.
LEMMA QueuedTail ==
    ASSUME calls \in Seq(Callers), calls # <<>>, QueueInv, calls' = Tail(calls)
    PROVE  /\ Head(calls) \in Queued /\ Queued' = Queued \ {Head(calls)}
           /\ \A i, j \in DOMAIN calls' : calls'[i] = calls'[j] => i = j
<1>1. /\ Len(calls) \in Nat \ {0} /\ DOMAIN calls = 1 .. Len(calls)
      /\ DOMAIN calls' = 1 .. (Len(calls) - 1)
      /\ \A i \in DOMAIN calls' : calls'[i] = calls[i + 1]
      /\ Head(calls) = calls[1]
  OBVIOUS
<1>2. Head(calls) \in Queued
  BY <1>1 DEF Queued
<1>3. \A i, j \in DOMAIN calls' : calls'[i] = calls'[j] => i = j
  BY <1>1 DEF QueueInv
<1>4. Queued' \subseteq Queued \ {Head(calls)}
  BY <1>1 DEF Queued, QueueInv
<1>5. ASSUME NEW p \in Queued, p # Head(calls) PROVE p \in Queued'
  <2>1. PICK i \in DOMAIN calls : p = calls[i]
    BY <1>5 DEF Queued
  <2>2. i - 1 \in DOMAIN calls' /\ calls'[i - 1] = p
    BY <1>1, <1>5, <2>1
  <2> QED
    BY <2>2 DEF Queued
<1> QED
  BY <1>2, <1>3, <1>4, <1>5

\* A caller that is not queued is added to the end of the queue.
LEMMA QueuedAppend ==
    ASSUME calls \in Seq(Callers), NEW p \in Callers, p \notin Queued, QueueInv,
           calls' = Append(calls, p)
    PROVE  /\ Queued' = Queued \cup {p}
           /\ \A i, j \in DOMAIN calls' : calls'[i] = calls'[j] => i = j
<1>1. /\ Len(calls) \in Nat /\ DOMAIN calls = 1 .. Len(calls)
      /\ DOMAIN calls' = 1 .. (Len(calls) + 1)
      /\ \A i \in DOMAIN calls : calls'[i] = calls[i]
      /\ calls'[Len(calls) + 1] = p
  OBVIOUS
<1>2. \A i \in DOMAIN calls' : i = Len(calls) + 1 \/ i \in DOMAIN calls
  BY <1>1
<1>3. \A i \in DOMAIN calls : calls[i] # p
  BY DEF Queued
<1>4. \A i, j \in DOMAIN calls' : calls'[i] = calls'[j] => i = j
  BY <1>1, <1>2, <1>3 DEF QueueInv
<1>5. Queued' \subseteq Queued \cup {p}
  BY <1>1, <1>2 DEF Queued
<1>6. Queued \cup {p} \subseteq Queued'
  BY <1>1 DEF Queued
<1> QED
  BY <1>4, <1>5, <1>6

\* A caller's steps outside of the queue and the channels: it begins, or
\* returns or gives up with an error and without a message.
LEMMA InvCallerMoves ==
    ASSUME IInv, TypeOK', NEW p \in Callers,
           \/ Begin(p) \/ Refused(p) \/ SendPanics(p) \/ WaitCancelled(p)
           \/ SendStopped(p) \/ SendCancelled(p)
    PROVE  IInv'
<1> USE DEF connVars, reactorVars, ioVars, supVars, callerVars, resultVars,
            peerVars, appVars, queueVars
<1> DEFINE Move ==
      \/ pc[p] = "idle" /\ pc'[p] \in {"checked", "returned"}
      \/ pc[p] = "sending" /\ pc'[p] \in {"unsent", "returned", "panicked"}
      \/ pc[p] = "unsent" /\ pc'[p] = "returned"
      \/ pc[p] = "waiting" /\ pc'[p] = "abandoned"
<1>1. /\ Move /\ (\A q \in Callers : q # p => pc'[q] = pc[q])
      /\ pc'[p] = "returned" => ret'[p].msg = NoMsg
      /\ \A q \in Callers : q # p => ret'[q] = ret[q] /\ to'[q] = to[q]
      /\ UNCHANGED <<mid, rs, resultVars, pool, calls, pending, retained, rpc>>
  <2> USE DEF IInv, TypeOK, CallerType, Failure
  <2>1. CASE Begin(p) \/ Refused(p) \/ SendPanics(p)
    BY <2>1 DEF Begin, Refused, SendPanics
  <2>2. CASE WaitCancelled(p)
    BY <2>2 DEF WaitCancelled
  <2>3. ASSUME NEW e, SendGivesUp(p, e)
        PROVE  /\ Move /\ (\A q \in Callers : q # p => pc'[q] = pc[q])
               /\ pc'[p] = "returned" => ret'[p].msg = NoMsg
               /\ \A q \in Callers : q # p => ret'[q] = ret[q] /\ to'[q] = to[q]
               /\ UNCHANGED <<mid, rs, resultVars, pool, calls, pending, retained, rpc>>
    <3>1. CASE e = Nil
      BY <2>3, <3>1 DEF SendGivesUp
    <3>2. CASE e # Nil
      BY <2>3, <3>2 DEF SendGivesUp
    <3> QED
      BY <3>1, <3>2
  <2> QED
    BY <2>1, <2>2, <2>3 DEF SendStopped, SendCancelled
<1>2. p \in Repliers => /\ pc'[p] = "checked" => to'[p] # NoMsg
                        /\ pc[p] # "idle" => to'[p] = to[p]
  BY DEF Begin, Refused, SendPanics, WaitCancelled, SendStopped, SendCancelled,
         SendGivesUp, ReplyTarget, IInv, TypeOK, CallerType, ReplyInv
<1>3. Reach' = Reach /\ Queued' = Queued
  BY <1>1 DEF Reach, Queued
<1>4. Owners' \subseteq Owners /\ (p \in Owners' <=> p \in Owners /\ pc[p] = "waiting")
  BY <1>1 DEF Owners, Callers
<1>5. pc[p] \in {"idle", "sending", "unsent"} => p \notin Reach
  BY DEF IInv, CoreInv, ReachInv
<1>6. ReachInv'
  <2> SUFFICES ASSUME NEW q \in Reach'
               PROVE  /\ pc'[q] \in {"waiting", "abandoned", "returned"}
                      /\ given'[q] = <<>>
                      /\ q \in SyncCallers => q \in Owners' /\ buf'[rs'[q]] = <<>>
    BY DEF ReachInv
  <2>1. q \in Reach /\ q \in Callers
    BY <1>3, ReachFacts DEF IInv
  <2>2. CASE q = p
    BY <1>1, <1>4, <1>5, <2>1, <2>2 DEF IInv, CoreInv, ReachInv
  <2>3. CASE q # p
    BY <1>1, <2>1, <2>3 DEF IInv, CoreInv, ReachInv, Owners
  <2> QED
    BY <2>2, <2>3
<1>7. OwnerInv'
  BY <1>1, <1>3, <1>4 DEF IInv, CoreInv, OwnerInv, Callers
<1>8. ChanInv'
  BY <1>1, <1>4 DEF IInv, CoreInv, ChanInv, Owners, Callers
<1>9. GivenInv'
  BY <1>1 DEF IInv, CoreInv, GivenInv
<1>10. Correlated'
  BY <1>1 DEF IInv, CoreInv, Correlated, Callers
<1>11. QueueInv'
  BY <1>1, <1>3 DEF IInv, QueueInv
<1>12. ReplyInv'
  BY <1>1, <1>2 DEF IInv, ReplyInv, Callers, SyncCallers
<1> QED
  BY <1>6, <1>7, <1>8, <1>9, <1>10, <1>11, <1>12 DEF IInv, CoreInv

\* A caller takes a channel from the pool: nobody's, and empty.
LEMMA InvEnterSend ==
    ASSUME IInv, TypeOK', NEW p \in Callers, EnterSend(p)
    PROVE  IInv'
<1> USE DEF connVars, reactorVars, ioVars, supVars, callerVars, resultVars,
            peerVars, appVars, queueVars
<1>1. PICK c \in ReceiverOf(p) : rs' = [rs EXCEPT ![p] = c] /\ pool' = pool \ {c}
  BY DEF EnterSend
<1>2. /\ pc[p] = "checked" /\ pc'[p] = "sending" /\ rs'[p] = c
      /\ \A q \in Callers : q # p => /\ pc'[q] = pc[q] /\ rs'[q] = rs[q]
                                     /\ mid'[q] = mid[q]
      /\ UNCHANGED <<to, ret, resultVars, calls, pending, retained, rpc>>
  BY <1>1 DEF EnterSend, IInv, TypeOK, CallerType
<1>3. p \notin Reach /\ p \notin Owners /\ Reach' = Reach /\ Queued' = Queued
  BY <1>2 DEF IInv, CoreInv, ReachInv, Reach, Queued, Owners
<1>4. /\ p \in SyncCallers => c \in pool
      /\ p \in Senders => c = AppChan
  BY <1>1, Constants DEF ReceiverOf
<1>5. /\ Owners' \subseteq Owners \cup {p} /\ Owners \subseteq Owners'
      /\ p \in Owners' => p \in SyncCallers
  BY <1>2, <1>3 DEF Owners, Callers
<1>6. ReachInv'
  BY <1>2, <1>3, <1>5, ReachFacts DEF IInv, CoreInv, ReachInv
<1>7. OwnerInv'
  <2>1. \A q \in Owners' : rs'[q] \in PoolChans \ pool'
    BY <1>1, <1>2, <1>4, <1>5
       DEF IInv, CoreInv, OwnerInv, TypeOK, CallerType, Owners, Callers
  <2>2. ASSUME NEW q \in Owners', NEW r \in Owners', rs'[q] = rs'[r] PROVE q = r
    BY <1>2, <1>3, <1>4, <1>5, <2>2 DEF IInv, CoreInv, OwnerInv, Owners, Callers
  <2>3. \A q \in Senders : q \in Reach' \/ pc'[q] = "sending" => rs'[q] = AppChan
    BY <1>2, <1>3, <1>4 DEF IInv, CoreInv, OwnerInv, Callers
  <2> QED
    BY <2>1, <2>2, <2>3 DEF OwnerInv
<1>8. ChanInv'
  <2>1. /\ \A d \in pool' : buf'[d] = <<>>
        /\ Len(buf'[AppChan]) <= RecvCap
    BY <1>1, <1>2 DEF IInv, CoreInv, ChanInv
  <2>2. p \in SyncCallers => buf'[rs'[p]] = <<>>
    BY <1>2, <1>4 DEF IInv, CoreInv, ChanInv
  <2>3. \A q \in Owners : rs'[q] = rs[q] /\ mid'[q] = mid[q] /\ pc'[q] = pc[q]
    BY <1>2, <1>3 DEF Owners, Callers
  <2> QED
    BY <1>2, <1>5, <2>1, <2>2, <2>3 DEF IInv, CoreInv, ChanInv
<1>9. GivenInv' /\ Correlated'
  BY <1>2 DEF IInv, CoreInv, GivenInv, Correlated, Callers
<1>10. QueueInv' /\ ReplyInv'
  BY <1>2, <1>3 DEF IInv, QueueInv, ReplyInv, Callers, SyncCallers
<1> QED
  BY <1>6, <1>7, <1>8, <1>9, <1>10 DEF IInv, CoreInv

\* A caller's call is queued: its channel is empty and it was not queued before.
LEMMA InvSendEnqueues ==
    ASSUME IInv, TypeOK', NEW p \in Callers, SendEnqueues(p)
    PROVE  IInv'
<1> USE DEF connVars, reactorVars, ioVars, supVars, callerVars, resultVars,
            peerVars, appVars, queueVars
<1>1. /\ pc[p] = "sending" /\ calls' = Append(calls, p)
      /\ IF p \in Senders THEN pc'[p] = "returned" /\ ret'[p].msg = NoMsg
                          ELSE pc'[p] = "waiting" /\ ret'[p] = ret[p]
      /\ \A q \in Callers : q # p => pc'[q] = pc[q] /\ ret'[q] = ret[q]
      /\ UNCHANGED <<mid, to, rs, resultVars, pool, pending, retained, rpc>>
  BY DEF SendEnqueues, Failure, IInv, TypeOK, CallerType
<1>2. p \notin Reach
  BY <1>1 DEF IInv, CoreInv, ReachInv
<1>3. /\ Queued' = Queued \cup {p}
      /\ \A i, j \in DOMAIN calls' : calls'[i] = calls'[j] => i = j
  BY <1>1, <1>2, QueuedAppend DEF IInv, TypeOK, QueueType, Reach
<1>4. Reach' = Reach \cup {p}
  BY <1>1, <1>3 DEF Reach
<1>5. Owners' = Owners /\ (p \in SyncCallers => p \in Owners)
  BY <1>1, Constants DEF Owners, Callers
<1>6. given[p] = <<>> /\ (p \in SyncCallers => buf[rs[p]] = <<>>)
  BY <1>1, <1>5 DEF IInv, CoreInv, GivenInv, ChanInv
<1>7. ReachInv'
  BY <1>1, <1>4, <1>5, <1>6, ReachFacts DEF IInv, CoreInv, ReachInv
<1>8. OwnerInv'
  BY <1>1, <1>4, <1>5, Constants DEF IInv, CoreInv, OwnerInv, Callers
<1>9. ChanInv'
  BY <1>1, <1>5, <1>6 DEF IInv, CoreInv, ChanInv, Owners, Callers
<1>10. GivenInv' /\ Correlated'
  BY <1>1, <1>6, Constants DEF IInv, CoreInv, GivenInv, Correlated, Callers
<1>11. QueueInv'
  BY <1>1, <1>2, <1>3 DEF IInv, QueueInv, Reach
<1>12. ReplyInv'
  BY <1>1, Constants DEF IInv, ReplyInv, Callers, SyncCallers
<1> QED
  BY <1>7, <1>8, <1>9, <1>10, <1>11, <1>12 DEF IInv, CoreInv

\* A caller takes its result and gives the emptied channel back: the reactor can
\* no longer reach the call.
LEMMA InvWaitResult ==
    ASSUME IInv, TypeOK', NEW p \in Callers, WaitResult(p)
    PROVE  IInv'
<1> USE DEF connVars, reactorVars, ioVars, supVars, callerVars, resultVars,
            peerVars, appVars, queueVars
<1> DEFINE c == rs[p]
<1>1. p \in SyncCallers /\ p \in Owners /\ c \in PoolChans /\ c \in Chans /\ c # AppChan
  BY Constants
     DEF WaitResult, IInv, TypeOK, CallerType, Callers, Owners, Chans
<1>2. /\ pc[p] = "waiting" /\ buf[c] # <<>> /\ pc'[p] = "returned"
      /\ ret'[p] = Head(buf[c]) /\ buf'[c] = Tail(buf[c])
      /\ pool' = pool \cup {c}
      /\ \A q \in Callers : q # p => pc'[q] = pc[q] /\ ret'[q] = ret[q]
      /\ \A d \in Chans : d # c => buf'[d] = buf[d]
      /\ UNCHANGED <<mid, to, rs, given, calls, pending, retained, rpc>>
  BY <1>1 DEF WaitResult, IInv, TypeOK, CallerType
<1>3. Reach' = Reach /\ Queued' = Queued /\ p \notin Reach
  BY <1>1, <1>2 DEF IInv, CoreInv, ReachInv, Reach, Queued
<1>4. Owners' = Owners \ {p}
  BY <1>1, <1>2 DEF Owners, Callers
<1>5. \A q \in Owners' : rs[q] # c /\ rs[q] \in Chans /\ pc'[q] = pc[q]
  BY <1>1, <1>2, <1>4 DEF IInv, CoreInv, OwnerInv, Chans, Owners, Callers
<1>6. /\ buf'[c] = <<>>
      /\ ret'[p].msg # NoMsg => p \in Requesters /\ ret'[p].msg = mid[p]
  <2>1. buf[c] \in Seq(Results) /\ Len(buf[c]) <= 1
    BY <1>1 DEF IInv, CoreInv, ChanInv, TypeOK, CallerType
  <2>2. Tail(buf[c]) = <<>> /\ Head(buf[c]) = buf[c][1]
    BY <1>2, <2>1, OneElement
  <2> QED
    BY <1>1, <1>2, <2>2 DEF IInv, CoreInv, ChanInv
<1>7. ReachInv'
  <2> SUFFICES ASSUME NEW q \in Reach
               PROVE  /\ pc'[q] \in {"waiting", "abandoned", "returned"}
                      /\ given[q] = <<>>
                      /\ q \in SyncCallers => q \in Owners' /\ buf'[rs[q]] = <<>>
    BY <1>2, <1>3 DEF ReachInv
  <2> QED
    BY <1>2, <1>3, <1>4, <1>5, ReachFacts DEF IInv, CoreInv, ReachInv
<1>8. OwnerInv'
  BY <1>2, <1>3, <1>4, <1>5 DEF IInv, CoreInv, OwnerInv, Callers
<1>9. ChanInv'
  <2>1. \A d \in pool' : buf'[d] = <<>>
    BY <1>2, <1>6 DEF IInv, CoreInv, ChanInv, TypeOK, CallerType, Chans
  <2>2. Len(buf'[AppChan]) <= RecvCap
    BY <1>1, <1>2 DEF IInv, CoreInv, ChanInv, Chans
  <2> QED
    BY <1>2, <1>4, <1>5, <2>1, <2>2 DEF IInv, CoreInv, ChanInv
<1>10. GivenInv' /\ Correlated'
  BY <1>2, <1>6 DEF IInv, CoreInv, GivenInv, Correlated, Callers
<1>11. QueueInv' /\ ReplyInv'
  BY <1>2, <1>3 DEF IInv, QueueInv, ReplyInv, Callers, SyncCallers
<1> QED
  BY <1>7, <1>8, <1>9, <1>10, <1>11 DEF IInv, CoreInv

\* The application empties its own channel, which belongs to no owner.
LEMMA InvAppReceive ==
    ASSUME IInv, TypeOK', AppReceive
    PROVE  IInv'
<1> USE DEF connVars, reactorVars, ioVars, supVars, callerVars, resultVars,
            peerVars, appVars, queueVars
<1>1. /\ \A d \in Chans : d # AppChan => buf'[d] = buf[d]
      /\ UNCHANGED <<callerVars, given, pool, calls, pending, retained, rpc>>
  BY DEF AppReceive, IInv, TypeOK, CallerType
<1>2. Reach' = Reach /\ Queued' = Queued /\ Owners' = Owners
  BY <1>1 DEF Reach, Queued, Owners
<1>3. \A q \in Owners : rs[q] \in Chans /\ rs[q] # AppChan
  BY Constants DEF IInv, CoreInv, OwnerInv, Chans
<1>4. ReachInv' /\ OwnerInv'
  BY <1>1, <1>2, <1>3 DEF IInv, CoreInv, ReachInv, OwnerInv
<1>5. Len(buf'[AppChan]) <= RecvCap
  <2>1. buf[AppChan] \in Seq(Results) /\ Len(buf[AppChan]) <= RecvCap
    BY DEF IInv, CoreInv, ChanInv, TypeOK, CallerType, Chans
  <2>2. buf'[AppChan] = Tail(buf[AppChan]) /\ buf[AppChan] # <<>>
    BY DEF AppReceive, IInv, TypeOK, CallerType, Chans
  <2> QED
    BY <2>1, <2>2, TailType, Constants
<1>6. ChanInv'
  BY <1>1, <1>2, <1>3, <1>5, Constants
     DEF IInv, CoreInv, ChanInv, TypeOK, CallerType, Chans
<1>7. GivenInv' /\ Correlated' /\ QueueInv' /\ ReplyInv'
  BY <1>1, <1>2 DEF IInv, CoreInv, GivenInv, Correlated, QueueInv, ReplyInv
<1> QED
  BY <1>4, <1>6, <1>7 DEF IInv, CoreInv

\* The reactor resolves a call with a result, if its receiver has room.
LEMMA CoreResolves ==
    ASSUME IInv, NEW p \in Reach, NEW r \in Results,
           r.msg # NoMsg => p \notin Repliers /\ r.msg = mid[p],
           (HasRoom(p) /\ Deliver(p, r)) \/ UNCHANGED resultVars,
           Reach' \subseteq Reach \ {p}, UNCHANGED <<callerVars, pool>>
    PROVE  CoreInv'
<1>1. CASE HasRoom(p) /\ Deliver(p, r)
  BY <1>1, CoreDelivers DEF IInv
<1>2. CASE UNCHANGED resultVars
  BY <1>2, CoreShrinks DEF IInv
<1> QED
  BY <1>1, <1>2

\* Taking calls out of the reactor's map.
LEMMA PendingShrinks ==
    ASSUME IInv, NEW p \in pending, pending' = pending \ {p},
           UNCHANGED <<callerVars, calls, retained>>, rpc' \in Looping => rpc \in Looping
    PROVE  Reach' \subseteq Reach \ {p} /\ QueueInv' /\ ReplyInv'
BY DEF Reach, Queued, IInv, QueueInv, ReplyInv, callerVars

\* The cases of the select that leave calls, map and channels alone.
LEMMA InvReactorFrame ==
    ASSUME IInv, TypeOK',
           \/ ReactorUnexpected \/ ReactorHeartbeat \/ ReactorEmits \/ ReactorStops
           \/ \E S \in SUBSET pending : CleanupTick(S)
           \/ ShutdownStores \/ ShutdownCloses \/ ShutdownWaits \/ ShutdownStops
           \/ ReactorExits
    PROVE  IInv'
<1> USE DEF connVars, reactorVars, ioVars, supVars, callerVars, resultVars,
            peerVars, appVars, queueVars, envelopeIn
<1>1. UNCHANGED <<callerVars, resultVars, pool, calls, pending, retained>>
  BY DEF ReactorUnexpected, ReactorHeartbeat, ReactorEmits, ReactorStops,
         CleanupTick, ShutdownStores, ShutdownCloses, ShutdownWaits,
         ShutdownStops, ReactorExits
<1>2. rpc' \in Looping => rpc \in Looping
  BY DEF Looping, ReactorReturns, ReactorUnexpected, ReactorHeartbeat,
         ReactorEmits, ReactorStops, CleanupTick, ShutdownStores,
         ShutdownCloses, ShutdownWaits, ShutdownStops, ReactorExits
<1> QED
  BY <1>1, <1>2, InvFrame

\* An answer resolves the call whose ID it has; no Reply is in the map.
LEMMA InvReactorAnswer ==
    ASSUME IInv, TypeOK', ReactorAnswer
    PROVE  IInv'
<1> USE DEF envelopeIn, appVars
<1> DEFINE m == Head(incoming).replyTo
<1>1. PICK p \in pending : /\ mid[p] = m /\ pending' = pending \ {p}
                          /\ DeliverOrFail(p, Answer(m), "select")
  BY DEF ReactorAnswer, WithID
<1>2. p \in Reach /\ p \notin Repliers
  BY DEF ReactorAnswer, IInv, ReplyInv, Looping, Reach
<1>3. Reach' \subseteq Reach \ {p} /\ QueueInv' /\ ReplyInv'
  BY <1>1, PendingShrinks DEF ReactorAnswer, Looping
<1>4. Answer(m) \in Results /\ Answer(m).msg = m
  BY <1>1, ResultTypes, Constants DEF Answer, IInv, TypeOK, CallerType, ReactorType
<1>5. CoreInv'
  BY <1>1, <1>2, <1>3, <1>4, CoreResolves DEF ReactorAnswer, DeliverOrFail
<1> QED
  BY <1>3, <1>5 DEF IInv

\* The reactor handles a request of the remote: no call is concerned.
LEMMA InvReactorHandles ==
    ASSUME IInv, TypeOK', ReactorHandles
    PROVE  IInv'
<1> USE DEF connVars, reactorVars, ioVars, supVars, callerVars, resultVars,
            peerVars, appVars, queueVars
<1>1. /\ UNCHANGED <<callerVars, resultVars, pool, calls, pending>>
      /\ rpc \in Looping
  BY DEF ReactorHandles, Looping
<1>2. Reach' = Reach /\ Queued' = Queued
  BY <1>1 DEF Reach, Queued
<1>3. CoreInv'
  BY <1>1, <1>2, CoreShrinks DEF IInv
<1>4. Head(incoming) \in Envelopes
  BY TailType DEF ReactorHandles, IInv, TypeOK, QueueType
<1>5. Head(incoming).id # NoMsg
  BY <1>4 DEF ReactorHandles, Envelopes, NoEnv
<1>6. QueueInv' /\ ReplyInv'
  BY <1>1, <1>2, <1>5 DEF ReactorHandles, IInv, QueueInv, ReplyInv
<1> QED
  BY <1>3, <1>6 DEF IInv

\* A call moves from the queue to the map, or is resolved.
LEMMA InvReactorCall ==
    ASSUME IInv, TypeOK', ReactorCall
    PROVE  IInv'
<1> USE DEF connVars, ioVars, supVars, callerVars, peerVars, appVars
<1> DEFINE p == Head(calls)
<1>1. /\ rpc = "select" /\ calls # <<>> /\ calls' = Tail(calls)
      /\ calls \in Seq(Callers)
      /\ UNCHANGED <<callerVars, pool, retained>>
  BY DEF ReactorCall, IInv, TypeOK, QueueType
<1>2. /\ p \in Queued /\ Queued' = Queued \ {p}
      /\ \A i, j \in DOMAIN calls' : calls'[i] = calls'[j] => i = j
  BY <1>1, QueuedTail DEF IInv
<1>3. p \in Reach /\ p \notin pending
  BY <1>2 DEF Reach, IInv, QueueInv
<1>4. /\ Registered(p) \subseteq pending \cup {p}
      /\ to[p] # NoMsg => Registered(p) = pending
      /\ p \in Registered(p) => p \in WithID(Registered(p), mid[p])
  BY DEF Registered, AddCall, WithID
<1>5. pending' \subseteq Registered(p)
  BY DEF ReactorCall
<1>6. Reach' \subseteq Reach
  BY <1>2, <1>4, <1>5 DEF Reach
<1>7. CoreInv'
  <2>1. CASE UNCHANGED resultVars
    BY <1>1, <1>6, <2>1, CoreShrinks DEF IInv
  <2>2. ASSUME NEW e \in Errors, DeliverOrFail(p, Failure(e), "emit"), p \notin pending'
        PROVE  CoreInv'
    <3>1. Failure(e) \in Results /\ Failure(e).msg = NoMsg
      BY ResultTypes DEF Failure
    <3>2. Reach' \subseteq Reach \ {p}
      BY <1>2, <1>6, <2>2 DEF Reach
    <3> QED
      BY <1>1, <1>3, <2>2, <3>1, <3>2, CoreResolves DEF DeliverOrFail
  <2>3. CASE p \in Unmapped \ FailedReplies
    BY <1>4, <2>2, <2>3 DEF ReactorCall, Errors
  <2>4. CASE p \notin Unmapped \cup FailedReplies /\ to[p] # NoMsg
    BY <1>3, <1>4, <2>2, <2>4 DEF ReactorCall, Errors
  <2> QED
    BY <2>1, <2>3, <2>4 DEF ReactorCall
<1>8. QueueInv'
  BY <1>2, <1>4, <1>5 DEF IInv, QueueInv
<1>9. p \in Repliers => to[p] # NoMsg
  BY <1>3 DEF IInv, CoreInv, ReachInv, ReplyInv, SyncCallers, Owners
<1>10. ReplyInv'
  BY <1>1, <1>4, <1>5, <1>9 DEF IInv, ReplyInv, Looping
<1> QED
  BY <1>7, <1>8, <1>10 DEF IInv

\* An expired call leaves the map with a timeout, if its receiver has room.
LEMMA InvCleanupCall ==
    ASSUME IInv, TypeOK', NEW p \in due, CleanupCall(p)
    PROVE  IInv'
<1> USE DEF connVars, ioVars, supVars, callerVars, peerVars, appVars, queueVars
<1>1. p \in pending /\ p \in Reach
  BY DEF IInv, TypeOK, ReactorType, Reach
<1>2. Reach' \subseteq Reach \ {p} /\ QueueInv' /\ ReplyInv'
  BY <1>1, PendingShrinks DEF CleanupCall, Looping
<1>3. Failure("responseTimeout") \in Results /\ Failure("responseTimeout").msg = NoMsg
  BY ResultTypes DEF Failure, Errors
<1>4. CoreInv'
  BY <1>1, <1>2, <1>3, CoreResolves DEF CleanupCall, DeliverOrFail
<1> QED
  BY <1>2, <1>4 DEF IInv

\* What was queued joins the map, which the reporting loop then empties.
LEMMA InvShutdownDrains ==
    ASSUME IInv, TypeOK', ShutdownDrains
    PROVE  IInv'
<1> USE DEF connVars, ioVars, supVars, callerVars, resultVars, peerVars, appVars
<1>1. /\ pending' = Drained /\ calls' = <<>> /\ rpc' = "sdReport"
      /\ UNCHANGED <<callerVars, resultVars, pool, retained>>
  BY DEF ShutdownDrains
<1>2. Queued' = {}
  BY <1>1 DEF Queued
<1>3. Reach' \subseteq Reach
  BY <1>1, <1>2 DEF Reach, Drained
<1>4. CoreInv'
  BY <1>1, <1>3, CoreShrinks DEF IInv
<1>5. QueueInv' /\ ReplyInv'
  BY <1>1, <1>2 DEF IInv, QueueInv, ReplyInv, Looping
<1> QED
  BY <1>4, <1>5 DEF IInv

\* A pending call leaves the map with the shutdown's error, or with none.
LEMMA InvShutdownReports ==
    ASSUME IInv, TypeOK', NEW p \in pending, ShutdownReports(p)
    PROVE  IInv'
<1> USE DEF connVars, ioVars, supVars, callerVars, peerVars, appVars, queueVars
<1> DEFINE e == IF rerr = Nil THEN "connShutdown" ELSE rerr
<1>1. p \in Reach
  BY DEF Reach
<1>2. Reach' \subseteq Reach \ {p} /\ QueueInv' /\ ReplyInv'
  BY PendingShrinks DEF ShutdownReports
<1>3. Failure(e) \in Results /\ Failure(e).msg = NoMsg
  BY ResultTypes DEF Failure, Errors, IInv, TypeOK, ReactorType
<1>4. CoreInv'
  BY <1>1, <1>2, <1>3, CoreResolves DEF ShutdownReports
<1> QED
  BY <1>2, <1>4 DEF IInv

\* Every step preserves the invariant.
LEMMA InvNext == IInv /\ [Next]_vars => IInv'
<1> SUFFICES ASSUME IInv, [Next]_vars PROVE IInv'
  OBVIOUS
<1>1. TypeOK'
  BY TypeNext DEF IInv
<1>2. CASE Supervisor \/ Remote \/ ReactorReadTimeout \/ UNCHANGED vars
           \/ \E t \in IOThreads : IOStep(t) \/ IOFails(t)
  BY <1>1, <1>2, InvOthers
<1>3. CASE Application
  BY <1>1, <1>3, InvOthers, InvAppReceive, InvCallerMoves DEF Application
<1>4. ASSUME NEW p \in Callers, CallerStep(p) PROVE IInv'
  BY <1>1, <1>4, InvCallerMoves, InvEnterSend, InvSendEnqueues, InvWaitResult
     DEF CallerStep
<1>5. CASE ReactorLoop
  BY <1>1, <1>5, InvReactorFrame, InvReactorAnswer, InvReactorHandles,
     InvReactorCall, InvCleanupCall DEF ReactorLoop
<1>6. CASE ReactorShutdown
  BY <1>1, <1>6, InvReactorFrame, InvShutdownDrains, InvShutdownReports
     DEF ReactorShutdown
<1> QED
  BY <1>2, <1>3, <1>4, <1>5, <1>6 DEF Next, Terminated

\* The inductive invariant holds, for every value of the constants.
THEOREM Invariance == Spec => []IInv
<1>1. Init => IInv
  BY TypeInit, InvInit DEF IInv
<1>2. IInv /\ [Next]_vars => IInv'
  BY InvNext
<1> QED
  BY <1>1, <1>2, PTL DEF Spec

----------------------------------------------------------------------------
(* What the invariant implies *)

\* A channel in resultPool is empty and out of the reactor's reach: sendResult
\* may put a channel back once it has received from it, and only then.
THEOREM PoolCleanAlways == Spec => []PoolClean
<1>1. IInv => PoolClean
  <2> SUFFICES ASSUME IInv, NEW c \in pool
               PROVE  buf[c] = <<>> /\ \A p \in Reach : rs[p] # c
    BY DEF PoolClean
  <2>1. buf[c] = <<>> /\ c \in PoolChans
    BY DEF IInv, CoreInv, ChanInv, TypeOK, CallerType
  <2>2. ASSUME NEW p \in Reach PROVE rs[p] # c
    BY <2>1, ReachFacts, Constants DEF IInv, CoreInv, OwnerInv, Callers
  <2> QED
    BY <2>1, <2>2
<1> QED
  BY <1>1, Invariance, PTL

\* A Request that returns a message returns the answer to its own message.
THEOREM CorrelatedAlways == Spec => []Correlated
<1>1. IInv => Correlated
  BY DEF IInv, CoreInv
<1> QED
  BY <1>1, Invariance, PTL

\* A call gets one result at most: an answer, a timeout or the shutdown.
THEOREM AtMostOneResultAlways == Spec => []AtMostOneResult
<1>1. IInv => AtMostOneResult
  BY DEF IInv, CoreInv, GivenInv, AtMostOneResult
<1> QED
  BY <1>1, Invariance, PTL

\* The connection is terminated for a blocked receiver only when the channel the
\* application gave to Send is full: a channel of the pool always has room.
THEOREM OnlyAppReceiverBlocksAlways == Spec => OnlyAppReceiverBlocks
<1> DEFINE Blocks == rerr # "receiverBlocked" /\ rerr' = "receiverBlocked"
<1>1. ASSUME IInv, NEW p \in Reach, ~HasRoom(p) PROVE Len(buf[AppChan]) = RecvCap
  <2>1. p \in Senders /\ rs[p] = AppChan
    BY <1>1, ReachFacts DEF IInv, Callers
  <2>2. Len(buf[AppChan]) \in Nat /\ Len(buf[AppChan]) <= RecvCap
    BY <1>1 DEF IInv, CoreInv, ChanInv, TypeOK, CallerType, Chans
  <2> QED
    BY <1>1, <2>1, <2>2, Constants DEF HasRoom, Cap
<1>2. ASSUME IInv, Next, Blocks PROVE \E p \in Reach : ~HasRoom(p)
  <2> USE DEF connVars, reactorVars, ioVars, supVars, callerVars, resultVars,
              peerVars, appVars, queueVars, envelopeIn
  <2>1. ASSUME NEW p, NEW r, NEW next, DeliverOrFail(p, r, next) PROVE ~HasRoom(p)
    BY <1>2, <2>1 DEF DeliverOrFail
  <2>2. CASE ReactorAnswer
    BY <2>1, <2>2 DEF ReactorAnswer, WithID, Reach
  <2>3. CASE ReactorCall
    <3>1. Head(calls) \in Reach
      BY <1>2, <2>3, QueuedHead
         DEF ReactorCall, IInv, TypeOK, QueueType, Reach
    <3> QED
      BY <1>2, <2>1, <2>3, <3>1 DEF ReactorCall, ReactorReturns
  <2>4. CASE \E p \in due : CleanupCall(p)
    BY <1>2, <2>1, <2>4 DEF CleanupCall, IInv, TypeOK, ReactorType, Reach
  <2>5. ~(\/ Supervisor \/ Application \/ Remote \/ Terminated
          \/ \E p \in Callers : CallerStep(p)
          \/ \E t \in IOThreads : IOStep(t) \/ IOFails(t))
    <3>1. Supervisor \/ Application \/ Terminated => rerr' = rerr
      BY DEF Supervisor, Start, NegotiateFails, Negotiated, SupervisorTakes,
             SupervisorJoins, Application, AppClose, AppReceive, Cancel, Begin,
             Terminated, vars
    <3>2. (\E p \in Callers : CallerStep(p)) => rerr' = rerr
      BY DEF CallerStep, Refused, EnterSend, SendEnqueues, SendPanics,
             SendStopped, SendCancelled, SendGivesUp, WaitResult, WaitCancelled
    <3>3. Remote \/ (\E t \in IOThreads : IOStep(t) \/ IOFails(t)) => rerr' = rerr
      BY DEF Remote, ReadRequest, ReadHeartbeat, ReadAnswer, ReaderReads,
             IOStep, IOStops, IORecovers, IOExits, IOFails, IOReturns,
             ReaderPuts, WriterTakes, WriterWrites
    <3> QED
      BY <1>2, <3>1, <3>2, <3>3
  <2>6. ~(\/ ReactorUnexpected \/ ReactorHandles \/ ReactorHeartbeat
          \/ ReactorEmits \/ ReactorStops \/ ReactorReadTimeout
          \/ (\E S \in SUBSET pending : CleanupTick(S)))
    BY <1>2 DEF ReactorUnexpected, ReactorHandles, ReactorHeartbeat,
       ReactorEmits, ReactorStops, ReactorReadTimeout, CleanupTick,
       ReactorReturns, Nil
  <2>7. ~ReactorShutdown
    BY <1>2 DEF ReactorShutdown, ShutdownStores, ShutdownCloses, ShutdownWaits,
       ShutdownDrains, ShutdownReports, ShutdownStops, ReactorExits, Nil
  <2> QED
    BY <1>2, <2>2, <2>3, <2>4, <2>5, <2>6, <2>7 DEF Next, ReactorLoop
<1>3. IInv /\ [Next]_vars => [Blocks => Len(buf[AppChan]) = RecvCap]_vars
  BY <1>1, <1>2
<1> QED
  BY <1>3, Invariance, PTL DEF Spec, OnlyAppReceiverBlocks

=============================================================================
