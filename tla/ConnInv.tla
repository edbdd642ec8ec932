------------------------------ MODULE ConnInv -------------------------------
(***************************************************************************)
(* The inductive invariant behind the safety properties of Conn.  The      *)
(* first half, IInv, is about the receiver channels: who may send to a     *)
(* channel, who may receive from it and what is in it.  The second half is *)
(* about the calls: their envelopes and IDs, what became of them, and the  *)
(* stages in which the connection halts.                                   *)
(***************************************************************************)
EXTENDS Conn

\* The invocations that own a channel of the pool.  An abandoned call (its
\* context was cancelled) keeps its channel for ever.
Owners == {p \in SyncCallers : pc[p] \in {"sending", "waiting", "abandoned"}}

\* A call the reactor can reach was sent and has no result; the channel of a
\* Request or Reply is still its caller's, and empty.
ReachInv ==
    \A p \in Reach :
        /\ pc[p] \in {"waiting", "abandoned", "returned"}
        /\ given[p] = <<>>
        /\ p \in SyncCallers => p \in Owners /\ buf[rs[p]] = <<>>

\* Owners have channels of the pool, each its own, and none that is pooled.
OwnerInv ==
    /\ \A p \in Owners : rs[p] \in PoolChans \ pool
    /\ \A p, q \in Owners : rs[p] = rs[q] => p = q
    /\ \A p \in Senders : p \in Reach \/ pc[p] = "sending" => rs[p] = AppChan

\* What is in a channel: nothing if it is pooled; at most one result of its
\* owner, and that only once its call was sent.
ChanInv ==
    /\ \A c \in pool : buf[c] = <<>>
    /\ \A p \in Owners :
         /\ Len(buf[rs[p]]) <= 1
         /\ buf[rs[p]] # <<>> =>
              /\ pc[p] # "sending"
              /\ buf[rs[p]][1].msg # NoMsg =>
                   p \in Requesters /\ buf[rs[p]][1].msg = mid[p]
    /\ Len(buf[AppChan]) <= RecvCap

\* A caller is queued once at most, and not queued while it is pending.
QueueInv ==
    /\ \A i, j \in DOMAIN calls : calls[i] = calls[j] => i = j
    /\ Queued \cap pending = {}

\* Before it was sent a call has no result; afterwards at most one.
GivenInv ==
    \A p \in Callers :
        /\ Len(given[p]) <= 1
        /\ pc[p] \in {"idle", "checked", "sending"} => given[p] = <<>>

Looping == {"off", "select", "emit", "cleanup"}

\* A Reply has a ReplyTo, so until the shutdown drains the calls channel no
\* Reply is in the reactor's map.
ReplyInv ==
    /\ NoMsg \notin retained
    /\ \A p \in Repliers : pc[p] # "idle" => to[p] # NoMsg \/ pc[p] = "returned"
    /\ rpc \in Looping => pending \cap Repliers = {}

\* The parts that do not depend on how the queue and the map are filled.
CoreInv == ReachInv /\ OwnerInv /\ ChanInv /\ GivenInv /\ Correlated

IInv == TypeOK /\ CoreInv /\ QueueInv /\ ReplyInv

----------------------------------------------------------------------------
(* The second half of the invariant: the calls' envelopes, their IDs, what  *)
(* became of them, and the stages in which the connection halts.           *)

\* The calls that have been given an ID and a channel, by EnterSend.
Named == {p \in Callers : rs[p] # NoChan}

\* A call has its ID and its channel from EnterSend on, for good; only a Reply
\* has a ReplyTo; and what the reactor can reach is a call that was taken.
NamedInv ==
    /\ \A p \in Callers :
         /\ pc[p] \in {"idle", "checked"} => p \notin Named
         /\ pc[p] \in {"sending", "waiting", "abandoned"} => p \in Named
         /\ given[p] # <<>> => p \in Named
         /\ p \notin Repliers => to[p] = NoMsg
         /\ p \in Named \cap Repliers => to[p] # NoMsg
    /\ \A p \in Reach : /\ p \in Named
                        /\ p \in Senders => pc[p] = "returned" /\ ret[p].err = Nil

\* The stages of the shutdown, and what is done once each of them is reached.
Closed == {"sdWait", "sdDrain", "sdReport", "exit", "done"}
HaltInv ==
    /\ sup \in {"new", "negotiating", "failed"} => \A t \in IOThreads : io[t] = "off"
    /\ sup \in {"joining", "ended"} => firstErr # None
    /\ sup = "ended" => rpc = "done" /\ \A t \in IOThreads : io[t] = "done"
    /\ stopped <=> rpc \in {"exit", "done"}
    /\ rpc \in Closed \cup {"sdClose"} => state = "complete"
    /\ rpc \in Closed => stopClosed
    /\ rpc \in Closed \ {"sdWait"} => commClosed
    /\ rpc \in Closed \ {"sdWait", "sdDrain"} => callsClosed /\ calls = <<>>
    /\ stopped => pending = {}

\* Whoever stopped the connection, if not the application: the supervisor, once it
\* has its reason, or the reactor's shutdown; and each thread that ends while the
\* supervisor waits puts a reason into errc.
Stated == sup \in {"joining", "ended"}
EndInv ==
    ~AppCloses =>
        /\ stopClosed => Stated \/ rpc \in Closed
        /\ rpc \notin Looping => Stated \/ rerr \notin {None, Nil, "closeFailed"}
        /\ errc # None => Stated \/ Reason(errc)
        /\ Stated => Reason(firstErr)
        /\ \A t \in IOThreads :
             /\ io[t] = "failed" => ioerr[t] = "io"
             /\ io[t] = "exit" => Stated \/ Reason(ioerr[t])
        /\ rpc \in Looping => rerr = None

\* What is on its way to the remote, and what has come from it.
Outbound == wire \cup {emit, held["writer"]} \cup {outgoing[i] : i \in DOMAIN outgoing}
Inbound == Append(incoming, held["reader"])

\* No ID is zero, and a place that has no envelope holds NoEnv.
IDInv ==
    /\ nextMessageID % 2 = 1
    /\ \A p \in Named : mid[p] # NoMsg
    /\ \A e \in wire : e.id # NoMsg
    /\ \A i \in DOMAIN outgoing : outgoing[i].id # NoMsg
    /\ rpc = "emit" => emit.id # NoMsg
    /\ rpc \in Looping \ {"emit"} => emit = NoEnv
    /\ io["writer"] = "put" => held["writer"].id # NoMsg
    /\ io["writer"] # "put" => held["writer"] = NoEnv

\* While the reactor serves, a call whose envelope it has sent is in its map or
\* has a result; and so is the call that an answer of the remote is for.  (A
\* Reply whose ID the counter has given out before takes a call out of the map if
\* the Mapper rejects it: it then has an error itself.)
Known(i) ==
    \E p \in Named :
        /\ mid[p] = i
        /\ \/ p \in pending
           \/ given[p] # <<>> /\ (p \in Repliers => given[p][1].err # Nil)
KnownInv ==
    rpc \in Looping =>
        /\ \A e \in Outbound : e.replyTo = NoMsg /\ e.id # NoMsg => Known(e.id)
        /\ \A i \in DOMAIN Inbound :
             Inbound[i].replyTo # NoMsg => Known(Inbound[i].replyTo)

\* A remote that does not repeat itself: no two answers to one call, and none to
\* a call that was given its answer.
AnswerInv ==
    ~PeerRepeats =>
        /\ \A i \in DOMAIN Inbound : Inbound[i].replyTo \in answered \cup {NoMsg}
        /\ \A i, j \in DOMAIN Inbound :
             Inbound[i].replyTo = Inbound[j].replyTo /\ i # j => Inbound[i].replyTo = NoMsg
        /\ \A p \in Callers \ Repliers :
             given[p] # <<>> /\ given[p][1].err = Nil =>
                 /\ mid[p] \in answered
                 /\ \A i \in DOMAIN Inbound : Inbound[i].replyTo # mid[p]

\* How far the counter has gone since it gave out an ID; and the IDs it has given
\* out, at most: one for each named call and for each message the reactor took.
Age(i) == IF i <= nextMessageID THEN nextMessageID - i ELSE nextMessageID - i + IDSpace
Taken == peerSent - Len(incoming) - (IF io["reader"] = "put" THEN 1 ELSE 0)
Issued == Cardinality(Named) + Taken

\* The IDs of the calls differ as long as the uint32 counter does not lap them.
FewCalls ==
    /\ IsFiniteSet(Callers)
    /\ 2 * (Cardinality(Callers) + MaxPeerMsgs) <= IDSpace
LapInv ==
    /\ Taken \in Nat
    /\ \A p \in Named : Age(mid[p]) + 2 <= 2 * Issued
    /\ \A p, q \in Named : mid[p] = mid[q] => p = q

\* A call that was sent is in reach of the reactor or has its result, which is
\* in its channel until the caller takes it.
WaitInv ==
    \A p \in SyncCallers :
        /\ pc[p] = "waiting" => buf[rs[p]] = given[p]
        /\ pc[p] \in {"waiting", "abandoned"} /\ p \notin FailedReplies =>
               p \in Reach \/ given[p] # <<>>

\* What holds whatever the constants; and all of it, if the calls are few.
CallInv == NamedInv /\ HaltInv /\ EndInv /\ IDInv /\ ToldIsSent /\ KnownInv /\ AnswerInv
WholeInv == IInv /\ CallInv /\ LapInv /\ WaitInv

=============================================================================
