------------------------------- MODULE MCConn -------------------------------
(* Conn for TLC: the symmetry of the small instances. *)
EXTENDS ConnInv, TLC

\* Callers the constants tell apart are not interchangeable.
Ordinary(S) ==
    S \ (FailedReplies \cup Unmapped \cup Cancellable \cup HandlerCtx)

\* The hypothesis of the theorems about waiting calls: no instance has more of them.
ASSUME InstanceHasFewCalls == FewCalls

Symmetry == Permutations(Ordinary(Requesters))
            \cup Permutations(Ordinary(Senders))
            \cup Permutations(Ordinary(Repliers))
            \cup Permutations(PoolChans)

=============================================================================
