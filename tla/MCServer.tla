------------------------------ MODULE MCServer ------------------------------
(* WebServer, and the Server in it, for TLC. *)
EXTENDS WebServer

\* A counter that was set counts on, from a buffer without room.
ASSUME SetCounts ==
    \A n \in 0 .. 1100 :
        LET inc == Inc!Set(<<0>> \o Inc!Numeral[n]) IN
        /\ Inc!IsInc(inc) /\ Inc!IsInc(Inc!Next(inc))
        /\ Inc!Current(Inc!Next(inc)) = Inc!Numeral[n + 1]

=============================================================================
