---------------------------- MODULE CallOutcomes ----------------------------
(***************************************************************************)
(* What a connection promises its callers: a call it accepts gets one      *)
(* outcome, never a second; and once the connection has halted it accepts  *)
(* no call, and owes none an outcome.  A call may lose its outcome only at *)
(* a moment when its receiver is full, or if it is in MayLose.  It is the  *)
(* specification behind Send, Reply and Request of src/conn.go; Conn       *)
(* implements it.                                                          *)
(***************************************************************************)
EXTENDS Sequences

CONSTANTS
    Callers,   \* the calls
    MayLose,   \* those that may lose their outcome whatever room there is
    Outcomes   \* what a call may come to

VARIABLES
    accepted,  \* the calls the connection has taken
    outcome,   \* what each has come to: a sequence of at most one outcome
    lost,      \* those that will never have one
    halted,    \* the connection has halted
    full       \* the calls whose receiver has no room: the environment's

outcomeVars == <<accepted, outcome, lost, halted>>

OutcomesInit ==
    /\ accepted = {}
    /\ outcome = [p \in Callers |-> <<>>]
    /\ lost = {}
    /\ halted = FALSE

\* The calls the connection owes an outcome.
Owed == {p \in accepted \ lost : outcome[p] = <<>>}

Accept(p) ==
    /\ ~halted
    /\ p \notin accepted
    /\ accepted' = accepted \cup {p}
    /\ UNCHANGED <<outcome, lost, halted>>

Resolve(p) ==
    /\ ~halted
    /\ p \in Owed \ full
    /\ outcome'[p] \in [{1} -> Outcomes]
    /\ outcome' = [outcome EXCEPT ![p] = outcome'[p]]
    /\ UNCHANGED <<accepted, lost, halted>>

Lose(p) ==
    /\ ~halted
    /\ p \in Owed \cap (full \cup MayLose)
    /\ lost' = lost \cup {p}
    /\ UNCHANGED <<accepted, outcome, halted>>

Halt ==
    /\ ~halted
    /\ Owed = {}
    /\ halted' = TRUE
    /\ UNCHANGED <<accepted, outcome, lost>>

OutcomesNext == Halt \/ \E p \in Callers : Accept(p) \/ Resolve(p) \/ Lose(p)

OutcomesSpec == OutcomesInit /\ [][OutcomesNext]_outcomeVars

=============================================================================
