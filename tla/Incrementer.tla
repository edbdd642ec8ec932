---------------------------- MODULE Incrementer ----------------------------
(***************************************************************************)
(* The counter that ConnIDs are made with                                  *)
(* (src/internal/incrementer/incrementer.go): a numeral whose digits are   *)
(* incremented in place, in a buffer that grows when a carry needs room.   *)
(***************************************************************************)
EXTENDS Integers, Sequences, FiniteSetsExt

CONSTANTS
    Base,          \* of the numerals: 10
    GrowSize       \* growSize

Digits == 0 .. Base - 1
LastDigit == Base - 1

\* var nextID incrementer.Inc
Zero == [buf |-> <<>>, len |-> 0, cap |-> 0]

\* What a buffer may be: its digits have no leading zero, the rest is cleared.
IsInc(inc) ==
    /\ inc.len \in Nat /\ inc.cap \in Nat /\ inc.len <= inc.cap
    /\ inc.buf \in [1 .. inc.cap -> Digits]
    /\ inc.len > 0 => inc.buf[1] # 0
    /\ \A i \in inc.len + 1 .. inc.cap : inc.buf[i] = 0

\* Set(v), of a numeral that may begin with zeros
Set(v) ==
    LET first == Min({i \in DOMAIN v : v[i] # 0} \cup {Len(v) + 1})
        digits == SubSeq(v, first, Len(v))
    IN  [buf |-> digits, len |-> Len(digits), cap |-> Len(digits)]

\* The numeral, which Next returns.
Current(inc) == IF inc.len = 0 THEN <<0>> ELSE SubSeq(inc.buf, 1, inc.len)

\* The digit that is incremented, 0 if a new one is needed; those to its right
\* are the last digit, and are cleared.
Carried(inc) ==
    Max({0} \cup {i \in 1 .. inc.len : inc.buf[i] # LastDigit})
Cleared(inc) ==
    [i \in DOMAIN inc.buf |->
        IF i \in Carried(inc) + 1 .. inc.len THEN 0 ELSE inc.buf[i]]

Fresh(cap) == [i \in 1 .. cap |-> 0]

\* Faulty: the digits that the carry passes are not cleared when there is room.
NextUncleared(inc) ==
    IF Carried(inc) > 0
    THEN [inc EXCEPT !.buf = [Cleared(inc) EXCEPT ![Carried(inc)] = @ + 1]]
    ELSE IF inc.len < inc.cap
    THEN [inc EXCEPT !.len = @ + 1, !.buf = [inc.buf EXCEPT ![1] = 1]]
    ELSE LET cap == inc.cap + GrowSize IN
         [buf |-> [Fresh(cap) EXCEPT ![1] = 1],
          len |-> inc.len + 1, cap |-> cap]

Next(inc) ==
    IF Carried(inc) > 0
    THEN [inc EXCEPT !.buf = [Cleared(inc) EXCEPT ![Carried(inc)] = @ + 1]]
    ELSE IF inc.len < inc.cap
    THEN [inc EXCEPT !.len = @ + 1, !.buf = [Cleared(inc) EXCEPT ![1] = 1]]
    ELSE LET cap == inc.cap + GrowSize IN
         [buf |-> [Fresh(cap) EXCEPT ![1] = 1],
          len |-> inc.len + 1, cap |-> cap]

\* The reference: n's numeral, and the counter after n calls of Next, whose room
\* is the least multiple of GrowSize that holds it.
Numeral[n \in Nat] ==
    IF n = 0 THEN <<>> ELSE Append(Numeral[n \div Base], n % Base)
After(n) ==
    LET len == Len(Numeral[n])
        cap == GrowSize * ((len + GrowSize - 1) \div GrowSize)
    IN  [buf |-> Numeral[n] \o Fresh(cap - len), len |-> len, cap |-> cap]

=============================================================================
