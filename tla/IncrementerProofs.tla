------------------------- MODULE IncrementerProofs -------------------------
(***************************************************************************)
(* Proofs about Incrementer, for any base, growSize and number of calls:   *)
(* the digits that Next increments in place are the numeral of the number  *)
(* of calls, however the buffer grew, and no two numbers have the same one.*)
(***************************************************************************)
EXTENDS Incrementer, SharedLemmas

\* What a counter may be given: newInc's base and growSize.
Bounds == Base \in Nat \ {0, 1} /\ GrowSize \in Nat \ {0}

----------------------------------------------------------------------------
(* Quotients and remainders *)

\* Quotient and remainder.
LEMMA DivMod ==
    ASSUME NEW n \in Nat, NEW b \in Nat \ {0}
    PROVE  /\ n \div b \in Nat /\ n % b \in 0 .. b - 1
           /\ n = b * (n \div b) + (n % b)
OBVIOUS

\* There is one way to divide with a remainder.
LEMMA Quotient ==
    ASSUME NEW b \in Nat \ {0}, NEW q \in Nat, NEW r \in 0 .. b - 1, NEW n \in Nat,
           n = b * q + r
    PROVE  n \div b = q /\ n % b = r
<1>1. /\ n \div b \in Nat /\ n % b \in 0 .. b - 1
      /\ n = b * (n \div b) + (n % b)
  BY DivMod
<1> DEFINE p == n \div b
           s == n % b
<1>2. p \in Nat /\ s \in 0 .. b - 1 /\ b * p + s = b * q + r
  BY <1>1
<1> HIDE DEF p, s
<1>3. ~ (p < q)
  <2>1. p < q => b * q >= b * p + b
    BY <1>2
  <2> QED
    BY <1>2, <2>1
<1>4. ~ (q < p)
  <2>1. q < p => b * p >= b * q + b
    BY <1>2
  <2> QED
    BY <1>2, <2>1
<1>5. p = q
  BY <1>2, <1>3, <1>4
<1>6. s = r
  BY <1>2, <1>5
<1> QED
  BY <1>5, <1>6 DEF p, s

\* The number that is left without the last digit is smaller.
LEMMA Shorter ==
    ASSUME Bounds, NEW n \in Nat \ {0}
    PROVE  n \div Base \in 0 .. n - 1 /\ n % Base \in Digits
<1>1. /\ n \div Base \in Nat /\ n % Base \in 0 .. Base - 1
      /\ n = Base * (n \div Base) + (n % Base)
  BY DivMod DEF Bounds
<1> DEFINE q == n \div Base
<1>2. q \in Nat /\ n >= Base * q /\ Base >= 2 /\ Base \in Nat
  BY <1>1 DEF Bounds
<1> HIDE DEF q
<1>3. Base * q >= 2 * q
  BY <1>2
<1>4. q < n
  BY <1>2, <1>3
<1> QED
  BY <1>1, <1>2, <1>4 DEF q, Digits

----------------------------------------------------------------------------
(* The numerals are what their recursive definition says *)

\* The digits of a number, given those of the smaller ones.
DigitsFrom(f, n) ==
    IF n = 0 THEN <<>> ELSE Append(f[n \div Base], n % Base)

\* The tables of the numerals up to n.
Tables(n) ==
    {f \in [0 .. n -> Seq(Digits)] : \A m \in 0 .. n : f[m] = DigitsFrom(f, m)}

\* There is a table for every n.
LEMMA TableExists == ASSUME Bounds, NEW n \in Nat PROVE Tables(n) # {}
<1> DEFINE S == {k \in Nat : Tables(k) # {}}
<1>1. ASSUME NEW k \in Nat, \A m \in 0 .. k - 1 : m \in S PROVE k \in S
  <2>1. CASE k = 0
    <3> DEFINE f == [m \in 0 .. 0 |-> <<>>]
    <3>1. f \in [0 .. 0 -> Seq(Digits)] /\ \A m \in 0 .. 0 : f[m] = DigitsFrom(f, m)
      BY DEF DigitsFrom
    <3>2. f \in Tables(0)
      BY <3>1 DEF Tables
    <3> QED
      BY <2>1, <3>2
  <2>2. CASE k # 0
    <3>1. k - 1 \in S /\ k - 1 \in Nat
      BY <1>1, <2>2
    <3>2. PICK g : g \in Tables(k - 1)
      BY <3>1
    <3>3. k \div Base \in 0 .. k - 1 /\ k % Base \in Digits
      BY <2>2, Shorter
    <3> DEFINE f == [m \in 0 .. k |->
                        IF m = k THEN Append(g[k \div Base], k % Base) ELSE g[m]]
    <3>4. g \in [0 .. k - 1 -> Seq(Digits)]
          /\ \A m \in 0 .. k - 1 : g[m] = DigitsFrom(g, m)
      BY <3>2 DEF Tables
    <3>5. f \in [0 .. k -> Seq(Digits)]
      <4>1. Append(g[k \div Base], k % Base) \in Seq(Digits)
        BY <3>3, <3>4
      <4>2. \A m \in 0 .. k : m # k => m \in 0 .. k - 1
        OBVIOUS
      <4> QED
        BY <3>4, <4>1, <4>2
    <3>6. \A m \in 0 .. k - 1 : f[m] = g[m]
      OBVIOUS
    <3>7. f[k] = DigitsFrom(f, k)
      BY <2>2, <3>3, <3>6 DEF DigitsFrom
    <3>8. ASSUME NEW m \in 0 .. k - 1 PROVE f[m] = DigitsFrom(f, m)
      <4>1. m # 0 => m \div Base \in 0 .. k - 1
        <5>1. m # 0 => m \div Base \in 0 .. m - 1
          BY Shorter
        <5> QED
          BY <5>1
      <4>2. DigitsFrom(f, m) = DigitsFrom(g, m)
        <5>1. m # 0 => f[m \div Base] = g[m \div Base]
          BY <3>6, <4>1
        <5> HIDE DEF f
        <5> QED
          BY <5>1 DEF DigitsFrom
      <4> QED
        BY <3>4, <3>6, <4>2
    <3> HIDE DEF f
    <3>9. f \in Tables(k)
      BY <3>5, <3>7, <3>8 DEF Tables
    <3> QED
      BY <3>9
  <2> QED
    BY <2>1, <2>2
<1> QED
  BY <1>1, StrongInduction

\* Two tables agree where both are defined.
LEMMA TablesAgree ==
    ASSUME Bounds, NEW n \in Nat, NEW m \in Nat, NEW f \in Tables(n),
           NEW g \in Tables(m), NEW k \in Nat, k <= n, k <= m
    PROVE  f[k] = g[k]
<1> DEFINE S == {j \in Nat : j <= n /\ j <= m => f[j] = g[j]}
<1>1. ASSUME NEW j \in Nat, \A i \in 0 .. j - 1 : i \in S PROVE j \in S
  <2> SUFFICES ASSUME j <= n, j <= m PROVE f[j] = g[j]
    OBVIOUS
  <2>1. f[j] = DigitsFrom(f, j) /\ g[j] = DigitsFrom(g, j)
    BY DEF Tables
  <2>2. j # 0 => f[j \div Base] = g[j \div Base]
    BY <1>1, Shorter
  <2> QED
    BY <2>1, <2>2 DEF DigitsFrom
<1>2. k \in S
  BY <1>1, StrongInduction
<1> QED
  BY <1>2

\* So the recursive definition has a solution.
LEMMA NumeralDef ==
    ASSUME Bounds
    PROVE  /\ Numeral \in [Nat -> Seq(Digits)]
           /\ Numeral[0] = <<>>
           /\ \A n \in Nat \ {0} :
                  Numeral[n] = Append(Numeral[n \div Base], n % Base)
<1> DEFINE T(n) == CHOOSE f : f \in Tables(n)
           F == [n \in Nat |-> T(n)[n]]
<1>1. \A n \in Nat : T(n) \in Tables(n)
  BY TableExists
<1>2. ASSUME NEW n \in Nat PROVE F[n] = DigitsFrom(F, n) /\ F[n] \in Seq(Digits)
  <2>1. /\ T(n) \in [0 .. n -> Seq(Digits)]
        /\ \A m \in 0 .. n : T(n)[m] = DigitsFrom(T(n), m)
    BY <1>1 DEF Tables
  <2>2. F[n] = DigitsFrom(T(n), n)
    BY <2>1
  <2>3. ASSUME n # 0 PROVE T(n)[n \div Base] = F[n \div Base]
    <3>1. n \div Base \in 0 .. n - 1
      BY <2>3, Shorter
    <3>2. T(n \div Base) \in Tables(n \div Base)
      BY <1>1, <3>1
    <3> HIDE DEF T
    <3>3. T(n)[n \div Base] = T(n \div Base)[n \div Base]
      BY <1>1, <3>1, <3>2, TablesAgree
    <3> QED
      BY <3>1, <3>3
  <2> QED
    BY <2>1, <2>2, <2>3 DEF DigitsFrom
<1> HIDE DEF F
<1>3. F = [n \in Nat |-> IF n = 0 THEN <<>> ELSE Append(F[n \div Base], n % Base)]
  <2>1. F = [n \in Nat |-> F[n]]
    BY DEF F
  <2> QED
    BY <1>2, <2>1 DEF DigitsFrom
<1>4. Numeral = [n \in Nat |-> IF n = 0 THEN <<>>
                               ELSE Append(Numeral[n \div Base], n % Base)]
  BY <1>3 DEF Numeral
<1>5. \A n \in Nat : Numeral[n] = DigitsFrom(Numeral, n)
  BY <1>4 DEF DigitsFrom
<1>6. \A n \in Nat : Numeral[n] \in Seq(Digits)
  <2> DEFINE S == {n \in Nat : Numeral[n] \in Seq(Digits)}
  <2>1. ASSUME NEW n \in Nat, \A m \in 0 .. n - 1 : m \in S PROVE n \in S
    <3>1. CASE n = 0
      <4>1. Numeral[0] = <<>>
        BY <1>5 DEF DigitsFrom
      <4>2. <<>> \in Seq(Digits)
        OBVIOUS
      <4> HIDE DEF T
      <4>3. Numeral[n] \in Seq(Digits)
        BY <3>1, <4>1, <4>2
      <4> QED
        BY <4>3
    <3>2. CASE n # 0
      <4>1. Numeral[n \div Base] \in Seq(Digits) /\ n % Base \in Digits
        BY <2>1, <3>2, Shorter
      <4>2. Append(Numeral[n \div Base], n % Base) \in Seq(Digits)
        BY <4>1
      <4>3. Numeral[n] = Append(Numeral[n \div Base], n % Base)
        BY <1>5, <3>2 DEF DigitsFrom
      <4> QED
        BY <4>2, <4>3
    <3> QED
      BY <3>1, <3>2
  <2> QED
    BY <2>1, StrongInduction
<1> QED
  BY <1>4, <1>5, <1>6 DEF DigitsFrom

----------------------------------------------------------------------------
(* The numerals count, and none is the numeral of two numbers *)

\* What increments d to e: its digit at c, those to the right being cleared, or,
\* if all are the last digit, a new one to the left.
Carries(d, c) ==
    d[c] # LastDigit /\ \A i \in c + 1 .. Len(d) : d[i] = LastDigit
CountsAt(d, e, c) ==
    /\ Carries(d, c) /\ Len(e) = Len(d)
    /\ \A i \in 1 .. Len(d) :
          e[i] = IF i < c THEN d[i] ELSE IF i = c THEN d[c] + 1 ELSE 0
Overflows(d) == \A i \in 1 .. Len(d) : d[i] = LastDigit
CountsOver(d, e) ==
    /\ Overflows(d) /\ Len(e) = Len(d) + 1
    /\ \A i \in 1 .. Len(d) + 1 : e[i] = IF i = 1 THEN 1 ELSE 0
Counts(d, e) ==
    CountsOver(d, e) \/ \E c \in 1 .. Len(d) : CountsAt(d, e, c)

\* What a sequence is with one more at its end.
LEMMA AppendFacts ==
    ASSUME NEW S, NEW s \in Seq(S), NEW x \in S
    PROVE  /\ Append(s, x) \in Seq(S) /\ Len(Append(s, x)) = Len(s) + 1
           /\ Len(s) \in Nat /\ Append(s, x)[Len(s) + 1] = x
           /\ \A i \in 1 .. Len(s) : Append(s, x)[i] = s[i]
OBVIOUS

\* A carry out of the last digit counts in the others.
LEMMA CarryCounts ==
    ASSUME Bounds, NEW d \in Seq(Digits), NEW e \in Seq(Digits), Counts(d, e)
    PROVE  Counts(Append(d, LastDigit), Append(e, 0))
<1> DEFINE f == Append(d, LastDigit)
           g == Append(e, 0)
<1>1. LastDigit \in Digits /\ 0 \in Digits
  BY DEF Bounds, LastDigit, Digits
<1>2. /\ Len(f) = Len(d) + 1 /\ Len(d) \in Nat /\ f[Len(d) + 1] = LastDigit
      /\ \A i \in 1 .. Len(d) : f[i] = d[i]
  BY <1>1, AppendFacts
<1>3. /\ Len(g) = Len(e) + 1 /\ Len(e) \in Nat /\ g[Len(e) + 1] = 0
      /\ \A i \in 1 .. Len(e) : g[i] = e[i]
  BY <1>1, AppendFacts
<1> HIDE DEF f, g
<1>4. CASE CountsOver(d, e)
  <2>1. Overflows(d) /\ Len(e) = Len(d) + 1
        /\ \A i \in 1 .. Len(d) + 1 : e[i] = IF i = 1 THEN 1 ELSE 0
    BY <1>4 DEF CountsOver
  <2>2. Overflows(f)
    <3>1. \A i \in 1 .. Len(f) : i \in 1 .. Len(d) \/ i = Len(d) + 1
      BY <1>2
    <3> QED
      BY <1>2, <2>1, <3>1 DEF Overflows
  <2>3. ASSUME NEW i \in 1 .. Len(f) + 1
        PROVE  g[i] = IF i = 1 THEN 1 ELSE 0
    <3>1. i \in 1 .. Len(e) \/ (i = Len(e) + 1 /\ i # 1)
      BY <1>2, <1>3, <2>1
    <3> QED
      BY <1>3, <2>1, <3>1
  <2>4. Len(g) = Len(f) + 1
    BY <1>2, <1>3, <2>1
  <2>5. CountsOver(f, g)
    BY <2>2, <2>3, <2>4 DEF CountsOver
  <2> QED
    BY <2>5 DEF Counts, f, g
<1>5. ASSUME NEW c \in 1 .. Len(d), CountsAt(d, e, c) PROVE Counts(f, g)
  <2>1. /\ Carries(d, c) /\ Len(e) = Len(d)
        /\ \A i \in 1 .. Len(d) :
              e[i] = IF i < c THEN d[i] ELSE IF i = c THEN d[c] + 1 ELSE 0
    BY <1>5 DEF CountsAt
  <2>2. Carries(f, c)
    <3>1. f[c] = d[c] /\ d[c] # LastDigit
      BY <1>2, <2>1 DEF Carries
    <3>2. ASSUME NEW i \in c + 1 .. Len(f) PROVE f[i] = LastDigit
      <4>1. (i \in c + 1 .. Len(d) /\ i \in 1 .. Len(d)) \/ i = Len(d) + 1
        BY <1>2
      <4> QED
        BY <1>2, <2>1, <4>1 DEF Carries
    <3> QED
      BY <3>1, <3>2 DEF Carries
  <2>3. ASSUME NEW i \in 1 .. Len(f)
        PROVE  g[i] = IF i < c THEN f[i] ELSE IF i = c THEN f[c] + 1 ELSE 0
    <3>1. CASE i \in 1 .. Len(d)
      BY <1>2, <1>3, <2>1, <3>1
    <3>2. CASE i = Len(d) + 1
      <4>1. ~ (i < c) /\ i # c
        BY <1>2, <3>2
      <4> QED
        BY <1>3, <2>1, <3>2, <4>1
    <3> QED
      BY <1>2, <3>1, <3>2
  <2>4. Len(g) = Len(f) /\ c \in 1 .. Len(f)
    BY <1>2, <1>3, <2>1
  <2>5. CountsAt(f, g, c)
    BY <2>2, <2>3, <2>4 DEF CountsAt
  <2> QED
    BY <2>4, <2>5 DEF Counts
<1> QED
  BY <1>4, <1>5 DEF Counts, f, g

\* The numeral of n + 1 is what increments that of n.
LEMMA NumeralCounts ==
    ASSUME Bounds PROVE \A n \in Nat : Counts(Numeral[n], Numeral[n + 1])
<1> DEFINE S == {n \in Nat : Counts(Numeral[n], Numeral[n + 1])}
<1>1. ASSUME NEW n \in Nat, \A m \in 0 .. n - 1 : m \in S PROVE n \in S
  <2> DEFINE q == n \div Base
             r == n % Base
             d == Numeral[n]
             e == Numeral[n + 1]
  <2>1. /\ q \in Nat /\ r \in 0 .. Base - 1 /\ n = Base * q + r
        /\ Base \in Nat /\ Base >= 2
    <3>1. Base \in Nat \ {0} /\ Base >= 2
      BY DEF Bounds
    <3>2. q \in Nat /\ r \in 0 .. Base - 1 /\ n = Base * q + r
      BY <3>1, DivMod
    <3> QED
      BY <3>1, <3>2
  <2> HIDE DEF q, r
  <2>2. /\ Numeral[q] \in Seq(Digits)
        /\ e = Append(Numeral[(n + 1) \div Base], (n + 1) % Base)
    <3>1. n + 1 \in Nat \ {0}
      OBVIOUS
    <3> QED
      BY <2>1, <3>1, NumeralDef
  <2>3. CASE n = 0
    <3>1. (n + 1) \div Base = 0 /\ (n + 1) % Base = 1
      <4>1. 1 \in 0 .. Base - 1 /\ 1 = Base * 0 + 1
        BY <2>1
      <4> QED
        BY <2>3, <4>1, Quotient DEF Bounds
    <3>2. d = <<>> /\ e = <<1>>
      <4>1. Numeral[0] = <<>>
        BY NumeralDef
      <4>2. e = Append(<<>>, 1)
        BY <2>2, <3>1, <4>1
      <4> QED
        BY <2>3, <4>1, <4>2
    <3> HIDE DEF d, e
    <3>3. CountsOver(d, e)
      BY <3>2 DEF CountsOver, Overflows
    <3> QED
      BY <3>3 DEF Counts, d, e
  <2>4. CASE n # 0 /\ r # LastDigit
    <3>1. d = Append(Numeral[q], r)
      BY <2>4, NumeralDef DEF q, r
    <3>2. (n + 1) \div Base = q /\ (n + 1) % Base = r + 1
      <4>1. r + 1 \in 0 .. Base - 1 /\ n + 1 = Base * q + (r + 1)
        BY <2>1, <2>4 DEF LastDigit
      <4>2. n + 1 \in Nat /\ Base \in Nat \ {0}
        BY <2>1
      <4> QED
        BY <2>1, <4>1, <4>2, Quotient
    <3>3. e = Append(Numeral[q], r + 1)
      BY <2>2, <3>2
    <3>4. r \in Digits /\ r + 1 \in Digits
      BY <2>1, <2>4 DEF Digits, LastDigit
    <3> HIDE DEF d, e
    <3>5. \A x \in Digits :
              /\ Len(Append(Numeral[q], x)) = Len(Numeral[q]) + 1
              /\ Len(Numeral[q]) \in Nat /\ Append(Numeral[q], x)[Len(Numeral[q]) + 1] = x
              /\ \A i \in 1 .. Len(Numeral[q]) : Append(Numeral[q], x)[i] = Numeral[q][i]
      <4>1. Numeral[q] \in Seq(Digits)
        BY <2>2
      <4> QED
        BY <4>1, AppendFacts
    <3>6. /\ Len(d) = Len(Numeral[q]) + 1 /\ Len(Numeral[q]) \in Nat
          /\ d[Len(d)] = r /\ \A i \in 1 .. Len(Numeral[q]) : d[i] = Numeral[q][i]
          /\ Len(e) = Len(d) /\ e[Len(d)] = r + 1
          /\ \A i \in 1 .. Len(Numeral[q]) : e[i] = Numeral[q][i]
      BY <3>1, <3>3, <3>4, <3>5
    <3>7. Len(d) \in 1 .. Len(d)
      BY <3>6
    <3>8. Carries(d, Len(d))
      BY <2>4, <3>6 DEF Carries
    <3>9. ASSUME NEW i \in 1 .. Len(d)
          PROVE  e[i] = IF i < Len(d) THEN d[i]
                        ELSE IF i = Len(d) THEN d[Len(d)] + 1 ELSE 0
      <4>1. (i \in 1 .. Len(Numeral[q]) /\ i < Len(d)) \/ i = Len(d)
        BY <3>6
      <4> QED
        BY <3>6, <4>1
    <3>10. CountsAt(d, e, Len(d))
      BY <3>6, <3>8, <3>9 DEF CountsAt
    <3> QED
      BY <3>7, <3>10 DEF Counts, d, e
  <2>5. CASE n # 0 /\ r = LastDigit
    <3>1. d = Append(Numeral[q], LastDigit)
      BY <2>5, NumeralDef DEF q, r
    <3>2. (n + 1) \div Base = q + 1 /\ (n + 1) % Base = 0
      <4>1. 0 \in 0 .. Base - 1 /\ n + 1 = Base * (q + 1) + 0
        BY <2>1, <2>5 DEF LastDigit
      <4> QED
        BY <2>1, <4>1, Quotient DEF Bounds
    <3>3. e = Append(Numeral[q + 1], 0)
      BY <2>2, <3>2
    <3>4. q \in 0 .. n - 1
      BY <2>5, Shorter DEF q
    <3>5. Counts(Numeral[q], Numeral[q + 1]) /\ Numeral[q + 1] \in Seq(Digits)
      BY <1>1, <2>1, <3>4, NumeralDef
    <3>6. Counts(d, e)
      BY <2>2, <3>1, <3>3, <3>5, CarryCounts
    <3> QED
      BY <3>6
  <2> QED
    BY <2>3, <2>4, <2>5
<1> QED
  BY <1>1, StrongInduction

\* A numeral has no leading zero, and only that of 0 is empty.
LEMMA NumeralLeads ==
    ASSUME Bounds
    PROVE  \A n \in Nat \ {0} : Len(Numeral[n]) > 0 /\ Numeral[n][1] # 0
<1> DEFINE S == {n \in Nat : n # 0 => Len(Numeral[n]) > 0 /\ Numeral[n][1] # 0}
<1>1. ASSUME NEW n \in Nat, \A m \in 0 .. n - 1 : m \in S PROVE n \in S
  <2> SUFFICES ASSUME n # 0 PROVE Len(Numeral[n]) > 0 /\ Numeral[n][1] # 0
    OBVIOUS
  <2> DEFINE q == n \div Base
             r == n % Base
  <2>1. /\ q \in 0 .. n - 1 /\ r \in Digits /\ n = Base * q + r
        /\ Numeral[q] \in Seq(Digits) /\ Numeral[n] = Append(Numeral[q], r)
    BY Shorter, DivMod, NumeralDef DEF Bounds
  <2> HIDE DEF q, r
  <2>2. /\ Len(Numeral[n]) = Len(Numeral[q]) + 1 /\ Len(Numeral[q]) \in Nat
        /\ Numeral[n][Len(Numeral[q]) + 1] = r
        /\ \A i \in 1 .. Len(Numeral[q]) : Numeral[n][i] = Numeral[q][i]
    BY <2>1, AppendFacts
  <2>3. CASE q = 0
    <3>1. Numeral[q] = <<>> /\ r # 0
      BY <2>1, <2>3, NumeralDef DEF Bounds
    <3> QED
      BY <2>2, <3>1
  <2>4. CASE q # 0
    BY <1>1, <2>1, <2>2, <2>4
  <2> QED
    BY <2>3, <2>4
<1> QED
  BY <1>1, StrongInduction

\* No two numbers have the same numeral.
LEMMA NumeralInjective ==
    ASSUME Bounds
    PROVE  \A n \in Nat : \A m \in Nat : Numeral[m] = Numeral[n] => m = n
<1> DEFINE S == {n \in Nat : \A m \in Nat : Numeral[m] = Numeral[n] => m = n}
<1>1. ASSUME NEW n \in Nat, \A k \in 0 .. n - 1 : k \in S PROVE n \in S
  <2> SUFFICES ASSUME NEW m \in Nat, Numeral[m] = Numeral[n] PROVE m = n
    OBVIOUS
  <2>1. Numeral[0] = <<>> /\ \A k \in Nat \ {0} : Len(Numeral[k]) > 0
    BY NumeralDef, NumeralLeads
  <2>2. CASE n = 0 \/ m = 0
    BY <2>1, <2>2
  <2>3. CASE n # 0 /\ m # 0
    <3>1. \A k \in Nat \ {0} :
              /\ k \div Base \in 0 .. k - 1 /\ k % Base \in Digits
              /\ k = Base * (k \div Base) + (k % Base)
              /\ Numeral[k \div Base] \in Seq(Digits)
              /\ Numeral[k] = Append(Numeral[k \div Base], k % Base)
      BY Shorter, DivMod, NumeralDef DEF Bounds
    <3>2. \A s, t \in Seq(Digits) : \A x, y \in Digits :
              Append(s, x) = Append(t, y) => s = t /\ x = y
      OBVIOUS
    <3>3. Numeral[m \div Base] = Numeral[n \div Base] /\ m % Base = n % Base
      <4>1. Append(Numeral[m \div Base], m % Base)
                = Append(Numeral[n \div Base], n % Base)
        BY <2>3, <3>1
      <4>2. /\ Numeral[m \div Base] \in Seq(Digits) /\ m % Base \in Digits
            /\ Numeral[n \div Base] \in Seq(Digits) /\ n % Base \in Digits
        BY <2>3, <3>1
      <4> QED
        BY <3>2, <4>1, <4>2
    <3>4. m \div Base = n \div Base
      <4>1. n \div Base \in S /\ m \div Base \in Nat
        BY <1>1, <2>3, <3>1
      <4> QED
        BY <3>3, <4>1
    <3>5. /\ m = Base * (m \div Base) + (m % Base)
          /\ n = Base * (n \div Base) + (n % Base)
      BY <2>3, <3>1
    <3> QED
      BY <3>3, <3>4, <3>5
  <2> QED
    BY <2>2, <2>3
<1> QED
  BY <1>1, StrongInduction

----------------------------------------------------------------------------
(* The buffer *)

\* The room of a numeral of n digits, which the lemmas below speak of only
\* through what Room returns.
Room(n) == GrowSize * ((n + GrowSize - 1) \div GrowSize)

\* The least multiple of GrowSize that holds n digits ...
LEMMA RoomFacts ==
    ASSUME Bounds, NEW n \in Nat
    PROVE  /\ Room(n) \in Nat /\ n <= Room(n) /\ Room(n) < n + GrowSize
           /\ \E k \in Nat : Room(n) = GrowSize * k
<1> DEFINE k == (n + GrowSize - 1) \div GrowSize
           r == (n + GrowSize - 1) % GrowSize
<1>1. GrowSize \in Nat \ {0} /\ n + GrowSize - 1 \in Nat
  BY DEF Bounds
<1>2. /\ k \in Nat /\ r \in 0 .. GrowSize - 1
      /\ n + GrowSize - 1 = GrowSize * k + r
  BY <1>1, DivMod
<1>3. Room(n) = GrowSize * k
  BY DEF Room
<1> HIDE DEF k, r
<1>4. GrowSize * k \in Nat
  BY <1>1, <1>2
<1>5. n <= Room(n) /\ Room(n) < n + GrowSize
  BY <1>1, <1>2, <1>3, <1>4
<1> QED
  BY <1>2, <1>3, <1>4, <1>5

\* ... grows by GrowSize when it is full.
LEMMA RoomGrows ==
    ASSUME Bounds, NEW n \in Nat
    PROVE  Room(n + 1) = IF n < Room(n) THEN Room(n) ELSE Room(n) + GrowSize
<1>1. GrowSize \in Nat \ {0}
  BY DEF Bounds
<1>2. PICK k \in Nat : Room(n) = GrowSize * k
  BY RoomFacts
<1>3. /\ GrowSize * k \in Nat /\ n <= GrowSize * k
      /\ GrowSize * k < n + GrowSize
  BY <1>2, RoomFacts
<1>4. (n + 1) + GrowSize - 1 = n + GrowSize /\ n + GrowSize \in Nat
  BY <1>1
<1>5. CASE n < GrowSize * k
  <2>1. n + GrowSize - GrowSize * k \in 0 .. GrowSize - 1
    BY <1>1, <1>3, <1>5
  <2>2. n + GrowSize = GrowSize * k + (n + GrowSize - GrowSize * k)
    BY <1>1, <1>3
  <2>3. (n + GrowSize) \div GrowSize = k
    BY <1>1, <1>4, <2>1, <2>2, Quotient
  <2> QED
    BY <1>2, <1>4, <1>5, <2>3 DEF Room
<1>6. CASE ~ (n < GrowSize * k)
  <2>1. n = GrowSize * k
    BY <1>3, <1>6
  <2>2. 0 \in 0 .. GrowSize - 1 /\ n + GrowSize = GrowSize * (k + 1) + 0
        /\ k + 1 \in Nat
    BY <1>1, <2>1
  <2>3. (n + GrowSize) \div GrowSize = k + 1
    BY <1>1, <1>4, <2>2, Quotient
  <2>4. Room(n + 1) = GrowSize * (k + 1)
    BY <1>4, <2>3 DEF Room
  <2>5. GrowSize * (k + 1) = GrowSize * k + GrowSize
    BY <1>1
  <2> QED
    BY <1>2, <1>6, <2>4, <2>5
<1> QED
  BY <1>5, <1>6

\* The counter after n calls: n's numeral, and zeros in the rest of its room.
LEMMA AfterFacts ==
    ASSUME Bounds, NEW n \in Nat
    PROVE  LET inc == After(n)
               len == Len(Numeral[n])
           IN  /\ inc = [buf |-> inc.buf, len |-> len, cap |-> Room(len)]
               /\ len \in Nat /\ Room(len) \in Nat /\ len <= Room(len)
               /\ inc.buf \in [1 .. Room(len) -> Digits]
               /\ \A i \in 1 .. len : inc.buf[i] = Numeral[n][i]
               /\ \A i \in len + 1 .. Room(len) : inc.buf[i] = 0
<1> DEFINE len == Len(Numeral[n])
           zeros == Fresh(Room(len) - len)
           buf == Numeral[n] \o zeros
<1>1. Numeral[n] \in Seq(Digits) /\ 0 \in Digits
  BY NumeralDef DEF Bounds, Digits
<1>2. len \in Nat /\ Room(len) \in Nat /\ len <= Room(len)
  <2>1. len \in Nat
    BY <1>1
  <2> QED
    BY <2>1, RoomFacts
<1>3. After(n) = [buf |-> buf, len |-> len, cap |-> Room(len)]
  BY DEF After, Room
<1>4. /\ zeros \in Seq(Digits) /\ Len(zeros) = Room(len) - len
      /\ \A i \in 1 .. Room(len) - len : zeros[i] = 0
  <2>1. Room(len) - len \in Nat
    BY <1>2
  <2> HIDE DEF len
  <2> QED
    BY <1>1, <2>1 DEF Fresh
<1> HIDE DEF zeros
<1>5. /\ buf \in Seq(Digits) /\ Len(buf) = len + Len(zeros)
      /\ \A j \in 1 .. len + Len(zeros) :
            buf[j] = IF j <= len THEN Numeral[n][j] ELSE zeros[j - len]
  BY <1>1, <1>4, ConcatFacts
<1> HIDE DEF len, buf
<1>6. len + Len(zeros) = Room(len)
  BY <1>2, <1>4
<1>7. buf \in [1 .. Room(len) -> Digits]
  BY <1>5, <1>6
<1>8. \A i \in 1 .. len : buf[i] = Numeral[n][i]
  BY <1>2, <1>5, <1>6
<1>9. ASSUME NEW i \in len + 1 .. Room(len) PROVE buf[i] = 0
  <2>1. /\ i \in 1 .. len + Len(zeros) /\ ~ (i <= len)
        /\ i - len \in 1 .. Room(len) - len
    BY <1>2, <1>6
  <2> QED
    BY <1>4, <1>5, <2>1
<1> QED
  BY <1>2, <1>3, <1>7, <1>8, <1>9 DEF len

\* It is a buffer as it may be, and Next returns the numeral from it.
LEMMA AfterIsInc ==
    ASSUME Bounds, NEW n \in Nat
    PROVE  IsInc(After(n)) /\ (n # 0 => Current(After(n)) = Numeral[n])
<1> DEFINE inc == After(n)
           len == Len(Numeral[n])
<1>1. /\ inc.len = len /\ inc.cap = Room(len) /\ len \in Nat /\ Room(len) \in Nat
      /\ len <= Room(len) /\ inc.buf \in [1 .. Room(len) -> Digits]
      /\ \A i \in 1 .. len : inc.buf[i] = Numeral[n][i]
      /\ \A i \in len + 1 .. Room(len) : inc.buf[i] = 0
  BY AfterFacts
<1>2. Numeral[n] \in Seq(Digits) /\ (n = 0 => len = 0)
      /\ (n # 0 => len > 0 /\ Numeral[n][1] # 0)
  <2>1. Numeral[n] \in Seq(Digits) /\ Numeral[0] = <<>>
    BY NumeralDef
  <2>2. n = 0 => len = 0
    BY <2>1
  <2>3. n # 0 => len > 0 /\ Numeral[n][1] # 0
    BY NumeralLeads
  <2> QED
    BY <2>1, <2>2, <2>3
<1> HIDE DEF inc, len
<1>3. inc.len > 0 => inc.buf[1] # 0
  <2>1. inc.len > 0 => 1 \in 1 .. len /\ n # 0
    BY <1>1, <1>2
  <2> QED
    BY <1>1, <1>2, <2>1
<1>4. IsInc(inc)
  BY <1>1, <1>3 DEF IsInc
<1>5. ASSUME n # 0 PROVE Current(inc) = Numeral[n]
  <2>1. Current(inc) = SubSeq(inc.buf, 1, len)
    BY <1>1, <1>2, <1>5 DEF Current
  <2>2. inc.buf \in Seq(Digits) /\ Len(inc.buf) = Room(len)
    BY <1>1
  <2>3. /\ SubSeq(inc.buf, 1, len) \in Seq(Digits)
        /\ Len(SubSeq(inc.buf, 1, len)) = len
        /\ \A i \in 1 .. len : SubSeq(inc.buf, 1, len)[i] = inc.buf[i]
    BY <1>1, <2>2
  <2>4. Len(Numeral[n]) = len
    BY DEF len
  <2>5. SubSeq(inc.buf, 1, len) = Numeral[n]
    BY <1>1, <1>2, <2>3, <2>4
  <2> QED
    BY <2>1, <2>5
<1> QED
  BY <1>4, <1>5 DEF inc

\* The digit that Next looks for.
LEMMA CarriedIs ==
    ASSUME Bounds, NEW inc, inc.len \in Nat, inc.cap \in Nat, inc.len <= inc.cap
    PROVE  /\ (\A i \in 1 .. inc.len : inc.buf[i] = LastDigit) => Carried(inc) = 0
           /\ \A c \in 1 .. inc.len :
                /\ inc.buf[c] # LastDigit
                /\ \A i \in c + 1 .. inc.len : inc.buf[i] = LastDigit
                => Carried(inc) = c
<1> DEFINE S == {0} \cup {i \in 1 .. inc.len : inc.buf[i] # LastDigit}
<1>1. Carried(inc) = Max(S)
  BY DEF Carried
<1>2. IsFiniteSet(S) /\ S \subseteq Int /\ S # {}
  <2>1. IsFiniteSet(0 .. inc.len)
    BY FS_Interval
  <2>2. S \subseteq 0 .. inc.len
    OBVIOUS
  <2> HIDE DEF S
  <2>3. IsFiniteSet(S)
    BY <2>1, <2>2, FS_Subset
  <2>4. S \subseteq Int
    BY <2>2
  <2> QED
    BY <2>3, <2>4 DEF S
<1>3. Max(S) \in S /\ \A m \in S : m <= Max(S)
  <2> HIDE DEF S
  <2> QED
    BY <1>2, MaxOfFinite
<1>4. ASSUME \A i \in 1 .. inc.len : inc.buf[i] = LastDigit PROVE Carried(inc) = 0
  BY <1>1, <1>3, <1>4
<1>5. ASSUME NEW c \in 1 .. inc.len, inc.buf[c] # LastDigit,
             \A i \in c + 1 .. inc.len : inc.buf[i] = LastDigit
      PROVE  Carried(inc) = c
  <2>1. c \in S /\ c <= Max(S)
    BY <1>3, <1>5
  <2>2. Max(S) \in 1 .. inc.len /\ inc.buf[Max(S)] # LastDigit
    BY <1>3, <2>1
  <2>3. ~ (Max(S) > c)
    BY <1>5, <2>2
  <2> QED
    BY <1>1, <2>1, <2>2, <2>3
<1> QED
  BY <1>4, <1>5

----------------------------------------------------------------------------
(* Next counts *)

\* A buffer whose digits are n's numeral, whatever room it has.
Shows(inc, n) ==
    /\ inc = [buf |-> inc.buf, len |-> inc.len, cap |-> inc.cap]
    /\ IsInc(inc) /\ inc.len = Len(Numeral[n])
    /\ \A i \in 1 .. inc.len : inc.buf[i] = Numeral[n][i]

\* The numeral and the room are all there is to a buffer.
LEMMA ShowsOne ==
    ASSUME Bounds, NEW n \in Nat, NEW inc, NEW new,
           Shows(inc, n), Shows(new, n), inc.cap = new.cap
    PROVE  inc = new
<1>1. /\ inc.len = new.len /\ inc.len \in Nat /\ inc.cap \in Nat
      /\ inc.len <= inc.cap
      /\ inc.buf \in [1 .. inc.cap -> Digits]
      /\ new.buf \in [1 .. inc.cap -> Digits]
  BY DEF Shows, IsInc
<1>2. ASSUME NEW i \in 1 .. inc.cap PROVE inc.buf[i] = new.buf[i]
  <2>1. i \in 1 .. inc.len \/ i \in inc.len + 1 .. inc.cap
    BY <1>1
  <2> QED
    BY <1>1, <2>1 DEF Shows, IsInc
<1>3. inc.buf = new.buf
  BY <1>1, <1>2
<1> QED
  BY <1>1, <1>3 DEF Shows

\* After calls of Next from the zero value the buffer shows their number.
LEMMA AfterShows ==
    ASSUME Bounds, NEW n \in Nat
    PROVE  Shows(After(n), n) /\ After(n).cap = Room(Len(Numeral[n]))
BY AfterFacts, AfterIsInc DEF Shows

\* The number's numeral is what Current and Next return.
LEMMA ShowsCurrent ==
    ASSUME Bounds, NEW n \in Nat \ {0}, NEW inc, Shows(inc, n)
    PROVE  Current(inc) = Numeral[n]
<1>1. /\ Numeral[n] \in Seq(Digits) /\ Len(Numeral[n]) > 0
  BY NumeralDef, NumeralLeads
<1>2. /\ inc.len = Len(Numeral[n]) /\ inc.cap \in Nat /\ inc.len <= inc.cap
      /\ inc.buf \in [1 .. inc.cap -> Digits]
      /\ \A i \in 1 .. inc.len : inc.buf[i] = Numeral[n][i]
  BY DEF Shows, IsInc
<1> DEFINE s == SubSeq(inc.buf, 1, inc.len)
<1>3. inc.len \in Nat /\ inc.buf \in Seq(Digits) /\ Len(inc.buf) = inc.cap
  BY <1>1, <1>2
<1>4. /\ s \in Seq(Digits) /\ Len(s) = inc.len
      /\ \A i \in 1 .. inc.len : s[i] = inc.buf[i]
  BY <1>2, <1>3
<1>5. Current(inc) = s
  BY <1>1, <1>2 DEF Current
<1> HIDE DEF s
<1>6. s = Numeral[n]
  BY <1>1, <1>2, <1>4
<1> QED
  BY <1>5, <1>6

\* A call of Next counts, whatever room the buffer has: whether there is no
\* carry, a carry, or one that needs a new digit, in the room there is or in a
\* buffer that grows.
THEOREM NextShowsNext ==
    ASSUME Bounds, NEW n \in Nat, NEW inc, Shows(inc, n)
    PROVE  /\ Shows(Next(inc), n + 1)
           /\ Next(inc).cap = IF Len(Numeral[n + 1]) <= inc.cap
                              THEN inc.cap ELSE inc.cap + GrowSize
<1> DEFINE d == Numeral[n]
           e == Numeral[n + 1]
           len == Len(d)
           cap == inc.cap
<1>1. /\ inc = [buf |-> inc.buf, len |-> len, cap |-> cap]
      /\ inc.len = len /\ len \in Nat /\ cap \in Nat /\ len <= cap
      /\ inc.buf \in [1 .. cap -> Digits] /\ DOMAIN inc.buf = 1 .. cap
      /\ \A i \in 1 .. len : inc.buf[i] = d[i]
      /\ \A i \in len + 1 .. cap : inc.buf[i] = 0
  BY DEF Shows, IsInc
<1>2. Counts(d, e)
  BY NumeralCounts
<1>3. Len(e) > 0 => e[1] # 0
  <2>1. n + 1 \in Nat \ {0}
    OBVIOUS
  <2> QED
    BY <2>1, NumeralLeads
<1>4. GrowSize \in Nat \ {0} /\ Base \in Nat \ {0, 1} /\ 0 \in Digits /\ 1 \in Digits
  BY DEF Bounds, Digits
<1>5. d \in Seq(Digits) /\ e \in Seq(Digits)
  <2>1. n + 1 \in Nat
    OBVIOUS
  <2> QED
    BY <2>1, NumeralDef
<1> DEFINE Is(new, room) ==
              /\ new = [buf |-> new.buf, len |-> Len(e), cap |-> room]
              /\ room \in Nat /\ Len(e) <= room
              /\ new.buf \in [1 .. room -> Digits]
              /\ \A i \in 1 .. Len(e) : new.buf[i] = e[i]
              /\ \A i \in Len(e) + 1 .. room : new.buf[i] = 0
<1>6. \A new, room : Is(new, room) => Shows(new, n + 1) /\ new.cap = room
  <2> SUFFICES ASSUME NEW new, NEW room, Is(new, room)
               PROVE  Shows(new, n + 1) /\ new.cap = room
    OBVIOUS
  <2>1. new.len = Len(e) /\ new.cap = room /\ Len(e) \in Nat
    BY <1>5
  <2>2. new.len > 0 => new.buf[1] # 0
    <3>1. new.len > 0 => 1 \in 1 .. Len(e)
      BY <2>1
    <3> QED
      BY <1>3, <2>1, <3>1
  <2> QED
    BY <2>1, <2>2 DEF Shows, IsInc
<1> HIDE DEF d, e, cap
<1>7. \A c \in 0 .. len : Carried(inc) = c =>
          /\ DOMAIN Cleared(inc) = 1 .. cap
          /\ \A i \in 1 .. cap :
                Cleared(inc)[i] = IF i \in c + 1 .. len THEN 0 ELSE inc.buf[i]
  BY <1>1 DEF Cleared
<1> HIDE DEF len
<1>8. ASSUME NEW c \in 1 .. len, CountsAt(d, e, c)
      PROVE  Is(Next(inc), cap)
  <2>1. /\ d[c] # LastDigit /\ \A i \in c + 1 .. len : d[i] = LastDigit
        /\ Len(e) = len
        /\ \A i \in 1 .. len :
              e[i] = IF i < c THEN d[i] ELSE IF i = c THEN d[c] + 1 ELSE 0
    BY <1>8 DEF CountsAt, Carries, len
  <2>2. Carried(inc) = c
    <3>1. /\ inc.buf[c] # LastDigit
          /\ \A i \in c + 1 .. inc.len : inc.buf[i] = LastDigit
      <4>1. inc.len = len /\ len \in Nat /\ \A i \in 1 .. len : inc.buf[i] = d[i]
        BY <1>1
      <4>2. \A i \in c + 1 .. len : i \in 1 .. len
        BY <4>1
      <4> QED
        BY <2>1, <4>1, <4>2
    <3>2. c \in 1 .. inc.len /\ inc.len \in Nat /\ inc.cap \in Nat /\ inc.len <= inc.cap
      BY <1>1 DEF cap
    <3> QED
      BY <3>1, <3>2, CarriedIs
  <2> DEFINE f == [Cleared(inc) EXCEPT ![c] = @ + 1]
  <2>3. /\ DOMAIN Cleared(inc) = 1 .. cap
        /\ \A i \in 1 .. cap :
              Cleared(inc)[i] = IF i \in c + 1 .. len THEN 0 ELSE inc.buf[i]
    BY <1>1, <1>7, <2>2
  <2>4. /\ DOMAIN f = 1 .. cap
        /\ \A i \in 1 .. cap :
              f[i] = IF i = c THEN d[c] + 1 ELSE Cleared(inc)[i]
    BY <1>1, <2>3
  <2>5. Next(inc) = [buf |-> f, len |-> len, cap |-> cap]
    <3>1. Next(inc) = [inc EXCEPT !.buf = f]
      BY <2>2 DEF Next
    <3> HIDE DEF f
    <3> QED
      BY <1>1, <3>1
  <2>6. f = [i \in 1 .. cap |-> f[i]]
    BY <2>3
  <2> HIDE DEF f
  <2>7. \A i \in 1 .. len : f[i] = e[i]
    BY <1>1, <2>1, <2>3, <2>4
  <2>8. \A i \in len + 1 .. cap : f[i] = 0
    BY <1>1, <2>3, <2>4
  <2>9. \A i \in 1 .. cap : f[i] \in Digits
    <3>1. \A i \in 1 .. len : e[i] \in Digits
      BY <1>5, <2>1
    <3>2. \A i \in 1 .. cap : i \in 1 .. len \/ i \in len + 1 .. cap
      BY <1>1
    <3> QED
      BY <1>4, <2>7, <2>8, <3>1, <3>2
  <2>10. f \in [1 .. cap -> Digits]
    BY <2>6, <2>9
  <2>11. Next(inc) = [buf |-> Next(inc).buf, len |-> Len(e), cap |-> cap]
         /\ Next(inc).buf = f
    BY <2>1, <2>5
  <2> QED
    BY <1>1, <2>1, <2>7, <2>8, <2>10, <2>11
<1>9. ASSUME CountsOver(d, e)
      PROVE  Is(Next(inc), IF len < cap THEN cap ELSE cap + GrowSize)
  <2>1. /\ \A i \in 1 .. len : d[i] = LastDigit
        /\ Len(e) = len + 1
        /\ \A i \in 1 .. len + 1 : e[i] = IF i = 1 THEN 1 ELSE 0
    BY <1>9 DEF CountsOver, Overflows, len
  <2>2. Carried(inc) = 0
    <3>1. \A i \in 1 .. inc.len : inc.buf[i] = LastDigit
      BY <1>1, <2>1
    <3> QED
      BY <1>1, <3>1, CarriedIs DEF cap
  <2>3. ASSUME NEW f, NEW room \in Nat, len + 1 <= room,
               Next(inc) = [buf |-> f, len |-> len + 1, cap |-> room],
               f = [i \in 1 .. room |-> IF i = 1 THEN 1 ELSE 0]
        PROVE  Is(Next(inc), room)
    <3>1. f \in [1 .. room -> Digits]
      BY <1>4, <2>3
    <3>2. \A i \in len + 2 .. room : f[i] = 0
      BY <1>1, <2>3
    <3>3. \A i \in 1 .. len + 1 : f[i] = e[i]
      BY <1>1, <2>1, <2>3
    <3> QED
      BY <1>1, <2>1, <2>3, <3>1, <3>2, <3>3
  <2>4. CASE len < cap
    <3> DEFINE f == [Cleared(inc) EXCEPT ![1] = 1]
               mid == [inc EXCEPT !.len = @ + 1]
    <3>1. Next(inc) = [inc EXCEPT !.len = @ + 1, !.buf = f]
      BY <1>1, <2>2, <2>4 DEF Next, cap
    <3>2. f = [i \in 1 .. cap |-> IF i = 1 THEN 1 ELSE 0]
      BY <1>1, <1>7, <2>2
    <3> HIDE DEF f
    <3>3. [inc EXCEPT !.len = @ + 1, !.buf = f] = [mid EXCEPT !.buf = f]
      OBVIOUS
    <3>4. mid = [buf |-> inc.buf, len |-> len + 1, cap |-> cap]
      BY <1>1
    <3> HIDE DEF mid
    <3>5. Next(inc) = [buf |-> f, len |-> len + 1, cap |-> cap]
      BY <3>1, <3>3, <3>4
    <3>6. len + 1 <= cap /\ cap \in Nat
      BY <1>1, <2>4
    <3>7. Is(Next(inc), cap)
      BY <2>3, <3>2, <3>5, <3>6
    <3> QED
      BY <2>4, <3>7
  <2>5. CASE ~ (len < cap)
    <3> DEFINE f == [Fresh(cap + GrowSize) EXCEPT ![1] = 1]
    <3>1. Next(inc) = [buf |-> f, len |-> len + 1, cap |-> cap + GrowSize]
      BY <1>1, <2>2, <2>5 DEF Next, cap
    <3>2. f = [i \in 1 .. cap + GrowSize |-> IF i = 1 THEN 1 ELSE 0]
      BY DEF Fresh
    <3>3. cap + GrowSize \in Nat /\ len + 1 <= cap + GrowSize
      BY <1>1, <1>4
    <3> HIDE DEF f
    <3>4. Is(Next(inc), cap + GrowSize)
      BY <2>3, <3>1, <3>2, <3>3
    <3> QED
      BY <2>5, <3>4
  <2> QED
    BY <2>4, <2>5
<1> HIDE DEF Is
<1>10. CASE \E c \in 1 .. len : CountsAt(d, e, c)
  <2>1. Len(e) = len
    BY <1>10 DEF CountsAt, len
  <2> QED
    BY <1>1, <1>6, <1>8, <1>10, <2>1 DEF cap, e
<1>11. CASE CountsOver(d, e)
  <2>1. Len(e) = len + 1
    BY <1>11 DEF CountsOver, len
  <2>2. len + 1 <= cap <=> len < cap
    BY <1>1
  <2> QED
    BY <1>6, <1>9, <1>11, <2>1, <2>2 DEF cap, e
<1> QED
  BY <1>2, <1>10, <1>11 DEF Counts, len

\* From the zero value: n calls of Next make After(n).
THEOREM NextCounts ==
    ASSUME Bounds, NEW n \in Nat PROVE Next(After(n)) = After(n + 1)
<1> DEFINE len == Len(Numeral[n])
           new == Len(Numeral[n + 1])
<1>1. /\ Shows(After(n), n) /\ After(n).cap = Room(len)
      /\ Shows(After(n + 1), n + 1) /\ After(n + 1).cap = Room(new)
  BY AfterShows
<1>2. /\ Shows(Next(After(n)), n + 1)
      /\ Next(After(n)).cap = IF new <= Room(len) THEN Room(len) ELSE Room(len) + GrowSize
  BY <1>1, NextShowsNext
<1>3. len \in Nat /\ Room(len) \in Nat /\ len <= Room(len)
  BY AfterFacts
<1>4. new = len \/ new = len + 1
  BY NumeralCounts DEF Counts, CountsAt, CountsOver
<1>5. Room(len + 1) = IF len < Room(len) THEN Room(len) ELSE Room(len) + GrowSize
  BY <1>3, RoomGrows
<1>6. Next(After(n)).cap = After(n + 1).cap
  <2> HIDE DEF len, new
  <2>1. len + 1 <= Room(len) <=> len < Room(len)
    BY <1>3
  <2> QED
    BY <1>1, <1>2, <1>3, <1>4, <1>5, <2>1
<1> QED
  BY <1>1, <1>2, <1>6, ShowsOne

\* Set takes the zeros off a numeral and keeps the rest, with no room.
THEOREM SetShows ==
    ASSUME Bounds, NEW n \in Nat, NEW z \in Nat
    PROVE  Shows(Set(Fresh(z) \o Numeral[n]), n)
<1> DEFINE d == Numeral[n]
           v == Fresh(z) \o d
           S == {i \in DOMAIN v : v[i] # 0} \cup {Len(v) + 1}
<1>1. /\ d \in Seq(Digits) /\ Len(d) \in Nat /\ 0 \in Digits
      /\ Len(d) > 0 => d[1] # 0
  <2>1. d \in Seq(Digits) /\ Len(d) \in Nat /\ 0 \in Digits
    <3>1. d \in Seq(Digits)
      BY NumeralDef
    <3>2. 0 \in Digits
      BY DEF Bounds, Digits
    <3> QED
      BY <3>1, <3>2
  <2>2. Len(d) > 0 => d[1] # 0
    <3>1. Numeral[0] = <<>>
      BY NumeralDef
    <3>2. n # 0 => d[1] # 0
      BY NumeralLeads
    <3> QED
      BY <3>1, <3>2
  <2> QED
    BY <2>1, <2>2
<1> HIDE DEF d
<1>2. /\ v \in Seq(Digits) /\ Len(v) = z + Len(d)
      /\ \A j \in 1 .. z + Len(d) : v[j] = IF j <= z THEN 0 ELSE d[j - z]
  <2>1. Fresh(z) \in Seq(Digits) /\ Len(Fresh(z)) = z
        /\ \A j \in 1 .. z : Fresh(z)[j] = 0
    BY <1>1 DEF Fresh
  <2>2. /\ v \in Seq(Digits) /\ Len(v) = Len(Fresh(z)) + Len(d)
        /\ \A j \in 1 .. Len(Fresh(z)) + Len(d) :
              v[j] = IF j <= Len(Fresh(z)) THEN Fresh(z)[j] ELSE d[j - Len(Fresh(z))]
    BY <1>1, <2>1, ConcatFacts
  <2> HIDE DEF v
  <2> QED
    BY <1>1, <2>1, <2>2
<1> HIDE DEF v
<1>3. z + 1 \in S /\ \A m \in S : z + 1 <= m
  <2>1. DOMAIN v = 1 .. z + Len(d)
    BY <1>2
  <2>2. CASE Len(d) = 0
    BY <1>1, <1>2, <2>1, <2>2
  <2>3. CASE Len(d) > 0
    <3>1. v[z + 1] # 0 /\ z + 1 \in DOMAIN v
      BY <1>1, <1>2, <2>1, <2>3
    <3>2. \A j \in DOMAIN v : v[j] # 0 => z + 1 <= j
      BY <1>1, <1>2, <2>1
    <3> QED
      BY <1>1, <1>2, <3>1, <3>2
  <2> QED
    BY <1>1, <2>2, <2>3
<1>4. Min(S) = z + 1
  <2>1. S \subseteq Int
    BY <1>1, <1>2
  <2> HIDE DEF S
  <2>2. Min(S) \in S /\ \A m \in S : Min(S) <= m
    BY <1>3 DEF Min
  <2>3. Min(S) <= z + 1 /\ z + 1 <= Min(S) /\ Min(S) \in Int /\ z + 1 \in Int
    BY <1>3, <2>1, <2>2
  <2> QED
    BY <2>3
<1>5. /\ SubSeq(v, z + 1, Len(v)) = d
  <2>1. /\ SubSeq(v, z + 1, Len(v)) \in Seq(Digits)
        /\ Len(SubSeq(v, z + 1, Len(v))) = Len(d)
        /\ \A i \in 1 .. Len(d) : SubSeq(v, z + 1, Len(v))[i] = v[z + i]
    BY <1>1, <1>2
  <2>2. \A i \in 1 .. Len(d) : v[z + i] = d[i]
    BY <1>1, <1>2
  <2> QED
    BY <1>1, <2>1, <2>2
<1>6. Set(v) = [buf |-> d, len |-> Len(d), cap |-> Len(d)]
  BY <1>4, <1>5 DEF Set
<1>7. Shows(Set(v), n)
  BY <1>1, <1>6 DEF Shows, IsInc, d
<1> QED
  BY <1>7 DEF v, d

=============================================================================
