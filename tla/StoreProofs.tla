---------------------------- MODULE StoreProofs -----------------------------
(***************************************************************************)
(* Module Store for any number of runs and instants and texts with any     *)
(* number of digits of any base: parseTime undoes formatTime, the order    *)
(* SQLite sorts texts in agrees with time up to the second, and so the     *)
(* answers of the queries can be trusted up to the second.                 *)
(*                                                                         *)
(* What a recursive function yields for every argument needs induction.    *)
(* It comes here from the least element of a set of naturals, so that no   *)
(* theorem with an operator for a parameter is needed.                     *)
(***************************************************************************)
EXTENDS Store, FiniteSetTheorems, WellFoundedInduction, TLAPS

-----------------------------------------------------------------------------
(* Induction and recursion on numbers *)

LEMMA Least ==
  ASSUME NEW S, S \subseteq Nat, S # {}
  PROVE  \E n \in S : \A k \in S : n <= k
<1>1. PICK n \in S : \A k \in S : ~(<<k, n>> \in OpToRel(<, Nat))
  BY NatLessThanWellFounded, WFMin
<1>2. \A k \in S : ~(k < n) BY <1>1 DEF OpToRel
<1> QED BY <1>2

LEMMA Induction ==
  ASSUME NEW S, 0 \in S, \A n \in Nat : n \in S => n + 1 \in S
  PROVE  Nat \subseteq S
<1> SUFFICES ASSUME ~(Nat \subseteq S) PROVE FALSE OBVIOUS
<1>1. PICK n \in Nat \ S : \A k \in Nat \ S : n <= k BY Least
<1>2. n # 0 /\ n - 1 \in Nat OBVIOUS
<1>3. n - 1 \in S BY <1>1, <1>2
<1>4. (n - 1) + 1 \in S BY <1>2, <1>3
<1> QED BY <1>1, <1>4

\* Values that are each computed from the one before exist.
LEMMA Recursion ==
  ASSUME NEW n \in Nat, NEW c \in Nat, NEW h \in [(1..n) \X Nat -> Nat]
  PROVE  \E v \in [0..n -> Nat] : v[0] = c /\ \A i \in 1..n : v[i] = h[<<i, v[i - 1]>>]
<1>. DEFINE Values(k) == {v \in [0..k -> Nat] :
                            v[0] = c /\ \A i \in 1..k : v[i] = h[<<i, v[i - 1]>>]}
            S == {k \in Nat : k <= n => Values(k) # {}}
<1>1. 0 \in S
  <2>1. [i \in 0..0 |-> c] \in Values(0) OBVIOUS
  <2> QED BY <2>1
<1>2. ASSUME NEW k \in Nat, k \in S PROVE k + 1 \in S
  <2> SUFFICES ASSUME k + 1 <= n PROVE Values(k + 1) # {} OBVIOUS
  <2>1. PICK v : v \in Values(k) BY <1>2
  <2>2. v \in [0..k -> Nat] /\ v[0] = c /\ \A i \in 1..k : v[i] = h[<<i, v[i - 1]>>] BY <2>1
  <2>. DEFINE w == [i \in 0..(k + 1) |-> IF i <= k THEN v[i] ELSE h[<<k + 1, v[k]>>]]
  <2>3. <<k + 1, v[k]>> \in (1..n) \X Nat BY <2>2
  <2>4. w \in [0..(k + 1) -> Nat] BY <2>2, <2>3
  <2>5. w[0] = c BY <2>2
  <2>6. ASSUME NEW i \in 1..(k + 1) PROVE w[i] = h[<<i, w[i - 1]>>]
    <3>1. CASE i \in 1..k
      <4>1. i \in 0..(k + 1) /\ i <= k /\ i - 1 \in 0..(k + 1) /\ i - 1 <= k BY <3>1
      <4>2. w[i] = v[i] /\ w[i - 1] = v[i - 1] BY <4>1
      <4> QED BY <2>2, <3>1, <4>2
    <3>2. CASE i = k + 1
      <4>1. i - 1 = k /\ k \in 0..(k + 1) /\ k + 1 \in 0..(k + 1) /\ ~(k + 1 <= k) BY <3>2
      <4>2. w[k + 1] = h[<<k + 1, v[k]>>] /\ w[k] = v[k] BY <4>1
      <4> QED BY <3>2, <4>1, <4>2
    <3> QED BY <3>1, <3>2
  <2>7. w \in Values(k + 1) BY <2>4, <2>5, <2>6
  <2> QED BY <2>7
<1>. HIDE DEF S
<1>3. Nat \subseteq S BY <1>1, <1>2, Induction
<1>4. n \in S => Values(n) # {} BY DEF S
<1> QED BY <1>3, <1>4

-----------------------------------------------------------------------------
(* Division *)

LEMMA Quotient ==
  ASSUME NEW t \in Nat, NEW n \in Nat \ {0}, NEW q \in Nat, NEW r \in Nat, t = q * n + r, r < n
  PROVE  t \div n = q /\ t % n = r
OBVIOUS

LEMMA Division ==
  ASSUME NEW t \in Nat, NEW n \in Nat \ {0}
  PROVE  t \div n \in Nat /\ t % n \in Nat /\ t = (t \div n) * n + (t % n) /\ t % n < n
OBVIOUS

\* One digit more.
LEMMA NextDigit ==
  ASSUME NEW t \in Nat, NEW n \in Nat \ {0}, NEW b \in Nat \ {0}
  PROVE  t \div n = (t \div (b * n)) * b + ((t \div n) % b)
<1>. DEFINE x == t \div n
            r == t % n
            q == x \div b
            d == x % b
<1>1. x \in Nat /\ r \in Nat /\ t = x * n + r /\ r < n BY Division
<1>. HIDE DEF x, r
<1>2. q \in Nat /\ d \in Nat /\ x = q * b + d /\ d < b BY <1>1, Division
<1>. HIDE DEF q, d
<1>3. b * n \in Nat \ {0} /\ d * n + r \in Nat BY <1>1, <1>2
<1>4. t = q * (b * n) + (d * n + r) BY <1>1, <1>2
<1>5. d * n + r < b * n
  <2>1. d + 1 <= b BY <1>2
  <2>2. (d + 1) * n <= b * n BY <1>2, <2>1
  <2> QED BY <1>1, <1>2, <2>2
<1>6. t \div (b * n) = q BY <1>2, <1>3, <1>4, <1>5, Quotient
<1> QED BY <1>2, <1>6 DEF x, q, d

\* The later instant is in no earlier second.
LEMMA DivisionOrder ==
  ASSUME NEW t \in Nat, NEW u \in Nat, t <= u, NEW n \in Nat \ {0}
  PROVE  t \div n <= u \div n
<1>. DEFINE x == t \div n
            y == u \div n
            r == t % n
            s == u % n
<1>1. x \in Nat /\ r \in Nat /\ t = x * n + r BY Division
<1>2. y \in Nat /\ s \in Nat /\ u = y * n + s /\ s < n BY Division
<1>. HIDE DEF x, y, r, s
<1>3. SUFFICES ASSUME y + 1 <= x PROVE FALSE BY <1>1, <1>2 DEF x, y
<1>4. (y + 1) * n <= x * n BY <1>1, <1>2, <1>3
<1> QED BY <1>1, <1>2, <1>4

-----------------------------------------------------------------------------
(* Powers of the base *)

LEMMA PowerDef ==
  /\ Power \in [0..Fraction -> Nat \ {0}] /\ Power[0] = 1
  /\ \A i \in 1..Fraction : Power[i] = Base * Power[i - 1]
<1>. DEFINE h == [p \in (1..Fraction) \X Nat |-> Base * p[2]]
<1>0. Fraction \in Nat /\ Base \in Nat \ {0} BY StoreAssumption
<1>1. h \in [(1..Fraction) \X Nat -> Nat] BY <1>0
<1>2. PICK v \in [0..Fraction -> Nat] :
             v[0] = 1 /\ \A i \in 1..Fraction : v[i] = h[<<i, v[i - 1]>>]
  <2>1. PICK c \in Nat : c = 1 OBVIOUS
  <2>. HIDE DEF h
  <2>2. Fraction \in Nat BY <1>0
  <2>3. \E v \in [0..Fraction -> Nat] :
          v[0] = c /\ \A i \in 1..Fraction : v[i] = h[<<i, v[i - 1]>>]
    BY <2>2, <1>1, Recursion, ZenonT(40)
  <2> QED BY <2>1, <2>3
<1>3. \A i \in 1..Fraction : v[i] = Base * v[i - 1]
  <2> SUFFICES ASSUME NEW i \in 1..Fraction PROVE v[i] = Base * v[i - 1] OBVIOUS
  <2>1. v[i - 1] \in Nat BY <1>0
  <2> QED BY <1>2, <2>1
<1>4. v = [i \in 0..Fraction |-> IF i = 0 THEN 1 ELSE Base * v[i - 1]]
  <2>1. ASSUME NEW i \in 0..Fraction PROVE v[i] = IF i = 0 THEN 1 ELSE Base * v[i - 1]
    <3>1. i = 0 \/ i \in 1..Fraction BY <1>0
    <3> QED BY <1>2, <1>3, <3>1
  <2> QED BY <1>2, <2>1
<1>5. Power = [i \in 0..Fraction |-> IF i = 0 THEN 1 ELSE Base * Power[i - 1]]
  BY <1>4 DEF Power
<1>6. Power[0] = 1 BY <1>0, <1>5
<1>7. \A i \in 1..Fraction : Power[i] = Base * Power[i - 1]
  <2> SUFFICES ASSUME NEW i \in 1..Fraction PROVE Power[i] = Base * Power[i - 1] OBVIOUS
  <2>1. i \in 0..Fraction /\ i # 0 BY <1>0
  <2> QED BY <1>5, <2>1
<1>. DEFINE S == {k \in Nat : k <= Fraction => Power[k] \in Nat \ {0}}
<1>8. 0 \in S BY <1>6
<1>9. ASSUME NEW k \in Nat, k \in S PROVE k + 1 \in S
  <2> SUFFICES ASSUME k + 1 <= Fraction PROVE Power[k + 1] \in Nat \ {0} OBVIOUS
  <2>1. k + 1 \in 1..Fraction /\ (k + 1) - 1 = k /\ k <= Fraction BY <1>0
  <2>2. Power[k + 1] = Base * Power[k] BY <1>7, <2>1
  <2>3. Power[k] \in Nat \ {0} BY <1>9, <2>1
  <2> QED BY <1>0, <2>2, <2>3
<1>10. \A k \in 0..Fraction : Power[k] \in Nat \ {0}
  <2>1. Nat \subseteq S
    <3>. HIDE DEF S
    <3> QED BY <1>8, <1>9, Induction
  <2> QED BY <1>0, <2>1
<1>11. DOMAIN Power = 0..Fraction BY <1>5
<1> QED BY <1>5, <1>6, <1>7, <1>10, <1>11

LEMMA PerSecondType == PerSecond \in Nat \ {0}
BY PowerDef, StoreAssumption DEF PerSecond

-----------------------------------------------------------------------------
(* Instants as texts *)

LEMMA DigitType ==
  ASSUME NEW t \in Nat, NEW i \in 1..Fraction
  PROVE  Digit(t, i) \in 0..(Base - 1) /\ Second(t) \in Nat
<1>1. Fraction - i \in 0..Fraction BY StoreAssumption
<1>2. Power[Fraction - i] \in Nat \ {0} BY <1>1, PowerDef
<1>3. t \div Power[Fraction - i] \in Nat BY <1>2, Division
<1>4. Base \in Nat \ {0} BY StoreAssumption
<1>5. Digit(t, i) \in Nat /\ Digit(t, i) < Base BY <1>3, <1>4, Division DEF Digit
<1>6. Second(t) \in Nat BY Division, PerSecondType DEF Second
<1> QED BY <1>4, <1>5, <1>6

LEMMA SecondType == ASSUME NEW t \in Nat PROVE Second(t) \in Nat
BY Division, PerSecondType DEF Second

\* The digits that are written are those up to the last that is not zero.
LEMMA LastDigit ==
  ASSUME NEW t \in Nat
  PROVE  \E m \in 0..Fraction :
           Significant(t) = 1..m /\ \A k \in (m + 1)..Fraction : Digit(t, k) = 0
<1>. DEFINE S == {m \in 0..Fraction : \A k \in (m + 1)..Fraction : Digit(t, k) = 0}
<1>0. Fraction \in Nat BY StoreAssumption
<1>1. Fraction \in S BY <1>0
<1>2. PICK m \in S : \A k \in S : m <= k
  <2>1. S # {} BY <1>1
  <2>2. S \subseteq Nat BY <1>0
  <2>. HIDE DEF S
  <2> QED BY <2>1, <2>2, Least
<1>3. ASSUME NEW i \in 1..m PROVE i \in Significant(t)
  <2>1. m \in 1..Fraction /\ m - 1 \in 0..Fraction /\ ~(m <= m - 1) BY <1>0, <1>2, <1>3
  <2>2. m - 1 \notin S BY <1>2, <2>1
  <2>3. PICK k \in ((m - 1) + 1)..Fraction : Digit(t, k) # 0 BY <2>1, <2>2
  <2>4. k \in i..Fraction /\ i \in 1..Fraction BY <1>0, <1>2, <1>3, <2>1, <2>3
  <2> QED BY <2>3, <2>4 DEF Significant
<1>4. ASSUME NEW i \in Significant(t) PROVE i \in 1..m
  <2>1. i \in 1..Fraction /\ \E k \in i..Fraction : Digit(t, k) # 0 BY <1>4 DEF Significant
  <2>2. PICK k \in i..Fraction : Digit(t, k) # 0 BY <2>1
  <2>3. k \notin (m + 1)..Fraction BY <1>2, <2>2
  <2> QED BY <1>0, <1>2, <2>1, <2>2, <2>3
<1>5. Significant(t) = 1..m BY <1>3, <1>4
<1> QED BY <1>2, <1>5

\* The characters of the text, as SQLite and the parser see them.
LEMMA TextShape ==
  ASSUME NEW t \in Nat
  PROVE  \E m \in 0..Fraction :
           /\ formatTime(t) \in Seq(Nat) /\ Len(formatTime(t)) = m + 1
           /\ formatTime(t)[1] = Second(t)
           /\ \A i \in 1..m : formatTime(t)[i + 1] = Digit(t, i)
           /\ \A i \in (m + 1)..Fraction : Digit(t, i) = 0
<1>0. Fraction \in Nat BY StoreAssumption
<1>1. PICK m \in 0..Fraction :
             Significant(t) = 1..m /\ \A k \in (m + 1)..Fraction : Digit(t, k) = 0
  BY LastDigit
<1>2. Cardinality(Significant(t)) = m
  <2>1. Cardinality(1..m) = m BY <1>0, <1>1, FS_Interval
  <2> QED BY <1>1, <2>1
<1>. DEFINE d == [i \in 1..m |-> Digit(t, i)]
<1>3. d \in Seq(Nat) /\ Len(d) = m
  <2>1. ASSUME NEW i \in 1..m PROVE Digit(t, i) \in Nat
    <3>1. i \in 1..Fraction /\ Base \in Nat BY <1>0, <1>1, StoreAssumption
    <3> QED BY <3>1, DigitType
  <2>2. m \in Nat BY <1>0, <1>1
  <2> QED BY <2>1, <2>2
<1>4. formatTime(t) = <<Second(t)>> \o d BY <1>2 DEF formatTime
<1>5. \A i \in 1..m : d[i] = Digit(t, i) OBVIOUS
<1>. HIDE DEF d
<1>6. <<Second(t)>> \in Seq(Nat) BY SecondType
<1>7. formatTime(t) \in Seq(Nat) /\ Len(formatTime(t)) = m + 1 /\ formatTime(t)[1] = Second(t)
  BY <1>0, <1>1, <1>3, <1>4, <1>6
<1>8. \A i \in 1..m : formatTime(t)[i + 1] = Digit(t, i)
  <2> SUFFICES ASSUME NEW i \in 1..m PROVE formatTime(t)[i + 1] = d[i] BY <1>5
  <2>1. i + 1 \in 1..(m + 1) /\ i + 1 > 1 /\ (i + 1) - 1 = i BY <1>0, <1>1
  <2> QED BY <1>3, <1>4, <1>6, <2>1
<1> QED BY <1>1, <1>7, <1>8

\* The digit a text has at place i, or its absence.
Written(s, i) == IF i < Len(s) THEN s[i + 1] ELSE 0

LEMMA ParsedValues ==
  ASSUME NEW s \in Seq(Nat), Len(s) > 0
  PROVE  \E v : /\ v[0] = s[1] /\ parseTime(s) = v[Fraction]
                /\ \A i \in 1..Fraction : v[i] = v[i - 1] * Base + Written(s, i)
<1>. DEFINE h == [p \in (1..Fraction) \X Nat |-> p[2] * Base + Written(s, p[1])]
            value == CHOOSE value : value =
              [i \in 0..Fraction |->
                 IF i = 0 THEN s[1]
                 ELSE value[i - 1] * Base + (IF i < Len(s) THEN s[i + 1] ELSE 0)]
<1>0. Fraction \in Nat /\ Base \in Nat BY StoreAssumption
<1>1. h \in [(1..Fraction) \X Nat -> Nat]
  <2>1. ASSUME NEW i \in 1..Fraction PROVE Written(s, i) \in Nat
    <3>1. i < Len(s) => i + 1 \in 1..Len(s) OBVIOUS
    <3> QED BY <3>1 DEF Written
  <2>2. ASSUME NEW p \in (1..Fraction) \X Nat PROVE p[2] * Base + Written(s, p[1]) \in Nat
    <3>1. p[1] \in 1..Fraction /\ p[2] \in Nat OBVIOUS
    <3>2. Written(s, p[1]) \in Nat /\ p[2] * Base \in Nat BY <1>0, <2>1, <3>1
    <3> QED BY <3>2
  <2> QED BY <2>2
<1>2. PICK c \in Nat : c = s[1] OBVIOUS
<1>3. PICK v \in [0..Fraction -> Nat] :
             v[0] = c /\ \A i \in 1..Fraction : v[i] = h[<<i, v[i - 1]>>]
  <2>. HIDE DEF h
  <2>1. Fraction \in Nat BY <1>0
  <2> QED BY <2>1, <1>1, Recursion, ZenonT(40)
<1>4. \A i \in 1..Fraction : v[i] = v[i - 1] * Base + Written(s, i)
  <2> SUFFICES ASSUME NEW i \in 1..Fraction PROVE v[i] = v[i - 1] * Base + Written(s, i) OBVIOUS
  <2>1. v[i - 1] \in Nat BY <1>0
  <2>2. <<i, v[i - 1]>> \in (1..Fraction) \X Nat BY <2>1
  <2>3. h[<<i, v[i - 1]>>] = v[i - 1] * Base + Written(s, i) BY <2>2
  <2> QED BY <1>3, <2>3
<1>5. v = [i \in 0..Fraction |->
             IF i = 0 THEN s[1] ELSE v[i - 1] * Base + (IF i < Len(s) THEN s[i + 1] ELSE 0)]
  <2>1. ASSUME NEW i \in 0..Fraction
        PROVE  v[i] = IF i = 0 THEN s[1]
                      ELSE v[i - 1] * Base + (IF i < Len(s) THEN s[i + 1] ELSE 0)
    <3>1. i = 0 \/ i \in 1..Fraction BY <1>0
    <3> QED BY <1>2, <1>3, <1>4, <3>1 DEF Written
  <2> QED BY <1>3, <2>1
<1>6. value = [i \in 0..Fraction |->
                 IF i = 0 THEN s[1]
                 ELSE value[i - 1] * Base + (IF i < Len(s) THEN s[i + 1] ELSE 0)]
  BY <1>5
<1>7. parseTime(s) = value[Fraction] BY DEF parseTime
<1>. HIDE DEF value
<1>8. value[0] = s[1] BY <1>0, <1>6
<1>9. ASSUME NEW i \in 1..Fraction PROVE value[i] = value[i - 1] * Base + Written(s, i)
  <2>1. i \in 0..Fraction /\ i # 0 BY <1>0
  <2> QED BY <1>6, <2>1 DEF Written
<1> QED BY <1>7, <1>8, <1>9

\* Whatever the number of digits, what is read is what was written.
THEOREM ReadingUndoesWriting ==
  ASSUME NEW t \in Nat
  PROVE  parseTime(formatTime(t)) = t
<1>. DEFINE s == formatTime(t)
<1>0. Fraction \in Nat /\ Base \in Nat \ {0} BY StoreAssumption
<1>1. PICK m \in 0..Fraction :
           /\ s \in Seq(Nat) /\ Len(s) = m + 1 /\ s[1] = Second(t)
           /\ \A i \in 1..m : s[i + 1] = Digit(t, i)
           /\ \A i \in (m + 1)..Fraction : Digit(t, i) = 0
  BY TextShape
<1>. HIDE DEF s
<1>2. ASSUME NEW i \in 1..Fraction PROVE Written(s, i) = Digit(t, i)
  <2>1. CASE i <= m
    <3>1. i \in 1..m /\ i < Len(s) BY <1>1, <2>1
    <3> QED BY <1>1, <3>1 DEF Written
  <2>2. CASE ~(i <= m)
    <3>1. i \in (m + 1)..Fraction /\ ~(i < Len(s)) BY <1>0, <1>1, <2>2
    <3> QED BY <1>1, <3>1 DEF Written
  <2> QED BY <2>1, <2>2
<1>3. Len(s) > 0 BY <1>1
<1>4. PICK v : /\ v[0] = s[1] /\ parseTime(s) = v[Fraction]
               /\ \A i \in 1..Fraction : v[i] = v[i - 1] * Base + Written(s, i)
  BY <1>1, <1>3, ParsedValues
<1>. DEFINE S == {k \in Nat : k <= Fraction => v[k] = t \div Power[Fraction - k]}
<1>5. 0 \in S
  <2>1. Fraction - 0 = Fraction BY <1>0
  <2> QED BY <1>1, <1>4, <2>1 DEF Second, PerSecond
<1>6. ASSUME NEW k \in Nat, k \in S PROVE k + 1 \in S
  <2> SUFFICES ASSUME k + 1 <= Fraction PROVE v[k + 1] = t \div Power[Fraction - (k + 1)]
    OBVIOUS
  <2>1. k + 1 \in 1..Fraction /\ (k + 1) - 1 = k /\ k <= Fraction BY <1>0
  <2>2. v[k + 1] = v[k] * Base + Digit(t, k + 1) BY <1>2, <1>4, <2>1
  <2>3. v[k] = t \div Power[Fraction - k] BY <1>6, <2>1
  <2>. DEFINE n == Power[Fraction - (k + 1)]
  <2>4. n \in Nat \ {0} /\ Power[Fraction - k] = Base * n
    <3>1. Fraction - k \in 1..Fraction /\ (Fraction - k) - 1 = Fraction - (k + 1)
          /\ Fraction - (k + 1) \in 0..Fraction
      BY <1>0, <2>1
    <3> QED BY <3>1, PowerDef
  <2>5. t \div n = (t \div (Base * n)) * Base + ((t \div n) % Base) BY <1>0, <2>4, NextDigit
  <2> QED BY <2>2, <2>3, <2>4, <2>5 DEF Digit
<1>7. Nat \subseteq S
  <2>. HIDE DEF S
  <2> QED BY <1>5, <1>6, Induction
<1>8. v[Fraction] = t \div Power[Fraction - Fraction] BY <1>0, <1>7
<1>9. Fraction - Fraction = 0 /\ Power[0] = 1 BY <1>0, PowerDef
<1>10. t \div 1 = t OBVIOUS
<1> QED BY <1>4, <1>8, <1>9, <1>10 DEF s

\* What is read back of an instant is that instant.
LEMMA RereadIsSame == ASSUME NEW t \in Instants PROVE Reread[t] = t
<1>1. t \in Nat BY StoreAssumption DEF Instants
<1> QED BY <1>1, ReadingUndoesWriting DEF Reread

-----------------------------------------------------------------------------
(* The order of texts *)

\* A character of a text is a number, also behind its end.
LEMMA CharType ==
  ASSUME NEW t \in Nat, NEW i \in 1..Fraction + 1
  PROVE  Char(formatTime(t), i) \in Nat /\ Char(formatTime(t), 1) = Second(t)
<1>0. Base \in Nat /\ Fraction \in Nat BY StoreAssumption
<1>1. PICK m \in 0..Fraction : formatTime(t) \in Seq(Nat) /\ Len(formatTime(t)) = m + 1
                               /\ formatTime(t)[1] = Second(t)
  BY TextShape
<1>2. ~(i > Len(formatTime(t))) => formatTime(t)[i] \in Nat BY <1>0, <1>1
<1>3. ~(1 > Len(formatTime(t))) BY <1>0, <1>1
<1> QED BY <1>0, <1>1, <1>2, <1>3 DEF Char

LEMMA BeforeText ==
  ASSUME NEW t \in Instants, NEW u \in Instants
  PROVE  /\ t \in Nat /\ u \in Nat
         /\ Before(t, u) <=> TextBefore(formatTime(t), formatTime(u))
BY StoreAssumption DEF Before, TextOrder, Instants

LEMMA Irreflexive == ASSUME NEW t \in Instants PROVE ~Before(t, t)
<1>1. t \in Nat BY BeforeText
<1>2. \A i \in 1..Fraction + 1 : ~(Char(formatTime(t), i) < Char(formatTime(t), i))
  BY <1>1, CharType
<1> QED BY <1>2, BeforeText DEF TextBefore

LEMMA Transitive ==
  ASSUME NEW t \in Instants, NEW u \in Instants, NEW v \in Instants, Before(t, u), Before(u, v)
  PROVE  Before(t, v)
<1>. DEFINE a(i) == Char(formatTime(t), i)
            b(i) == Char(formatTime(u), i)
            c(i) == Char(formatTime(v), i)
<1>0. Fraction \in Nat /\ \A i \in 1..Fraction + 1 : a(i) \in Nat /\ b(i) \in Nat /\ c(i) \in Nat
  BY CharType, BeforeText, StoreAssumption
<1>1. PICK i \in 1..Fraction + 1 : a(i) < b(i) /\ \A k \in 1..i - 1 : a(k) = b(k)
  BY BeforeText DEF TextBefore
<1>2. PICK j \in 1..Fraction + 1 : b(j) < c(j) /\ \A k \in 1..j - 1 : b(k) = c(k)
  BY BeforeText DEF TextBefore
<1>3. \E n \in 1..Fraction + 1 : a(n) < c(n) /\ \A k \in 1..n - 1 : a(k) = c(k)
  <2>. HIDE DEF a, b, c
  <2>1. CASE i < j
    <3>1. b(i) = c(i) BY <1>0, <1>1, <1>2, <2>1
    <3>2. \A k \in 1..i - 1 : a(k) = c(k) BY <1>0, <1>1, <1>2, <2>1
    <3> QED BY <1>1, <3>1, <3>2
  <2>2. CASE i = j
    <3>1. a(i) < c(i) BY <1>0, <1>1, <1>2, <2>2
    <3>2. \A k \in 1..i - 1 : a(k) = c(k) BY <1>1, <1>2, <2>2
    <3> QED BY <1>1, <3>1, <3>2
  <2>3. CASE j < i
    <3>1. a(j) = b(j) BY <1>0, <1>1, <1>2, <2>3
    <3>2. \A k \in 1..j - 1 : a(k) = c(k) BY <1>0, <1>1, <1>2, <2>3
    <3> QED BY <1>2, <3>1, <3>2
  <2> QED BY <1>0, <2>1, <2>2, <2>3
<1> QED BY <1>3, BeforeText DEF TextBefore

\* Between different seconds the texts are in the order of time.
LEMMA EarlierSecond ==
  ASSUME NEW t \in Instants, NEW u \in Instants, Second(t) < Second(u)
  PROVE  Before(t, u)
<1>1. 1 \in 1..Fraction + 1 /\ t \in Nat /\ u \in Nat BY BeforeText, StoreAssumption
<1>2. Char(formatTime(t), 1) < Char(formatTime(u), 1) BY <1>1, CharType
<1>3. \A k \in 1..1 - 1 : Char(formatTime(t), k) = Char(formatTime(u), k) OBVIOUS
<1> QED BY <1>1, <1>2, <1>3, BeforeText DEF TextBefore

\* A smaller text is never of a later second.
LEMMA BeforeSecond ==
  ASSUME NEW t \in Instants, NEW u \in Instants, Before(t, u)
  PROVE  Second(t) <= Second(u)
<1>1. Second(t) \in Nat /\ Second(u) \in Nat BY SecondType, BeforeText
<1>2. Second(u) < Second(t) => Before(t, t) BY EarlierSecond, Transitive
<1> QED BY <1>1, <1>2, Irreflexive

\* Seconds follow time.
LEMMA SecondsInOrder ==
  ASSUME NEW t \in Instants, NEW u \in Instants
  PROVE  /\ t <= u => Second(t) <= Second(u)
         /\ Second(t) < Second(u) => t < u
<1>1. t \in Nat /\ u \in Nat /\ Second(t) \in Nat /\ Second(u) \in Nat BY SecondType, BeforeText
<1>2. t <= u => Second(t) <= Second(u) BY <1>1, DivisionOrder, PerSecondType DEF Second
<1>3. u <= t => Second(u) <= Second(t) BY <1>1, DivisionOrder, PerSecondType DEF Second
<1> QED BY <1>1, <1>2, <1>3

-----------------------------------------------------------------------------
(* The last of some finished runs *)

\* Every query that sorts finds a run if there is one.
LEMMA LastByTextExists ==
  ASSUME NEW rs, rs \subseteq RunIds, rs # {}, \A r \in rs : finishedAt[r] \in Instants
  PROVE  LastByText(rs) # {}
<1>. DEFINE After(r) == {q \in rs : Before(finishedAt[r], finishedAt[q])}
            T == {After(r) : r \in rs}
<1>1. IsFiniteSet(rs)
  <2>1. IsFiniteSet(RunIds) BY FS_Interval, StoreAssumption DEF RunIds
  <2> QED BY <2>1, FS_Subset
<1>2. T \subseteq FiniteSubsetsOf(rs)
  <2>1. \A r \in rs : After(r) \subseteq rs OBVIOUS
  <2>2. \A r \in rs : IsFiniteSet(After(r)) BY <1>1, <2>1, FS_Subset
  <2> QED BY <2>1, <2>2 DEF FiniteSubsetsOf
<1>3. T # {} OBVIOUS
<1>4. PICK x \in T : \A y \in T : ~(<<y, x>> \in StrictSubsetOrdering(rs))
  <2>. HIDE DEF T
  <2> QED BY <1>2, <1>3, WFMin, FS_StrictSubsetOrderingWellFounded
<1>5. PICK r \in rs : x = After(r) BY <1>4
<1>6. ASSUME NEW q \in After(r) PROVE FALSE
  <2>1. After(q) \subseteq After(r) BY <1>6, Transitive
  <2>2. q \notin After(q) BY <1>6, Irreflexive
  <2>3. After(q) \in T BY <1>6
  <2>4. <<After(q), After(r)>> \in StrictSubsetOrdering(rs)
    BY <1>6, <2>1, <2>2 DEF StrictSubsetOrdering
  <2> QED BY <1>4, <1>5, <2>3, <2>4
<1>7. r \in LastByText(rs) BY <1>6 DEF LastByText
<1> QED BY <1>7

LEMMA LastByTimeExists ==
  ASSUME NEW rs, rs # {}, \A r \in rs : finishedAt[r] \in Instants
  PROVE  LastByTime(rs) # {}
<1>. DEFINE S == {MaxClock - finishedAt[r] : r \in rs}
<1>1. \A r \in rs : finishedAt[r] \in Nat /\ MaxClock - finishedAt[r] \in Nat
  BY StoreAssumption DEF Instants
<1>2. S \subseteq Nat /\ S # {} BY <1>1
<1>3. PICK n \in S : \A k \in S : n <= k
  <2>. HIDE DEF S
  <2> QED BY <1>2, Least
<1>4. PICK r \in rs : n = MaxClock - finishedAt[r] BY <1>3
<1>5. ASSUME NEW q \in rs PROVE finishedAt[q] <= finishedAt[r]
  <2>1. n <= MaxClock - finishedAt[q] BY <1>3
  <2> QED BY <1>1, <1>4, <2>1, StoreAssumption
<1> QED BY <1>5 DEF LastByTime

-----------------------------------------------------------------------------
(* The inductive invariant *)

\* Rows not yet inserted are empty.
Unrecorded == \A r \in RunIds : r > recorded => status[r] = "none"

\* The call in progress: the finish time of its run does not change meanwhile.
Asking ==
  /\ query.stage \in {"idle", "select"} => query.found = NoRun
  /\ query.asker \in RunIds /\ Finished(query.asker) => query.cutoff = finishedAt[query.asker]

\* What it has found.
Answering ==
  query.found # NoRun =>
    /\ query.found # query.asker /\ query.found \in header
    /\ status[query.found] = "completed"
    /\ Second(finishedAt[query.found]) <= Second(query.cutoff)

Inv == TypeOK /\ Unrecorded /\ Asking /\ Answering

LEMMA Fields ==
  ASSUME Inv
  PROVE  /\ query.stage \in {"idle", "select", "answered"}
         /\ query.asker \in RunIds \cup {NoRun} /\ query.cutoff \in Instants
         /\ query.found \in RunIds \cup {NoRun}
         /\ DOMAIN query = {"stage", "asker", "cutoff", "found"}
BY DEF Inv, TypeOK, Query

LEMMA InitInv == Init => Inv
<1> SUFFICES ASSUME Init PROVE Inv OBVIOUS
<1>1. 0 \in Instants /\ 0 \in 0..MaxRuns BY StoreAssumption DEF Instants
<1>2. Idle \in Query BY <1>1 DEF Idle, Query
<1>3. TypeOK BY <1>1, <1>2 DEF Init, TypeOK, Status
<1>4. Unrecorded BY DEF Init, Unrecorded
<1>5. query.found = NoRun /\ query.asker = NoRun /\ NoRun \notin RunIds
  BY DEF Init, Idle, NoRun, RunIds
<1>6. Asking /\ Answering BY <1>5 DEF Asking, Answering
<1> QED BY <1>3, <1>4, <1>6 DEF Inv

\* A step of the other processes that keeps what is finished and saved.
LEMMA WriterStep ==
  ASSUME Inv, TypeOK', Unrecorded', query' = query, header \subseteq header',
         \A r \in RunIds : Finished(r) => finishedAt'[r] = finishedAt[r] /\ status'[r] = status[r],
         query.asker \in RunIds /\ ~Finished(query.asker) => finishedAt'[query.asker] = Null
  PROVE  Inv'
<1>1. \A r \in RunIds : status[r] = "completed" => Finished(r) BY DEF Inv, TypeOK, Finished
<1>2. Asking' BY Fields DEF Inv, Asking, Finished
<1>3. Answering'
  <2>1. SUFFICES ASSUME query.found # NoRun
                 PROVE  /\ status'[query.found] = "completed"
                        /\ finishedAt'[query.found] = finishedAt[query.found]
    BY DEF Inv, Answering, Second
  <2>2. query.found \in RunIds /\ status[query.found] = "completed"
    BY <2>1, Fields DEF Inv, Answering
  <2> QED BY <1>1, <2>2
<1> QED BY <1>2, <1>3 DEF Inv

LEMMA WritesKeepInv ==
  ASSUME Inv,
         \/ Tick \/ RecordRun
         \/ \E r \in Runs :
              \/ FinishRun(r, "completed") \/ FinishRun(r, "degraded") \/ SaveRunDigestSummary(r)
  PROVE  Inv'
<1>0. TypeOK /\ Unrecorded BY DEF Inv
<1>n. Null \notin Instants BY StoreAssumption DEF Null, Instants
<1>1. CASE Tick
  <2>1. clock' \in Instants BY <1>0, <1>1, StoreAssumption DEF TypeOK, Tick, Instants
  <2>2. TypeOK' BY <1>0, <1>1, <2>1 DEF TypeOK, Tick
  <2> QED BY <1>0, <1>1, <2>2, WriterStep DEF Tick, Unrecorded, Finished
<1>2. CASE RecordRun
  <2>1. PICK n \in RunIds : n = recorded + 1 /\ recorded' = n /\ recorded \in Nat
    BY <1>0, <1>2, StoreAssumption DEF RecordRun, TypeOK, RunIds
  <2>2. status' = [status EXCEPT ![n] = "running"]
        /\ UNCHANGED <<clock, finishedAt, header, query>>
    BY <1>2, <2>1 DEF RecordRun
  <2>3. status[n] = "none" /\ finishedAt[n] = Null
    BY <1>0, <2>1 DEF Unrecorded, TypeOK
  <2>4. recorded' \in 0..MaxRuns BY <2>1 DEF RunIds
  <2>5. TypeOK' BY <1>0, <2>2, <2>3, <2>4 DEF TypeOK, Status
  <2>6. Unrecorded' BY <1>0, <2>1, <2>2 DEF Unrecorded, TypeOK, RunIds
  <2>8. finishedAt' = finishedAt /\ header \subseteq header' /\ query' = query BY <2>2
  <2>9. \A r \in RunIds : Finished(r) => status'[r] = status[r]
    BY <1>0, <2>2, <2>3 DEF Finished, TypeOK
  <2>10. ~Finished(query.asker) => finishedAt'[query.asker] = Null BY <2>8 DEF Finished
  <2> QED BY <2>5, <2>6, <2>8, <2>9, <2>10, WriterStep
<1>3. ASSUME NEW r \in Runs, NEW s \in {"completed", "degraded"}, FinishRun(r, s) PROVE Inv'
  <2>1. r \in RunIds /\ ~(r > recorded) BY <1>0, StoreAssumption DEF Runs, TypeOK, RunIds
  <2>2. /\ ~Finished(r) /\ query.asker # r
        /\ finishedAt' = [finishedAt EXCEPT ![r] = clock] /\ status' = [status EXCEPT ![r] = s]
        /\ UNCHANGED <<clock, recorded, header, query>>
    BY <1>3 DEF FinishRun
  <2>3. TypeOK' BY <1>0, <1>n, <2>1, <2>2 DEF TypeOK, Status
  <2>4. Unrecorded' BY <1>0, <2>1, <2>2 DEF Unrecorded, TypeOK
  <2>5. header \subseteq header' /\ query' = query BY <2>2
  <2>6. \A q \in RunIds : q # r => finishedAt'[q] = finishedAt[q] /\ status'[q] = status[q]
    BY <1>0, <2>2 DEF TypeOK
  <2>7. \A q \in RunIds : Finished(q) => finishedAt'[q] = finishedAt[q] /\ status'[q] = status[q]
    BY <2>2, <2>6
  <2>8. query.asker \in RunIds /\ ~Finished(query.asker) => finishedAt'[query.asker] = Null
    BY <2>2, <2>6 DEF Finished
  <2> QED BY <2>3, <2>4, <2>5, <2>7, <2>8, WriterStep
<1>4. ASSUME NEW r \in Runs, SaveRunDigestSummary(r) PROVE Inv'
  <2>1. r \in RunIds BY <1>0, StoreAssumption DEF Runs, TypeOK, RunIds
  <2>2. TypeOK' BY <1>0, <1>4, <2>1 DEF TypeOK, SaveRunDigestSummary
  <2>4. Unrecorded' BY <1>0, <1>4 DEF Unrecorded, SaveRunDigestSummary
  <2> QED BY <1>4, <2>2, <2>4, WriterStep DEF SaveRunDigestSummary, Finished
<1> QED BY <1>1, <1>2, <1>3, <1>4

\* The selection: a completed run that has a summary, is not the one that asks,
\* and is of no later second.
LEMMA SelectKeepsInv == ASSUME Inv, SelectSummary PROVE Inv'
<1>0. TypeOK /\ Asking /\ query.stage = "select" /\ query.found = NoRun
  BY DEF Inv, SelectSummary, Asking
<1>1. UNCHANGED <<clock, recorded, finishedAt, status, header>> BY DEF SelectSummary
<1>2. CASE query' = [query EXCEPT !.stage = "answered"]
  <2>1. query' \in Query BY <1>0, <1>2 DEF TypeOK, Query
  <2>2. query'.found = NoRun /\ query'.asker = query.asker /\ query'.cutoff = query.cutoff
    BY <1>0, <1>2, Fields
  <2>3. TypeOK' BY <1>0, <1>1, <2>1 DEF TypeOK
  <2>4. Asking' /\ Answering' BY <1>0, <1>1, <2>2 DEF Asking, Answering, Finished
  <2> QED BY <1>1, <2>3, <2>4 DEF Inv, Unrecorded
<1>3. ASSUME NEW r \in SqliteBefore(query.cutoff),
             query' = [query EXCEPT !.stage = "answered", !.found = r]
      PROVE  Inv'
  <2>1. r \in RunIds /\ status[r] = "completed" /\ Finished(r) /\ r \in header
        /\ Before(finishedAt[r], query.cutoff)
    BY <1>3 DEF SqliteBefore, LastByText, Completed
  <2>2. finishedAt[r] \in Instants BY <1>0, <2>1 DEF TypeOK, Finished
  <2>3. Second(finishedAt[r]) <= Second(query.cutoff) BY <2>1, <2>2, Fields, BeforeSecond
  <2>4. r # query.asker
    <3>1. r = query.asker => query.cutoff = finishedAt[r] BY <1>0, <2>1 DEF Asking
    <3> QED BY <2>1, <2>2, <3>1, Irreflexive
  <2>6. query' \in Query BY <1>0, <1>3, <2>1 DEF TypeOK, Query
  <2>7. query'.found = r /\ query'.stage = "answered" /\ query'.asker = query.asker
        /\ query'.cutoff = query.cutoff
    BY <1>3, Fields
  <2>8. TypeOK' BY <1>0, <1>1, <2>6 DEF TypeOK
  <2>9. Asking' BY <1>0, <1>1, <2>7 DEF Asking, Finished
  <2>10. Answering' BY <1>1, <2>1, <2>3, <2>4, <2>7 DEF Answering, Second
  <2> QED BY <1>1, <2>8, <2>9, <2>10 DEF Inv, Unrecorded
<1> QED BY <1>2, <1>3 DEF SelectSummary

LEMMA AskKeepsInv ==
  ASSUME Inv, Return \/ \E r \in Runs : AskPrevious(r)
  PROVE  Inv'
<1>0. TypeOK BY DEF Inv
<1>1. UNCHANGED <<clock, recorded, finishedAt, status, header>>
  BY DEF Return, AskPrevious
<1>2. CASE Return
  <2>1. query' = Idle BY <1>2 DEF Return
  <2>2. Idle \in Query
    <3>1. 0 \in Instants BY StoreAssumption DEF Instants
    <3> QED BY <3>1 DEF Idle, Query
  <2>3. NoRun \notin RunIds BY DEF NoRun, RunIds
  <2>4. TypeOK' BY <1>0, <1>1, <2>1, <2>2 DEF TypeOK
  <2>5. Asking' /\ Answering' BY <2>1, <2>3 DEF Idle, Asking, Answering
  <2> QED BY <1>1, <2>4, <2>5 DEF Inv, Unrecorded
<1>3. ASSUME NEW r \in Runs, AskPrevious(r) PROVE Inv'
  <2>1. r \in RunIds BY <1>0, StoreAssumption DEF Runs, TypeOK, RunIds
  <2>2. Cutoff(r) \in Instants /\ (Finished(r) => Cutoff(r) = finishedAt[r])
    BY <1>0, <2>1, RereadIsSame DEF Cutoff, TypeOK, Finished
  <2>3. query' = [stage |-> "select", asker |-> r, cutoff |-> Cutoff(r), found |-> NoRun]
    BY <1>3 DEF AskPrevious, Idle
  <2>4. query' \in Query BY <2>1, <2>2, <2>3 DEF Query
  <2>5. TypeOK' BY <1>0, <1>1, <2>4 DEF TypeOK
  <2>6. Asking' /\ Answering' BY <1>1, <2>2, <2>3 DEF Asking, Answering, Finished
  <2> QED BY <1>1, <2>5, <2>6 DEF Inv, Unrecorded
<1> QED BY <1>2, <1>3

LEMMA NextKeepsInv == ASSUME Inv, [Next]_vars PROVE Inv'
<1>1. CASE UNCHANGED vars
  <2>1. TypeOK' BY <1>1 DEF Inv, vars, TypeOK
  <2>2. Unrecorded' BY <1>1 DEF Inv, vars, Unrecorded
  <2> QED BY <1>1, <2>1, <2>2, WriterStep DEF vars, Finished
<1>2. CASE Next
  BY <1>2, WritesKeepInv, SelectKeepsInv, AskKeepsInv DEF Next
<1> QED BY <1>1, <1>2

-----------------------------------------------------------------------------
(* The theorems *)

\* The invariant of the table, its writers and the reader between them.
THEOREM InvariantHolds == Spec => []Inv
BY InitInv, NextKeepsInv, PTL DEF Spec

\* Every state of the table and of the query is well typed; in particular the
\* cutoff that was parsed from a text is an instant.
THEOREM TypeCorrect == Spec => []TypeOK
<1>1. Inv => TypeOK BY DEF Inv
<1> QED BY <1>1, InvariantHolds, PTL

\* The watermark SQLite gives is of the second in which the last successful run
\* finished, for every width of the fraction.
THEOREM WatermarkIsRight == Spec => []WatermarkWithinSecond
<1>1. TypeOK => WatermarkWithinSecond
  <2> SUFFICES ASSUME TypeOK PROVE WatermarkWithinSecond OBVIOUS
  <2>1. Completed \subseteq RunIds /\ \A r \in Completed : finishedAt[r] \in Instants
    BY DEF TypeOK, Completed, Finished
  <2>2. SqliteLastSuccess = {} <=> NoopLastSuccess = {}
    <3>1. Completed # {} => SqliteLastSuccess # {} /\ NoopLastSuccess # {}
      BY <2>1, LastByTextExists, LastByTimeExists DEF SqliteLastSuccess, NoopLastSuccess
    <3> QED BY <3>1 DEF SqliteLastSuccess, NoopLastSuccess, LastByText, LastByTime
  <2>3. ASSUME NEW r \in SqliteLastSuccess, NEW q \in NoopLastSuccess
        PROVE  Second(Reread[finishedAt[r]]) = Second(finishedAt[q])
    <3>1. r \in Completed /\ q \in Completed /\ ~Before(finishedAt[r], finishedAt[q])
          /\ finishedAt[r] <= finishedAt[q]
      BY DEF SqliteLastSuccess, NoopLastSuccess, LastByText, LastByTime
    <3>2. finishedAt[r] \in Instants /\ finishedAt[q] \in Instants BY <2>1, <3>1
    <3>3. Second(finishedAt[r]) <= Second(finishedAt[q]) BY <3>1, <3>2, SecondsInOrder
    <3>4. ~(Second(finishedAt[r]) < Second(finishedAt[q])) BY <3>1, <3>2, EarlierSecond
    <3>5. Second(finishedAt[r]) \in Nat /\ Second(finishedAt[q]) \in Nat
      BY <3>2, BeforeText, SecondType
    <3> QED BY <3>2, <3>3, <3>4, <3>5, RereadIsSame
  <2> QED BY <2>2, <2>3 DEF WatermarkWithinSecond
<1> QED BY <1>1, TypeCorrect, PTL

\* The summary a run is compared with is of another, completed run of no later
\* second, although other processes finish runs while the call goes on.
THEOREM PreviousRunIsPrior == Spec => []PreviousIsPrior
<1>1. Inv => PreviousIsPrior BY DEF Inv, Answering, PreviousIsPrior
<1> QED BY <1>1, InvariantHolds, PTL

\* For a finished run SQLite and the in-memory store find predecessors of the
\* same second, unless SQLite finds one of the asker's own second.
THEOREM BackendsFindTheSame == Spec => []BackendsAgree
<1>1. TypeOK => BackendsAgree
  <2> SUFFICES ASSUME TypeOK, NEW r \in RunIds, Finished(r), NEW q \in NoopPrevious(r),
                      Second(finishedAt[q]) < Second(finishedAt[r])
               PROVE  /\ SqliteBefore(finishedAt[r]) # {}
                      /\ \A s \in SqliteBefore(finishedAt[r]) :
                           Second(finishedAt[s]) \in
                             {Second(finishedAt[q]), Second(finishedAt[r])}
    BY DEF BackendsAgree
  <2>. DEFINE earlier == {s \in Completed \cap header : Before(finishedAt[s], finishedAt[r])}
  <2>1. \A s \in Completed : s \in RunIds /\ finishedAt[s] \in Instants
    BY DEF TypeOK, Completed, Finished
  <2>2. finishedAt[r] \in Instants BY DEF TypeOK, Finished
  <2>3. q \in Completed \cap header BY DEF NoopPrevious, LastByTime
  <2>4. q \in earlier BY <2>1, <2>2, <2>3, EarlierSecond
  <2>5. SqliteBefore(finishedAt[r]) = LastByText(earlier) BY DEF SqliteBefore
  <2>6. LastByText(earlier) # {}
    <3>1. earlier \subseteq RunIds /\ \A s \in earlier : finishedAt[s] \in Instants BY <2>1
    <3>. HIDE DEF earlier
    <3> QED BY <2>4, <3>1, LastByTextExists
  <2>7. ASSUME NEW s \in LastByText(earlier)
        PROVE  Second(finishedAt[s]) \in {Second(finishedAt[q]), Second(finishedAt[r])}
    <3>1. s \in Completed \cap header /\ Before(finishedAt[s], finishedAt[r])
          /\ ~Before(finishedAt[s], finishedAt[q])
      BY <2>4 DEF LastByText
    <3>2. finishedAt[s] \in Instants /\ finishedAt[q] \in Instants BY <2>1, <2>3, <3>1
    <3>3. Second(finishedAt[s]) <= Second(finishedAt[r]) BY <2>2, <3>1, <3>2, BeforeSecond
    <3>4. ~(Second(finishedAt[s]) < Second(finishedAt[q])) BY <3>1, <3>2, EarlierSecond
    <3>5. Second(finishedAt[s]) < Second(finishedAt[r]) =>
            Second(finishedAt[s]) <= Second(finishedAt[q])
      <4> SUFFICES ASSUME Second(finishedAt[s]) < Second(finishedAt[r])
                   PROVE  Second(finishedAt[s]) <= Second(finishedAt[q])
        OBVIOUS
      <4>1. finishedAt[s] < finishedAt[r] BY <2>2, <3>2, SecondsInOrder
      <4>2. finishedAt[s] <= finishedAt[q] BY <3>1, <4>1 DEF NoopPrevious, LastByTime
      <4> QED BY <3>2, <4>2, SecondsInOrder
    <3>6. Second(finishedAt[s]) \in Nat /\ Second(finishedAt[q]) \in Nat
          /\ Second(finishedAt[r]) \in Nat
      BY <2>2, <3>2, BeforeText, SecondType
    <3> QED BY <3>3, <3>4, <3>5, <3>6
  <2> QED BY <2>5, <2>6, <2>7
<1> QED BY <1>1, TypeCorrect, PTL
=============================================================================
