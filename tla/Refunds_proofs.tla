--------------------------- MODULE Refunds_proofs ---------------------------
(***************************************************************************)
(* What Refunds promises for any payments, refunds, disputes, requests and *)
(* prices: what the tables say has happened at Stripe, what belongs        *)
(* together is committed together, and what a processed event has shown is *)
(* on record.                                                              *)
(***************************************************************************)
EXTENDS Refunds, SequenceTheorems, WellFoundedInduction, TLAPS

-----------------------------------------------------------------------------
(* Amounts                                                                 *)

LEMMA DecimalOfCents ==
  ASSUME NEW c \in Int
  PROVE  CentsToDecimal(c) \in Decimal
<1> DEFINE abs == IF c < 0 THEN -c ELSE c
<1>1. abs \in Nat /\ abs \div 100 \in Nat
  OBVIOUS
<1>2. (abs % 100) \div 10 \in Digit /\ abs % 10 \in Digit
  BY DEF Digit
<1>3. <<(abs % 100) \div 10, abs % 10>> \in Seq(Digit)
  BY <1>2
<1>4. (c < 0) \in BOOLEAN
  OBVIOUS
<1> HIDE DEF abs
<1>5. [neg |-> c < 0, int |-> abs \div 100,
       frac |-> <<(abs % 100) \div 10, abs % 10>>] \in Decimal
  BY <1>1, <1>3, <1>4 DEF Decimal
<1> QED BY <1>5 DEF CentsToDecimal, abs

\* Cents survive being stored as a decimal and read back.
LEMMA RoundTrip ==
  ASSUME NEW c \in Int
  PROVE  DecimalAmountToCents(CentsToDecimal(c)) = c
<1> DEFINE abs == IF c < 0 THEN -c ELSE c
           d   == CentsToDecimal(c)
<1>1. abs \in Nat
  OBVIOUS
<1>2. /\ d.neg = (c < 0) /\ d.int = abs \div 100
      /\ d.frac = <<(abs % 100) \div 10, abs % 10>>
  BY DEF CentsToDecimal
<1>3. FracCents(d.frac) = 10 * ((abs % 100) \div 10) + (abs % 10)
  BY <1>2 DEF FracCents
<1> HIDE DEF d
<1>4. 100 * (abs \div 100) + (10 * ((abs % 100) \div 10) + (abs % 10)) = abs
  BY <1>1
<1>5. DecimalAmountToCents(d) = IF c < 0 THEN -abs ELSE abs
  BY <1>2, <1>3, <1>4 DEF DecimalAmountToCents
<1> QED BY <1>5 DEF d

\* A set of naturals that is not empty has a least member.
LEMMA Least ==
  ASSUME NEW T, T \subseteq Nat, T # {}
  PROVE  \E x \in T : \A y \in T : x <= y
<1> DEFINE R == {ss \in Nat \X Nat : ss[1] < ss[2]}
<1>1. IsWellFoundedOn(R, Nat)
  BY NatLessThanWellFounded DEF OpToRel
<1>2. PICK x \in T : \A y \in T : ~(<<y, x>> \in R)
  <2> HIDE DEF R
  <2> QED BY <1>1, WFMin
<1>3. ASSUME NEW y \in T PROVE ~(y < x)
  <2>1. <<y, x>> \in Nat \X Nat /\ (y < x => <<y, x>>[1] < <<y, x>>[2])
    OBVIOUS
  <2> QED BY <2>1, <1>2
<1> QED BY <1>3

\* Numbers can be put together digit by digit: the functions that Spelled and
\* Scale define by recursion exist.
LEMMA DigitByDigit ==
  ASSUME NEW n \in Nat, NEW b \in Nat, NEW c \in [1 .. n -> Nat]
  PROVE  \E g \in [0 .. n -> Nat] :
           \A i \in 0 .. n : g[i] = IF i = 0 THEN b ELSE 10 * g[i - 1] + c[i]
<1> DEFINE Good(m) == \E g \in [0 .. m -> Nat] :
             \A i \in 0 .. m : g[i] = IF i = 0 THEN b ELSE 10 * g[i - 1] + c[i]
           Bad == {m \in 0 .. n : ~Good(m)}
<1>1. Good(0)
  <2> DEFINE g == [i \in 0 .. 0 |-> b]
  <2>1. g \in [0 .. 0 -> Nat] /\ \A i \in 0 .. 0 : g[i] = b /\ i = 0
    OBVIOUS
  <2> HIDE DEF g
  <2> QED BY <2>1
<1>2. ASSUME NEW m \in 1 .. n, Good(m - 1) PROVE Good(m)
  <2>1. PICK g \in [0 .. m - 1 -> Nat] :
          \A i \in 0 .. m - 1 : g[i] = IF i = 0 THEN b ELSE 10 * g[i - 1] + c[i]
    BY <1>2
  <2> DEFINE h == [i \in 0 .. m |-> IF i = m THEN 10 * g[m - 1] + c[m] ELSE g[i]]
  <2>2. \A i \in 0 .. m : i # m => i \in 0 .. m - 1
    OBVIOUS
  <2>3. h \in [0 .. m -> Nat]
    <3>1. 10 * g[m - 1] + c[m] \in Nat
      OBVIOUS
    <3> QED BY <2>2, <3>1
  <2>4. ASSUME NEW i \in 0 .. m PROVE h[i] = IF i = 0 THEN b ELSE 10 * h[i - 1] + c[i]
    <3>1. i # 0 => i - 1 \in 0 .. m - 1 /\ i - 1 # m /\ i - 1 \in 0 .. m
      OBVIOUS
    <3>2. i # 0 => h[i - 1] = g[i - 1]
      BY <3>1
    <3>3. CASE i = m
      <4>1. h[i] = 10 * g[m - 1] + c[m] /\ i # 0
        BY <3>3
      <4> HIDE DEF h
      <4> QED BY <4>1, <3>2, <3>3
    <3>4. CASE i # m
      <4>1. h[i] = g[i] /\ g[i] = IF i = 0 THEN b ELSE 10 * g[i - 1] + c[i]
        BY <2>1, <2>2, <3>4
      <4> HIDE DEF h
      <4> QED BY <4>1, <3>2
    <3> QED BY <3>3, <3>4
  <2> HIDE DEF h
  <2> QED BY <2>3, <2>4
<1> HIDE DEF Good
<1>3. ASSUME Bad # {} PROVE FALSE
  <2>1. PICK m \in Bad : \A k \in Bad : m <= k
    <3>1. Bad \subseteq Nat
      OBVIOUS
    <3> HIDE DEF Bad
    <3> QED BY <1>3, <3>1, Least
  <2>2. m \in 0 .. n /\ ~Good(m) /\ m # 0
    BY <1>1
  <2>3. m - 1 \in 0 .. n /\ m - 1 \notin Bad
    <3>1. m - 1 \in 0 .. n /\ ~(m <= m - 1)
      BY <2>2
    <3> HIDE DEF Bad
    <3> QED BY <2>1, <3>1
  <2> QED BY <1>2, <2>2, <2>3
<1>4. Good(n)
  BY <1>3
<1> QED BY <1>4 DEF Good

\* The recursion behind Spelled.
LEMMA SpelledBy ==
  ASSUME NEW f \in Seq(Digit)
  PROVE  \E v : /\ Spelled(f) = v[Len(f)] /\ v[0] = 0
                /\ \A i \in 1 .. Len(f) : v[i] = 10 * v[i - 1] + f[i]
<1> DEFINE n == Len(f)
           Unfolds(v) == v = [i \in 0 .. n |-> IF i = 0 THEN 0 ELSE 10 * v[i - 1] + f[i]]
           v == CHOOSE g : Unfolds(g)
<1>1. n \in Nat /\ f \in [1 .. n -> Nat]
  BY DEF Digit
<1>2. PICK g \in [0 .. n -> Nat] : \A i \in 0 .. n : g[i] = IF i = 0 THEN 0 ELSE 10 * g[i - 1] + f[i]
  <2> HIDE DEF n
  <2>1. 0 \in Nat
    OBVIOUS
  <2> QED BY <1>1, <2>1, DigitByDigit, ZenonT(60)
<1>3. Unfolds(g)
  BY <1>2
<1>4. Unfolds(v)
  <2> HIDE DEF Unfolds
  <2> QED BY <1>3
<1>5. Spelled(f) = v[n]
  BY DEF Spelled
<1> HIDE DEF v
<1>6. v[0] = 0 /\ \A i \in 1 .. n : v[i] = 10 * v[i - 1] + f[i]
  <2>1. \A i \in 0 .. n : v[i] = IF i = 0 THEN 0 ELSE 10 * v[i - 1] + f[i]
    BY <1>4
  <2>2. 0 \in 0 .. n /\ \A i \in 1 .. n : i \in 0 .. n /\ i # 0
    BY <1>1
  <2> HIDE DEF Unfolds
  <2> QED BY <2>1, <2>2
<1> QED BY <1>5, <1>6

\* The recursion behind Scale.
LEMMA ScaledBy ==
  ASSUME NEW f \in Seq(Digit)
  PROVE  \E p : /\ Scale(f) = p[Len(f)] /\ p[0] = 1
                /\ \A i \in 1 .. Len(f) : p[i] = 10 * p[i - 1]
<1> DEFINE n == Len(f)
           Unfolds(p) == p = [i \in 0 .. n |-> IF i = 0 THEN 1 ELSE 10 * p[i - 1]]
           p == CHOOSE g : Unfolds(g)
           zeros == [i \in 1 .. n |-> 0]
<1>1. n \in Nat /\ zeros \in [1 .. n -> Nat]
  OBVIOUS
<1>2. PICK g \in [0 .. n -> Nat] :
        \A i \in 0 .. n : g[i] = IF i = 0 THEN 1 ELSE 10 * g[i - 1] + zeros[i]
  <2>1. 1 \in Nat
    OBVIOUS
  <2> HIDE DEF n, zeros
  <2> QED BY <1>1, <2>1, DigitByDigit, ZenonT(60)
<1>3. Unfolds(g)
  <2>1. \A i \in 0 .. n : i # 0 => i \in 1 .. n /\ i - 1 \in 0 .. n
    BY <1>1
  <2>2. \A i \in 0 .. n : g[i] = IF i = 0 THEN 1 ELSE 10 * g[i - 1]
    BY <1>2, <2>1
  <2> QED BY <2>2
<1>4. Unfolds(p)
  <2> HIDE DEF Unfolds
  <2> QED BY <1>3
<1>5. Scale(f) = p[n]
  BY DEF Scale
<1> HIDE DEF p
<1>6. p[0] = 1 /\ \A i \in 1 .. n : p[i] = 10 * p[i - 1]
  BY <1>1, <1>4
<1> QED BY <1>5, <1>6

\* Few digits.
LEMMA FewDigits ==
  ASSUME NEW f \in Seq(Digit), Len(f) \in 0 .. 2
  PROVE  /\ Len(f) = 0 => Scale(f) = 1 /\ Spelled(f) = 0
         /\ Len(f) = 1 => Scale(f) = 10 /\ Spelled(f) = f[1]
         /\ Len(f) = 2 => Scale(f) = 100 /\ Spelled(f) = 10 * f[1] + f[2]
<1>1. PICK v : /\ Spelled(f) = v[Len(f)] /\ v[0] = 0
               /\ \A i \in 1 .. Len(f) : v[i] = 10 * v[i - 1] + f[i]
  BY SpelledBy
<1>2. PICK p : /\ Scale(f) = p[Len(f)] /\ p[0] = 1
               /\ \A i \in 1 .. Len(f) : p[i] = 10 * p[i - 1]
  BY ScaledBy
<1>3. Len(f) >= 1 => f[1] \in Nat /\ v[1] = f[1] /\ p[1] = 10
  <2> SUFFICES ASSUME Len(f) >= 1 PROVE f[1] \in Nat /\ v[1] = f[1] /\ p[1] = 10
    OBVIOUS
  <2>1. 1 \in 1 .. Len(f) /\ f[1] \in Nat /\ 1 - 1 = 0
    BY DEF Digit
  <2> QED BY <2>1, <1>1, <1>2
<1>4. Len(f) = 2 => v[2] = 10 * f[1] + f[2] /\ p[2] = 100
  <2> SUFFICES ASSUME Len(f) = 2 PROVE v[2] = 10 * f[1] + f[2] /\ p[2] = 100
    OBVIOUS
  <2>1. 2 \in 1 .. Len(f) /\ 2 - 1 = 1
    OBVIOUS
  <2> QED BY <2>1, <1>1, <1>2, <1>3
<1> QED BY <1>1, <1>2, <1>3, <1>4

\* Three digits and more: the first three, then what the others leave below one.
LEMMA ManyDigits ==
  ASSUME NEW f \in Seq(Digit), Len(f) >= 3
  PROVE  \E m \in Nat \ {0}, rest \in Nat :
           /\ rest < m
           /\ Scale(f) = 1000 * m
           /\ Spelled(f) = (100 * f[1] + 10 * f[2] + f[3]) * m + rest
<1>1. PICK v : /\ Spelled(f) = v[Len(f)] /\ v[0] = 0
               /\ \A i \in 1 .. Len(f) : v[i] = 10 * v[i - 1] + f[i]
  BY SpelledBy
<1>2. PICK p : /\ Scale(f) = p[Len(f)] /\ p[0] = 1
               /\ \A i \in 1 .. Len(f) : p[i] = 10 * p[i - 1]
  BY ScaledBy
<1>3. /\ Len(f) \in Nat /\ \A i \in 1 .. Len(f) : f[i] \in Nat /\ f[i] <= 9
      /\ 1 \in 1 .. Len(f) /\ 2 \in 1 .. Len(f) /\ 3 \in 1 .. Len(f)
  BY DEF Digit
<1> DEFINE c == 100 * f[1] + 10 * f[2] + f[3]
           Good(i) == \E m \in Nat \ {0} : \E rest \in Nat :
                        rest < m /\ p[i] = 1000 * m /\ v[i] = c * m + rest
           Bad == {i \in 3 .. Len(f) : ~Good(i)}
<1>4. c \in Nat
  BY <1>3
<1>5. Good(3)
  <2>1. v[1] = f[1] /\ p[1] = 10
    <3>1. 1 - 1 = 0
      OBVIOUS
    <3> QED BY <3>1, <1>1, <1>2, <1>3
  <2>2. v[2] = 10 * f[1] + f[2] /\ p[2] = 100
    <3>1. 2 - 1 = 1
      OBVIOUS
    <3> QED BY <3>1, <2>1, <1>1, <1>2, <1>3
  <2>3. v[3] = c /\ p[3] = 1000
    <3>1. v[3] = 10 * v[2] + f[3] /\ p[3] = 10 * p[2]
      <4>1. 3 - 1 = 2
        OBVIOUS
      <4> QED BY <4>1, <1>1, <1>2, <1>3
    <3>2. f[1] \in Nat /\ f[2] \in Nat /\ f[3] \in Nat
      BY <1>3
    <3> QED BY <3>1, <3>2, <2>2
  <2>4. 0 < 1 /\ p[3] = 1000 * 1 /\ v[3] = c * 1 + 0
    BY <2>3, <1>4
  <2> QED BY <2>4
<1> HIDE DEF c
<1>6. ASSUME NEW i \in 4 .. Len(f), Good(i - 1) PROVE Good(i)
  <2>1. PICK m \in Nat \ {0}, rest \in Nat :
          rest < m /\ p[i - 1] = 1000 * m /\ v[i - 1] = c * m + rest
    BY <1>6
  <2>2. i \in 1 .. Len(f) /\ f[i] \in Nat /\ f[i] <= 9
    BY <1>3
  <2>3. 10 * rest + f[i] \in Nat /\ 10 * rest + f[i] < 10 * m /\ 10 * m \in Nat \ {0}
    BY <2>1, <2>2
  <2>4. p[i] = 1000 * (10 * m)
    BY <2>1, <2>2, <1>2
  <2>5. v[i] = c * (10 * m) + (10 * rest + f[i])
    <3>1. v[i] = 10 * (c * m + rest) + f[i]
      BY <2>1, <2>2, <1>1
    <3> QED BY <3>1, <2>2, <1>4
  <2> QED BY <2>3, <2>4, <2>5
<1> HIDE DEF Good
<1>7. ASSUME Bad # {} PROVE FALSE
  <2>1. PICK i \in Bad : \A k \in Bad : i <= k
    <3>1. Bad \subseteq Nat
      BY <1>3
    <3> HIDE DEF Bad
    <3> QED BY <1>7, <3>1, Least
  <2>2. i \in 4 .. Len(f) /\ ~Good(i)
    BY <1>3, <1>5
  <2>3. i - 1 \in 3 .. Len(f) /\ i - 1 \notin Bad
    <3>1. i - 1 \in 3 .. Len(f) /\ ~(i <= i - 1)
      BY <2>2, <1>3
    <3> HIDE DEF Bad
    <3> QED BY <2>1, <3>1
  <2> QED BY <1>6, <2>2, <2>3
<1>8. PICK m \in Nat \ {0}, rest \in Nat :
        rest < m /\ p[Len(f)] = 1000 * m /\ v[Len(f)] = c * m + rest
  <2>1. Good(Len(f))
    BY <1>3, <1>7
  <2> QED BY <2>1 DEF Good
<1> QED BY <1>1, <1>2, <1>8 DEF c

\* A quotient is what it takes to be one.
LEMMA Quotient ==
  ASSUME NEW a \in Nat, NEW b \in Nat \ {0}, NEW q \in Nat, b * q <= a, a < b * q + b
  PROVE  a \div b = q
<1>1. PICK r \in Nat : a = b * q + r /\ r < b
  <2>1. a - b * q \in Nat /\ a - b * q < b
    OBVIOUS
  <2> QED BY <2>1
<1> QED BY <1>1

\* The rounding of no digit, one and two.
LEMMA RoundedByFew ==
  \A i \in Nat : \A x, y \in 0 .. 9 :
    /\ (200 * (i * 1 + 0) + 1) \div (2 * 1) = 100 * i + 0
    /\ (200 * (i * 10 + x) + 10) \div (2 * 10) = 100 * i + 10 * x
    /\ (200 * (i * 100 + (10 * x + y)) + 100) \div (2 * 100) = 100 * i + (10 * x + y)
<1> SUFFICES ASSUME NEW i \in Nat, NEW x \in 0 .. 9, NEW y \in 0 .. 9
    PROVE /\ (200 * (i * 1 + 0) + 1) \div (2 * 1) = 100 * i + 0
          /\ (200 * (i * 10 + x) + 10) \div (2 * 10) = 100 * i + 10 * x
          /\ (200 * (i * 100 + (10 * x + y)) + 100) \div (2 * 100) = 100 * i + (10 * x + y)
  OBVIOUS
<1>1. (200 * (i * 1 + 0) + 1) \div (2 * 1) = 100 * i + 0
  OBVIOUS
<1>2. (200 * (i * 10 + x) + 10) \div (2 * 10) = 100 * i + 10 * x
  OBVIOUS
<1>3. (200 * (i * 100 + (10 * x + y)) + 100) \div (2 * 100) = 100 * i + (10 * x + y)
  OBVIOUS
<1> QED BY <1>1, <1>2, <1>3

\* An integer part and its digits, rounded.
LEMMA RoundedFrac ==
  ASSUME NEW i \in Nat, NEW f \in Seq(Digit)
  PROVE  (200 * (i * Scale(f) + Spelled(f)) + Scale(f)) \div (2 * Scale(f)) = 100 * i + FracCents(f)
<1>0. Len(f) = 0 \/ Len(f) = 1 \/ Len(f) = 2 \/ Len(f) >= 3
  <2>1. Len(f) \in Nat
    OBVIOUS
  <2>2. \A n \in Nat : n = 0 \/ n = 1 \/ n = 2 \/ n >= 3
    OBVIOUS
  <2> QED BY <2>1, <2>2, Zenon
<1>1. \A k \in 1 .. Len(f) : f[k] \in 0 .. 9
  BY DEF Digit
<1>2. CASE Len(f) = 0
  <2>1. Scale(f) = 1 /\ Spelled(f) = 0
    <3>1. Len(f) \in 0 .. 2
      BY <1>2
    <3> QED BY <1>2, <3>1, FewDigits
  <2>2. FracCents(f) = 0
    BY <1>2 DEF FracCents
  <2>3. (200 * (i * 1 + 0) + 1) \div (2 * 1) = 100 * i + 0
    <3>1. 0 \in 0 .. 9
      OBVIOUS
    <3> QED BY <3>1, RoundedByFew, ZenonT(60)
  <2> QED BY <2>1, <2>2, <2>3, Zenon
<1>3. CASE Len(f) = 1
  <2>1. Scale(f) = 10 /\ Spelled(f) = f[1]
    <3>1. Len(f) \in 0 .. 2
      BY <1>3
    <3> QED BY <1>3, <3>1, FewDigits
  <2>2. FracCents(f) = 10 * f[1]
    BY <1>3 DEF FracCents
  <2>3. (200 * (i * 10 + f[1]) + 10) \div (2 * 10) = 100 * i + 10 * f[1]
    <3>1. f[1] \in 0 .. 9
      BY <1>1, <1>3
    <3> QED BY <3>1, RoundedByFew, ZenonT(60)
  <2> QED BY <2>1, <2>2, <2>3, Zenon
<1>4. CASE Len(f) = 2
  <2>1. Scale(f) = 100 /\ Spelled(f) = 10 * f[1] + f[2]
    <3>1. Len(f) \in 0 .. 2
      BY <1>4
    <3> QED BY <1>4, <3>1, FewDigits
  <2>2. FracCents(f) = 10 * f[1] + f[2]
    BY <1>4 DEF FracCents
  <2>3. (200 * (i * 100 + (10 * f[1] + f[2])) + 100) \div (2 * 100) = 100 * i + (10 * f[1] + f[2])
    <3>1. f[1] \in 0 .. 9 /\ f[2] \in 0 .. 9
      BY <1>1, <1>4
    <3> QED BY <3>1, RoundedByFew, ZenonT(60)
  <2> QED BY <2>1, <2>2, <2>3, Zenon
<1>5. CASE Len(f) >= 3
  <2>1. PICK m \in Nat \ {0}, rest \in Nat :
          /\ rest < m
          /\ Scale(f) = 1000 * m
          /\ Spelled(f) = (100 * f[1] + 10 * f[2] + f[3]) * m + rest
    BY <1>5, ManyDigits
  <2>2. f[1] \in 0 .. 9 /\ f[2] \in 0 .. 9 /\ f[3] \in 0 .. 9
    BY <1>1, <1>5
  <2>3. PICK up \in 0 .. 1 : (up = 1 <=> f[3] >= 5) /\ FracCents(f) = 10 * f[1] + f[2] + up
    <3> DEFINE up == IF f[3] >= 5 THEN 1 ELSE 0
    <3>1. FracCents(f) = 10 * f[1] + f[2] + up
      BY <1>5 DEF FracCents
    <3>2. up \in 0 .. 1 /\ (up = 1 <=> f[3] >= 5)
      BY <2>2
    <3> HIDE DEF up
    <3> QED BY <3>1, <3>2
  <2>4. PICK n, s, x, y, z :
          /\ n = Scale(f) /\ s = Spelled(f) /\ x = f[1] /\ y = f[2] /\ z = f[3]
    OBVIOUS
  <2>5. /\ rest < m /\ n = 1000 * m /\ s = (100 * x + 10 * y + z) * m + rest
        /\ x \in 0 .. 9 /\ y \in 0 .. 9 /\ z \in 0 .. 9 /\ (up = 1 <=> z >= 5)
    BY <2>1, <2>2, <2>3, <2>4, ZenonT(60)
  <2>6. (200 * (i * n + s) + n) \div (2 * n) = 100 * i + (10 * x + y + up)
    <3> DEFINE a == 200 * (i * n + s) + n
               b == 2 * n
               base == 100 * i + (10 * x + y)
               r == 200 * (z * m) + 200 * rest + 1000 * m
    <3>0. x \in 0 .. 9 /\ y \in 0 .. 9 /\ z \in 0 .. 9 /\ n \in Nat /\ s \in Nat
      BY <2>5
    <3>1. a = b * base + r
      BY <2>5, <3>0
    <3>2. b * up <= r /\ r < b * up + b /\ r \in Nat
      <4>1. CASE up = 0
        <5>1. z = 0 \/ z = 1 \/ z = 2 \/ z = 3 \/ z = 4
          BY <2>5, <3>0, <4>1
        <5>2. z * m <= 4 * m /\ z * m \in Nat
          BY <5>1
        <5> QED BY <2>5, <4>1, <5>2
      <4>2. CASE up = 1
        <5>1. z = 5 \/ z = 6 \/ z = 7 \/ z = 8 \/ z = 9
          BY <2>5, <3>0, <4>2
        <5>2. z * m <= 9 * m /\ z * m >= 5 * m /\ z * m \in Nat
          BY <5>1
        <5> QED BY <2>5, <4>2, <5>2
      <4> QED BY <4>1, <4>2
    <3>3. base \in Nat /\ b \in Nat \ {0} /\ base + up \in Nat
      BY <2>5, <3>0
    <3> DEFINE q == base + up
    <3>4. b * q = b * base + b * up /\ b * base \in Nat /\ b * up \in Nat
      BY SMTT(30), <3>3
    <3>5. a \in Nat /\ q \in Nat /\ b * q <= a /\ a < b * q + b
      <4> HIDE DEF a, b, base, r, q
      <4>1. q \in Nat
        BY <3>3 DEF q
      <4> QED BY <3>1, <3>2, <3>3, <3>4, <4>1
    <3>6. a \div b = q
      <4> HIDE DEF a, b, q
      <4> QED BY <3>3, <3>5, Quotient
    <3>7. q = 100 * i + (10 * x + y + up)
      BY <3>0
    <3> HIDE DEF q
    <3> QED BY <3>6, <3>7, Zenon
  <2> QED BY <2>3, <2>4, <2>6, Zenon
<1> QED BY <1>0, <1>2, <1>3, <1>4, <1>5

\* DecimalAmountToCents rounds every decimal to the nearest cent, half a cent
\* away from zero, however many digits it has (amount.go:42).
THEOREM CentsRounded == \A d \in Decimal : DecimalAmountToCents(d) = Rounded(d)
<1> SUFFICES ASSUME NEW d \in Decimal PROVE DecimalAmountToCents(d) = Rounded(d)
  OBVIOUS
<1> DEFINE n == Scale(d.frac)
           abs == (200 * (d.int * n + Spelled(d.frac)) + n) \div (2 * n)
<1>1. d.int \in Nat /\ d.frac \in Seq(Digit)
  BY DEF Decimal
<1>2. abs = 100 * d.int + FracCents(d.frac)
  BY <1>1, RoundedFrac
<1>3. Rounded(d) = IF d.neg THEN -abs ELSE abs
  BY DEF Rounded
<1> HIDE DEF abs
<1> QED BY <1>2, <1>3 DEF DecimalAmountToCents

-----------------------------------------------------------------------------
(* Types                                                                   *)

RefundType == [payment : Payments \cup {None}, cents : Nat, status : StripeStatus \cup {"none"}]
RowType == [payment : Payments \cup {None}, amount : Decimal,
            status : RefundStatus \cup {"none"}]
AdminType == [pc : AdminPC, payment : Payments \cup {None}, cents : Nat,
              ref : Refs \cup {None}]

LEMMA EventNames ==
  /\ \A p \in Payments : <<"completed", p>> \in Events /\ <<"failed", p>> \in Events
  /\ \A r \in Refs : <<"refunded", r>> \in Events
  /\ \A d \in Disputes : <<"disputed", d>> \in Events
BY DEF Events

LEMMA EventType ==
  ASSUME event \in [Events -> EventState], NEW e, NEW from, NEW to \in EventState,
         EventStep(e, from, to)
  PROVE  event' \in [Events -> EventState]
BY DEF EventStep

LEMMA RowOf ==
  ASSUME NEW r, refund[r] \in RefundType
  PROVE  Row(r) \in RowType /\ Row(r) # NoRow /\ Row(r).payment = refund[r].payment
           /\ DecimalAmountToCents(Row(r).amount) = refund[r].cents
<1>1. refund[r].cents \in Int /\ refund[r].payment \in Payments \cup {None}
  BY DEF RefundType
<1>2. MapRefundStatus(refund[r].status) \in RefundStatus
  BY DEF MapRefundStatus, RefundStatus
<1>3. Row(r).status # "none"
  BY <1>2 DEF Row, RefundStatus
<1> QED BY <1>1, <1>2, <1>3, DecimalOfCents, RoundTrip DEF Row, RowType, NoRow

LEMMA ReleasedType ==
  ASSUME lock \in [Payments -> Admins \cup Refs \cup {None}], NEW t, Released(t)
  PROVE  lock' \in [Payments -> Admins \cup Refs \cup {None}]
BY DEF Released

\* A new refund at Stripe.
LEMMA NewRefund ==
  ASSUME TypeOK, NEW r \in Refs, NEW p \in Payments, NEW c \in Int, MakesRefund(r, p, c)
  PROVE  /\ refund' \in [Refs -> RefundType] /\ listed' \in [Refs -> {"one", "empty", "absent"}]
         /\ event' \in [Events -> EventState]
         /\ refund[r] = NoRefund /\ refund'[r].payment = p
         /\ \A q \in Refs \ {r} : refund'[q] = refund[q] /\ listed'[q] = listed[q]
         /\ event[<<"refunded", r>>] = "none"
         /\ event' = [event EXCEPT ![<<"refunded", r>>] = "sent"]
<1>0. /\ refund \in [Refs -> RefundType] /\ listed \in [Refs -> {"one", "empty", "absent"}]
      /\ event \in [Events -> EventState]
  BY DEF TypeOK, RefundType
<1>1. PICK s \in Shown :
        /\ refund' = [refund EXCEPT ![r] = [payment |-> p, cents |-> c, status |-> s[1]]]
        /\ listed' = [listed EXCEPT ![r] = s[2]]
  BY DEF MakesRefund
<1>2. s[1] \in StripeStatus /\ s[2] \in {"one", "empty", "absent"}
  BY RefundsAssumption DEF StripeStatus, RefundStatus
<1>3. c \in Nat /\ refund[r] = NoRefund
  BY DEF MakesRefund
<1>4. [payment |-> p, cents |-> c, status |-> s[1]] \in RefundType
  BY <1>2, <1>3 DEF RefundType
<1>5. EventStep(<<"refunded", r>>, "none", "sent") /\ "sent" \in EventState
  BY DEF MakesRefund, EventState, Unfinished
<1>6. event' \in [Events -> EventState]
  BY <1>0, <1>5, EventType
<1> QED BY <1>0, <1>1, <1>2, <1>3, <1>4, <1>5, <1>6 DEF EventStep

LEMMA TypeStep ==
  ASSUME TypeOK, [Next]_vars
  PROVE  TypeOK'
<1> USE DEF stripe, tables, history
<1>s. {"sent", "update", "commit", "processed", "failed"} \subseteq EventState
  BY DEF EventState, Unfinished
<1>0. /\ paid \subseteq Payments /\ refund \in [Refs -> RefundType]
      /\ listed \in [Refs -> {"one", "empty", "absent"}]
      /\ disputed \in [Disputes -> Payments \cup {None}]
      /\ event \in [Events -> EventState]
      /\ payment \in [Payments -> PaymentStatus \cup {"none"}]
      /\ rec \in [Refs -> RowType]
      /\ dispute \in [Disputes -> Payments \cup {None}]
      /\ lock \in [Payments -> Admins \cup Refs \cup {None}]
      /\ adm \in [Admins -> AdminType]
      /\ early \subseteq Refs /\ byAdmin \subseteq Refs /\ late \subseteq Payments
      /\ faults \in Nat
  BY DEF TypeOK, RefundType, RowType, AdminType
<1> DEFINE World == /\ paid' \subseteq Payments /\ refund' \in [Refs -> RefundType]
                    /\ listed' \in [Refs -> {"one", "empty", "absent"}]
                    /\ disputed' \in [Disputes -> Payments \cup {None}]
                    /\ event' \in [Events -> EventState]
           Rows == /\ payment' \in [Payments -> PaymentStatus \cup {"none"}]
                   /\ rec' \in [Refs -> RowType]
                   /\ dispute' \in [Disputes -> Payments \cup {None}]
                   /\ lock' \in [Payments -> Admins \cup Refs \cup {None}]
                   /\ adm' \in [Admins -> AdminType]
                   /\ early' \subseteq Refs /\ byAdmin' \subseteq Refs /\ late' \subseteq Payments
                   /\ faults' \in Nat
           Typed == World /\ Rows
<1>r. \A r \in Refs : Row(r) \in RowType
  BY <1>0, RowOf
<1>i. Idle \in AdminType
  BY DEF Idle, AdminType, AdminPC
<1>a. \A a \in Admins :
        /\ adm[a].payment \in Payments \cup {None} /\ adm[a].ref \in Refs \cup {None}
        /\ adm[a].cents \in Int
        /\ \A to \in AdminPC : [adm[a] EXCEPT !.pc = to] \in AdminType
        /\ \A r \in Refs : [adm[a] EXCEPT !.pc = "update", !.ref = r] \in AdminType
  <2> TAKE a \in Admins
  <2>1. adm[a] \in AdminType
    BY <1>0
  <2>2. /\ adm[a].payment \in Payments \cup {None} /\ adm[a].ref \in Refs \cup {None}
        /\ adm[a].cents \in Int
    BY <2>1 DEF AdminType
  <2>3. \A to \in AdminPC : [adm[a] EXCEPT !.pc = to] \in AdminType
    BY <2>1 DEF AdminType
  <2>4. \A r \in Refs : [adm[a] EXCEPT !.pc = "update", !.ref = r] \in AdminType
    BY <2>1 DEF AdminType, AdminPC
  <2> QED BY <2>2, <2>3, <2>4
<1>1. ASSUME NEW p \in Payments, AttemptFails(p) PROVE Typed
  <2>1. event' \in [Events -> EventState]
    BY <1>0, <1>s, <1>1, EventType DEF AttemptFails
  <2> QED BY <1>0, <1>1, <2>1 DEF AttemptFails
<1>2. ASSUME NEW p \in Payments, Pays(p) PROVE Typed
  <2>1. event' \in [Events -> EventState]
    BY <1>0, <1>s, <1>2, EventType DEF Pays
  <2> QED BY <1>0, <1>2, <2>1 DEF Pays
<1>3. ASSUME NEW r \in Refs, NEW p \in Payments, DashboardRefund(r, p) PROVE Typed
  <2>1. PICK c \in Asks : MakesRefund(r, p, c)
    BY <1>3 DEF DashboardRefund
  <2>2. c \in Int
    BY RefundsAssumption
  <2> QED BY <1>0, <1>3, <2>1, <2>2, NewRefund DEF DashboardRefund
<1>4. ASSUME NEW d \in Disputes, Opens(d) PROVE Typed
  <2>1. event' \in [Events -> EventState]
    BY <1>0, <1>s, <1>4, EventType DEF Opens
  <2> QED BY <1>0, <1>4, <2>1 DEF Opens
<1>5. ASSUME NEW p \in Payments, Completed(p) \/ AttemptFailed(p) PROVE Typed
  <2>1. event' \in [Events -> EventState]
    BY <1>0, <1>s, <1>5, EventType DEF Completed, AttemptFailed
  <2>2. payment' \in [Payments -> PaymentStatus \cup {"none"}]
    BY <1>0, <1>5 DEF Completed, AttemptFailed, PaymentStatus
  <2> QED BY <1>0, <1>5, <2>1, <2>2 DEF Completed, AttemptFailed
<1>6. ASSUME NEW r \in Refs, SelectPayment(r) \/ UpdatePayment(r) PROVE Typed
  <2>1. event' \in [Events -> EventState]
    BY <1>0, <1>s, <1>6, EventType DEF SelectPayment, UpdatePayment
  <2> QED BY <1>0, <1>6, <2>1 DEF SelectPayment, UpdatePayment
<1>7. ASSUME NEW r \in Refs, CommitRefund(r) \/ Panics(r) PROVE Typed
  <2>1. event' \in [Events -> EventState]
    BY <1>0, <1>s, <1>7, EventType DEF CommitRefund, Panics
  <2>2. payment' \in [Payments -> PaymentStatus \cup {"none"}] /\ rec' \in [Refs -> RowType]
    BY <1>0, <1>r, <1>7 DEF CommitRefund, Panics, PaymentStatus
  <2>3. lock' \in [Payments -> Admins \cup Refs \cup {None}]
    BY <1>0, <1>7, ReleasedType DEF CommitRefund, Panics
  <2> QED BY <1>0, <1>7, <2>1, <2>2, <2>3 DEF CommitRefund, Panics
<1>8. ASSUME NEW e \in Events, HandlerFails(e) PROVE Typed
  <2>1. event' \in [Events -> EventState]
    BY <1>0, <1>s, <1>8 DEF HandlerFails
  <2>2. lock' \in [Payments -> Admins \cup Refs \cup {None}]
    BY <1>0, <1>8, ReleasedType DEF HandlerFails
  <2>3. faults' \in Nat
    BY <1>0, <1>8 DEF HandlerFails, Fault
  <2> QED BY <1>0, <1>8, <2>1, <2>2, <2>3 DEF HandlerFails
<1>9. ASSUME NEW d \in Disputes, OnDispute(d) PROVE Typed
  <2>1. event' \in [Events -> EventState]
    BY <1>0, <1>s, <1>9, EventType DEF OnDispute
  <2> QED BY <1>0, <1>9, <2>1 DEF OnDispute
<1>10. ASSUME NEW a \in Admins, NEW p \in Payments, NEW c \in Asks, ReadPayment(a, p, c)
       PROVE  Typed
  <2> DEFINE cents == IF c = 0 THEN DecimalAmountToCents(Price[p]) ELSE c
  <2>1. /\ cents > 0
        /\ adm' = [adm EXCEPT ![a] = [pc |-> "stripe", payment |-> p, cents |-> cents,
                                      ref |-> None]]
        /\ UNCHANGED <<stripe, event, tables, lock, history, faults>>
    BY <1>10 DEF ReadPayment
  <2>2. cents \in Nat
    BY <2>1, RefundsAssumption
  <2> HIDE DEF cents
  <2>3. [pc |-> "stripe", payment |-> p, cents |-> cents, ref |-> None] \in AdminType
    BY <2>2 DEF AdminType, AdminPC
  <2> QED BY <1>0, <2>1, <2>3
<1>11. ASSUME NEW a \in Admins, NEW r \in Refs, AskStripe(a, r) \/ AnswerLost(a, r)
       PROVE  Typed
  <2>1. MakesRefund(r, adm[a].payment, adm[a].cents)
    BY <1>11 DEF AskStripe, AnswerLost
  <2>2. adm[a].payment \in Payments /\ adm[a].cents \in Int
    BY <1>0, <1>a, <2>1, RefundsAssumption DEF MakesRefund
  <2>3. /\ refund' \in [Refs -> RefundType] /\ listed' \in [Refs -> {"one", "empty", "absent"}]
        /\ event' \in [Events -> EventState]
    BY <2>1, <2>2, NewRefund
  <2>4. adm' \in [Admins -> AdminType]
    BY <1>0, <1>a, <1>i, <1>11 DEF AskStripe, AnswerLost, Admin
  <2>5. faults' \in Nat
    BY <1>0, <1>11 DEF AskStripe, AnswerLost, Fault
  <2> QED BY <1>0, <1>11, <2>3, <2>4, <2>5 DEF AskStripe, AnswerLost
<1>12. ASSUME NEW a \in Admins, StripeRefuses(a) PROVE Typed
  <2>1. faults' \in Nat
    BY <1>0, <1>12 DEF StripeRefuses, Fault, NoFault
  <2> QED BY <1>0, <1>i, <1>12, <2>1 DEF StripeRefuses, Admin
<1>13. ASSUME NEW a \in Admins, AdminUpdate(a) PROVE Typed
  BY <1>0, <1>a, <1>13 DEF AdminUpdate, Admin, AdminPC
<1>14. ASSUME NEW a \in Admins, AdminCommit(a) PROVE Typed
  <2>1. rec' \in [Refs -> RowType]
    BY <1>0, <1>r, <1>14 DEF AdminCommit
  <2>2. payment' \in [Payments -> PaymentStatus \cup {"none"}]
    BY <1>0, <1>14 DEF AdminCommit, PaymentStatus
  <2>3. lock' \in [Payments -> Admins \cup Refs \cup {None}]
    BY <1>0, <1>14, ReleasedType DEF AdminCommit
  <2> QED BY <1>0, <1>i, <1>14, <2>1, <2>2, <2>3 DEF AdminCommit, Admin
<1>15. ASSUME NEW a \in Admins, AdminFails(a) PROVE Typed
  <2>1. lock' \in [Payments -> Admins \cup Refs \cup {None}] /\ faults' \in Nat
    BY <1>0, <1>15, ReleasedType DEF AdminFails, Fault
  <2> QED BY <1>0, <1>i, <1>15, <2>1 DEF AdminFails
<1>16. ASSUME UNCHANGED vars PROVE Typed
  BY <1>0, <1>16 DEF vars
<1>17. Typed
  <2> HIDE DEF Typed
  <2> QED BY <1>1, <1>2, <1>3, <1>4, <1>5, <1>6, <1>7, <1>8, <1>9, <1>10, <1>11, <1>12,
             <1>13, <1>14, <1>15, <1>16 DEF Next, Stripe, OnPayment, OnRefund, Continue
<1> QED BY <1>17 DEF TypeOK, RefundType, RowType, AdminType

LEMMA InitType == Init => TypeOK
<1>1. CentsToDecimal(0) \in Decimal
  BY DecimalOfCents
<1> QED BY <1>1 DEF Init, TypeOK, NoRefund, NoRow, Idle, AdminPC, EventState

\* Every variable keeps its type: what is stored of an amount is a decimal.
THEOREM TypeCorrect == Spec => []TypeOK
BY InitType, TypeStep, PTL DEF Spec

-----------------------------------------------------------------------------
(* Refunds                                                                 *)

\* A payment that a request or an event has found is there to stay.
Found ==
  /\ \A p \in Payments : payment[p] # "none" => event[<<"completed", p>>] = "processed"
  /\ \A a \in Admins : adm[a].pc # "idle" =>
       adm[a].payment \in Payments /\ payment[adm[a].payment] # "none"
  /\ \A r \in Refs : event[<<"refunded", r>>] \in {"update", "commit"} =>
       payment[refund[r].payment] # "none"
  /\ \A r \in byAdmin : payment[refund[r].payment] # "none"

\* A refund that is spoken of has been made, once and for all.
Made ==
  /\ \A r \in Refs : event[<<"refunded", r>>] # "none" => refund[r].payment \in Payments
  /\ \A a \in Admins : adm[a].pc \in {"update", "commit"} =>
       adm[a].ref \in Refs /\ refund[adm[a].ref].payment = adm[a].payment
  /\ \A r \in byAdmin : refund[r].payment \in Payments

Recorded ==
  /\ \A r \in Refs : rec[r] # NoRow => refund[r].payment \in Payments /\ rec[r] = Row(r)
  /\ \A p \in Payments : payment[p] = "refunded" => \E r \in Refs : refund[r].payment = p
  /\ \A d \in Disputes : event[<<"disputed", d>>] = "none" => dispute[d] = None
  /\ \A d \in Disputes : dispute[d] # None => dispute[d] = disputed[d]

RefundInv == Found /\ Made /\ Recorded /\ RefundedTogether /\ RefundsAreRecorded

LEMMA RefundInvImplies == TypeOK /\ RefundInv => RecordsAreReal
<1> SUFFICES ASSUME TypeOK, RefundInv PROVE RecordsAreReal
  OBVIOUS
<1>1. ASSUME NEW r \in Refs, rec[r] # NoRow
      PROVE  /\ refund[r].payment = rec[r].payment
             /\ refund[r].cents = DecimalAmountToCents(rec[r].amount)
  <2>1. refund[r] \in RefundType /\ rec[r] = Row(r)
    BY <1>1 DEF TypeOK, RefundType, RefundInv, Recorded
  <2> QED BY <2>1, RowOf
<1> QED BY <1>1 DEF RecordsAreReal, RefundInv, Recorded

LEMMA InitRefunds == Init => RefundInv
BY EventNames
DEF Init, RefundInv, Found, Made, Recorded, RefundedTogether, RefundsAreRecorded, Idle

\* A step of an event changes what has become of that event only.
LEMMA OneEvent ==
  ASSUME TypeOK, NEW e \in Events, NEW to, event' = [event EXCEPT ![e] = to]
  PROVE  event'[e] = to /\ \A f \in Events \ {e} : event'[f] = event[f]
BY DEF TypeOK

\* What neither makes a refund nor writes a row of one keeps the invariant.
LEMMA QuietRefunds ==
  ASSUME TypeOK, RefundInv,
         UNCHANGED <<refund, listed, payment, rec, byAdmin, late>>,
         early \subseteq early',
         \A p \in Payments : event[<<"completed", p>>] = "processed"
                               => event'[<<"completed", p>>] = "processed",
         \A r \in Refs :
           LET e == <<"refunded", r>> IN
           \/ event'[e] = event[e]
           \/ event[e] # "none" /\ event'[e] = "failed"
           \/ /\ event[e] # "none" /\ event'[e] = "update"
              /\ payment[refund[r].payment] # "none"
           \/ event[e] = "update" /\ event'[e] = "commit"
           \/ /\ event[e] # "none" /\ event'[e] = "processed" /\ r \in early'
              /\ payment[refund[r].payment] = "none",
         \A a \in Admins :
           \/ adm'[a] = adm[a]
           \/ adm'[a].pc = "idle"
           \/ /\ adm[a].pc = "update" /\ adm'[a].pc = "commit"
              /\ adm'[a].payment = adm[a].payment /\ adm'[a].ref = adm[a].ref
           \/ /\ adm'[a].pc = "stripe" /\ adm'[a].payment \in Payments
              /\ payment[adm'[a].payment] # "none",
         \A d \in Disputes : event'[<<"disputed", d>>] = "none" => dispute'[d] = None,
         \A d \in Disputes : dispute'[d] # None => dispute'[d] = disputed'[d]
  PROVE  RefundInv'
<1>1. Found'
  BY DEF RefundInv, Found
<1>2. Made'
  BY DEF RefundInv, Made
<1>3. Recorded'
  BY DEF RefundInv, Recorded, Row
<1>4. RefundedTogether'
  BY DEF RefundInv, RefundedTogether
<1>5. RefundsAreRecorded'
  <2>1. \A r \in byAdmin : payment[refund[r].payment] # "none"
    BY DEF RefundInv, Found
  <2> QED BY <2>1 DEF RefundInv, RefundsAreRecorded
<1> QED BY <1>1, <1>2, <1>3, <1>4, <1>5 DEF RefundInv

LEMMA MakesRefundInv ==
  ASSUME TypeOK, RefundInv, NEW r \in Refs, NEW p \in Payments, NEW c \in Int,
         MakesRefund(r, p, c), UNCHANGED <<payment, rec, dispute, disputed, early, late>>,
         \/ UNCHANGED <<byAdmin, adm>>
         \/ /\ byAdmin' = byAdmin \cup {r} /\ payment[p] # "none"
            /\ \E a \in Admins :
                 /\ \A b \in Admins \ {a} : adm'[b] = adm[b]
                 /\ \/ adm'[a].pc = "idle"
                    \/ /\ adm'[a].pc = "update" /\ adm'[a].payment = p /\ adm'[a].ref = r
  PROVE  RefundInv'
<1>1. /\ refund[r] = NoRefund /\ refund'[r].payment = p
      /\ \A q \in Refs \ {r} : refund'[q] = refund[q] /\ listed'[q] = listed[q]
      /\ event[<<"refunded", r>>] = "none"
      /\ event' = [event EXCEPT ![<<"refunded", r>>] = "sent"]
  BY NewRefund
<1>2. /\ \A q \in Payments : event'[<<"completed", q>>] = event[<<"completed", q>>]
      /\ \A d \in Disputes : event'[<<"disputed", d>>] = event[<<"disputed", d>>]
      /\ \A q \in Refs \ {r} : event'[<<"refunded", q>>] = event[<<"refunded", q>>]
      /\ event'[<<"refunded", r>>] = "sent"
  <2>1. <<"refunded", r>> \in Events
    BY EventNames
  <2>2. event'[<<"refunded", r>>] = "sent" /\ \A f \in Events \ {<<"refunded", r>>} : event'[f] = event[f]
    BY <1>1, <2>1, OneEvent
  <2> QED BY <2>2, EventNames
<1>3. refund[r].payment = None /\ None \notin Payments
  BY <1>1, RefundsAssumption DEF NoRefund
\* Nobody knows of r yet.
<1>4. /\ r \notin byAdmin /\ rec[r] = NoRow
      /\ \A a \in Admins : adm[a].pc \in {"update", "commit"} => adm[a].ref # r
  BY <1>3 DEF RefundInv, Made, Found, Recorded
<1>b. byAdmin \subseteq Refs
  BY DEF TypeOK
<1>5. Found'
  BY <1>b, <1>1, <1>2, <1>4 DEF RefundInv, Found
<1>6. Made'
  BY <1>b, <1>1, <1>2, <1>4 DEF RefundInv, Made
<1>7. Recorded'
  <2>1. \A q \in Refs : rec'[q] # NoRow => refund'[q].payment \in Payments /\ rec'[q] = Row(q)'
    BY <1>1, <1>4 DEF RefundInv, Recorded, Row
  <2>2. \A q \in Payments : payment'[q] = "refunded" => \E s \in Refs : refund'[s].payment = q
    <3>1. \A s \in Refs : refund[s].payment \in Payments => refund'[s] = refund[s]
      BY <1>1, <1>3
    <3> QED BY <3>1 DEF RefundInv, Recorded
  <2> QED BY <1>2, <2>1, <2>2 DEF RefundInv, Recorded
<1>8. RefundedTogether'
  BY DEF RefundInv, RefundedTogether
<1>9. RefundsAreRecorded'
  BY <1>1, <1>2 DEF RefundInv, RefundsAreRecorded
<1> QED BY <1>5, <1>6, <1>7, <1>8, <1>9 DEF RefundInv

\* The commit of a transaction that has put a refund on record, or has seen none.
LEMMA CommitInv ==
  ASSUME TypeOK, RefundInv, NEW r \in Refs, refund[r].payment \in Payments,
         payment[refund[r].payment] # "none",
         payment' = [payment EXCEPT ![refund[r].payment] = "refunded"],
         UNCHANGED <<stripe, dispute, history>>,
         \/ rec' = [rec EXCEPT ![r] = Row(r)]
         \/ UNCHANGED rec /\ listed[r] # "one",
         \/ UNCHANGED event
         \/ event' = [event EXCEPT ![<<"refunded", r>>] = "processed"]
              /\ (listed[r] = "one" => rec' = [rec EXCEPT ![r] = Row(r)]),
         \A a \in Admins : adm'[a] = adm[a] \/ adm'[a].pc = "idle"
  PROVE  RefundInv'
<1> DEFINE p == refund[r].payment
<1>0. /\ rec \in [Refs -> RowType] /\ payment \in [Payments -> PaymentStatus \cup {"none"}]
      /\ refund[r] \in RefundType /\ byAdmin \subseteq Refs
  BY DEF TypeOK, RefundType, RowType
<1>1. /\ \A q \in Payments : event'[<<"completed", q>>] = event[<<"completed", q>>]
      /\ \A d \in Disputes : event'[<<"disputed", d>>] = event[<<"disputed", d>>]
      /\ \A q \in Refs \ {r} : event'[<<"refunded", q>>] = event[<<"refunded", q>>]
      /\ event'[<<"refunded", r>>] \in {event[<<"refunded", r>>], "processed"}
  <2>1. CASE UNCHANGED event
    BY <2>1
  <2>2. CASE event' = [event EXCEPT ![<<"refunded", r>>] = "processed"]
    BY <2>2, OneEvent, EventNames
  <2> QED BY <2>1, <2>2
<1>2. /\ payment'[p] = "refunded"
      /\ \A q \in Payments \ {p} : payment'[q] = payment[q]
  BY <1>0
<1>3. /\ Row(r) # NoRow /\ Row(r).payment = p
      /\ \A q \in Refs \ {r} : rec'[q] = rec[q]
      /\ rec'[r] = Row(r) \/ rec'[r] = rec[r]
  BY <1>0, RowOf
<1>4. UNCHANGED <<refund, listed, disputed, dispute, early, byAdmin, late>>
  BY DEF stripe, history
<1>5. Found'
  <2>1. \A q \in Payments : payment[q] # "none" => payment'[q] # "none"
    BY <1>2
  <2>2. \A q \in Payments : payment'[q] # "none" => payment[q] # "none"
    BY <1>2
  <2>3. \A s \in Refs : event[<<"refunded", s>>] # "none" => refund[s].payment \in Payments
    BY DEF RefundInv, Made
  <2>4. \A s \in byAdmin : refund[s].payment \in Payments
    BY DEF RefundInv, Made
  <2> QED BY <1>1, <1>4, <2>1, <2>2, <2>3, <2>4 DEF RefundInv, Found
<1>6. Made'
  BY <1>1, <1>4 DEF RefundInv, Made
<1>7. Recorded'
  <2>1. \A q \in Refs : rec'[q] # NoRow => refund'[q].payment \in Payments /\ rec'[q] = Row(q)'
    BY <1>3, <1>4 DEF RefundInv, Recorded, Row
  <2>2. \A q \in Payments : payment'[q] = "refunded" => \E s \in Refs : refund'[s].payment = q
    BY <1>2, <1>4 DEF RefundInv, Recorded
  <2> QED BY <1>1, <1>4, <2>1, <2>2 DEF RefundInv, Recorded
<1>8. RefundedTogether'
  <2>1. ASSUME NEW q \in Refs, rec'[q] # NoRow
        PROVE  payment'[rec'[q].payment] = "refunded" \/ rec'[q].payment \in late'
    <3>1. CASE rec'[q] = Row(r)
      BY <1>2, <1>3, <3>1
    <3>2. CASE rec'[q] = rec[q]
      <4>1. rec[q].payment \in Payments
        <5>1. refund[q] \in RefundType /\ rec[q] = Row(q) /\ refund[q].payment \in Payments
          BY <2>1, <3>2 DEF TypeOK, RefundType, RefundInv, Recorded
        <5> QED BY <5>1, RowOf
      <4> QED BY <1>2, <1>4, <2>1, <3>2, <4>1 DEF RefundInv, RefundedTogether
    <3> QED BY <1>3, <3>1, <3>2
  <2> QED BY <2>1 DEF RefundedTogether
<1>9. RefundsAreRecorded'
  BY <1>0, <1>1, <1>3, <1>4 DEF RefundInv, RefundsAreRecorded
<1> QED BY <1>5, <1>6, <1>7, <1>8, <1>9 DEF RefundInv

\* The two events that write a payment and no refund.
LEMMA PaymentInv ==
  ASSUME TypeOK, RefundInv, NEW p \in Payments, Completed(p) \/ AttemptFailed(p)
  PROVE  RefundInv'
<1>0. /\ rec \in [Refs -> RowType] /\ payment \in [Payments -> PaymentStatus \cup {"none"}]
      /\ byAdmin \subseteq Refs
  BY DEF TypeOK, RowType
<1>1. PICK e \in {<<"completed", p>>, <<"failed", p>>} :
        event[e] = "sent" /\ event' = [event EXCEPT ![e] = "processed"]
  BY DEF Completed, AttemptFailed, EventStep
<1>2. /\ \A q \in Payments : event[<<"completed", q>>] = "processed"
                               => event'[<<"completed", q>>] = "processed"
      /\ \A d \in Disputes : event'[<<"disputed", d>>] = event[<<"disputed", d>>]
      /\ \A r \in Refs : event'[<<"refunded", r>>] = event[<<"refunded", r>>]
  <2>1. e \in Events
    BY EventNames
  <2>2. event'[e] = "processed" /\ \A f \in Events \ {e} : event'[f] = event[f]
    BY <1>1, <2>1, OneEvent
  <2> QED BY <1>1, <2>2, EventNames
<1>3. /\ UNCHANGED <<refund, listed, disputed, rec, dispute, adm, early, byAdmin>>
      /\ \A q \in Payments \ {p} : payment'[q] = payment[q]
  BY <1>0 DEF Completed, AttemptFailed, stripe, history
<1>4. /\ payment[p] # "none" => payment'[p] # "none"
      /\ payment'[p] # "none" => payment[p] # "none" \/ event'[<<"completed", p>>] = "processed"
  BY <1>0, EventNames DEF Completed, AttemptFailed, EventStep, TypeOK
\* A refunded payment is only made a failed one, and then it is late.
<1>5. /\ payment'[p] # "refunded" /\ late \subseteq late'
      /\ payment[p] = "refunded" => p \in late'
  <2>1. CASE Completed(p)
    <3>1. event[<<"completed", p>>] = "sent" /\ payment'[p] = "succeeded" /\ UNCHANGED late
      BY <1>0, <2>1 DEF Completed, EventStep, history
    <3>2. payment[p] = "none"
      BY <3>1 DEF RefundInv, Found
    <3> QED BY <3>1, <3>2
  <2>2. CASE AttemptFailed(p)
    BY <1>0, <2>2 DEF AttemptFailed
  <2> QED BY <2>1, <2>2
<1>6. Found'
  <2>1. \A s \in Refs : event[<<"refunded", s>>] # "none" => refund[s].payment \in Payments
    BY DEF RefundInv, Made
  <2>2. \A s \in byAdmin : refund[s].payment \in Payments
    BY DEF RefundInv, Made
  <2>3. \A q \in Payments : payment[q] # "none" => payment'[q] # "none"
    BY <1>3, <1>4
  <2> QED BY <1>2, <1>3, <1>4, <2>1, <2>2, <2>3 DEF RefundInv, Found
<1>7. Made'
  BY <1>2, <1>3 DEF RefundInv, Made
<1>8. Recorded'
  BY <1>2, <1>3, <1>5 DEF RefundInv, Recorded, Row
<1>9. RefundedTogether'
  <2>1. ASSUME NEW q \in Refs, rec[q] # NoRow
        PROVE  payment'[rec[q].payment] = "refunded" \/ rec[q].payment \in late'
    <3>1. rec[q].payment \in Payments
      <4>1. refund[q] \in RefundType /\ rec[q] = Row(q) /\ refund[q].payment \in Payments
        BY <2>1 DEF TypeOK, RefundType, RefundInv, Recorded
      <4> QED BY <4>1, RowOf
    <3> QED BY <1>3, <1>5, <2>1, <3>1 DEF RefundInv, RefundedTogether
  <2> QED BY <1>3, <2>1 DEF RefundedTogether
<1>10. RefundsAreRecorded'
  BY <1>2, <1>3 DEF RefundInv, RefundsAreRecorded
<1> QED BY <1>6, <1>7, <1>8, <1>9, <1>10 DEF RefundInv

\* The events of the others, when one event goes on.
LEMMA EventSteps ==
  ASSUME TypeOK, NEW e \in Events, NEW from, NEW to, EventStep(e, from, to)
  PROVE  event[e] = from /\ event'[e] = to /\ \A f \in Events \ {e} : event'[f] = event[f]
BY OneEvent DEF EventStep

LEMMA QuietSteps ==
  ASSUME TypeOK, RefundInv,
         \/ \E p \in Payments : AttemptFails(p) \/ Pays(p)
         \/ \E d \in Disputes : Opens(d) \/ OnDispute(d)
         \/ \E r \in Refs : SelectPayment(r) \/ UpdatePayment(r) \/ Panics(r)
         \/ \E e \in Events : HandlerFails(e)
         \/ UNCHANGED vars
  PROVE  RefundInv'
<1> USE EventNames DEF stripe, tables, history
<1>d. /\ \A d \in Disputes : event[<<"disputed", d>>] = "none" => dispute[d] = None
      /\ \A d \in Disputes : dispute[d] # None => dispute[d] = disputed[d]
      /\ disputed \in [Disputes -> Payments \cup {None}]
      /\ dispute \in [Disputes -> Payments \cup {None}]
  BY DEF RefundInv, Recorded, TypeOK
<1>1. ASSUME NEW p \in Payments, AttemptFails(p) \/ Pays(p) PROVE RefundInv'
  <2>1. PICK e \in {<<"completed", p>>, <<"failed", p>>} : EventStep(e, "none", "sent")
    BY <1>1 DEF AttemptFails, Pays
  <2>2. e \in Events /\ event[e] = "none" /\ \A f \in Events \ {e} : event'[f] = event[f]
    BY <2>1, EventSteps
  <2>3. UNCHANGED <<refund, listed, disputed, payment, rec, dispute, adm, early, byAdmin, late>>
    BY <1>1 DEF AttemptFails, Pays
  <2>4. /\ \A r \in Refs : event'[<<"refunded", r>>] = event[<<"refunded", r>>]
        /\ \A d \in Disputes : event'[<<"disputed", d>>] = event[<<"disputed", d>>]
        /\ \A q \in Payments : event[<<"completed", q>>] = "processed"
                               => event'[<<"completed", q>>] = "processed"
    <3>1. e \in {<<"completed", p>>, <<"failed", p>>}
      BY <2>1
    <3>2. \A r \in Refs : <<"refunded", r>> # e
      BY <3>1
    <3>3. \A d \in Disputes : <<"disputed", d>> # e
      BY <3>1
    <3> QED BY <2>2, <3>2, <3>3
  <2> QED BY <1>d, <2>3, <2>4, QuietRefunds
<1>2. ASSUME NEW d \in Disputes, Opens(d) \/ OnDispute(d) PROVE RefundInv'
  <2>1. /\ UNCHANGED <<refund, listed, payment, rec, adm, early, byAdmin, late>>
        /\ \A f \in Events \ {<<"disputed", d>>} : event'[f] = event[f]
        /\ event'[<<"disputed", d>>] # "none"
    BY <1>2, EventSteps DEF Opens, OnDispute
  <2>2. \A c \in Disputes : dispute'[c] # None => dispute'[c] = disputed'[c]
    <3>1. CASE Opens(d)
      <4>1. dispute[d] = None
        BY <1>d, <3>1, EventSteps DEF Opens
      <4> QED BY <1>d, <3>1, <4>1 DEF Opens
    <3>2. CASE OnDispute(d)
      BY <1>d, <3>2 DEF OnDispute
    <3> QED BY <1>2, <3>1, <3>2
  <2>3. \A c \in Disputes \ {d} : dispute'[c] = dispute[c]
    BY <1>d, <1>2 DEF Opens, OnDispute
  <2>4. \A c \in Disputes : event'[<<"disputed", c>>] = "none" => dispute'[c] = None
    BY <1>d, <2>1, <2>3
  <2> QED BY <2>1, <2>2, <2>4, QuietRefunds
<1>3. ASSUME NEW r \in Refs, SelectPayment(r) \/ UpdatePayment(r) \/ Panics(r)
      PROVE  RefundInv'
  <2> DEFINE e == <<"refunded", r>>
  <2>1. /\ UNCHANGED <<refund, listed, disputed, payment, rec, dispute, adm, byAdmin, late>>
        /\ early \subseteq early'
    BY <1>3 DEF SelectPayment, UpdatePayment, Panics
  <2>2. \A f \in Events \ {e} : event'[f] = event[f]
    BY <1>3, EventSteps DEF SelectPayment, UpdatePayment, Panics
  <2>3. \/ /\ event[e] # "none" /\ event'[e] = "update"
           /\ payment[refund[r].payment] # "none"
        \/ event[e] = "update" /\ event'[e] = "commit"
        \/ event[e] # "none" /\ event'[e] = "failed"
        \/ /\ event[e] # "none" /\ event'[e] = "processed" /\ r \in early'
           /\ payment[refund[r].payment] = "none"
    BY <1>3, EventSteps DEF SelectPayment, UpdatePayment, Panics
  <2> QED BY <1>d, <2>1, <2>2, <2>3, QuietRefunds
<1>4. ASSUME NEW e \in Events, HandlerFails(e) PROVE RefundInv'
  <2>1. /\ UNCHANGED <<refund, listed, disputed, payment, rec, dispute, adm, early, byAdmin, late>>
        /\ event[e] \in Unfinished /\ event'[e] = "failed"
        /\ \A f \in Events \ {e} : event'[f] = event[f]
    BY <1>4, OneEvent DEF HandlerFails
  <2> QED BY <1>d, <2>1, QuietRefunds DEF Unfinished
<1>5. ASSUME UNCHANGED vars PROVE RefundInv'
  BY <1>d, <1>5, QuietRefunds DEF vars
<1> QED BY <1>1, <1>2, <1>3, <1>4, <1>5

LEMMA AdminSteps ==
  ASSUME TypeOK, RefundInv, NEW a \in Admins,
         \/ \E p \in Payments, c \in Asks : ReadPayment(a, p, c)
         \/ StripeRefuses(a) \/ AdminUpdate(a) \/ AdminFails(a)
  PROVE  RefundInv'
<1> USE DEF stripe, tables, history
<1>1. /\ UNCHANGED <<refund, listed, disputed, event, payment, rec, dispute, early, byAdmin, late>>
  BY DEF ReadPayment, StripeRefuses, AdminUpdate, AdminFails
<1>2. adm \in [Admins -> AdminType] /\ Idle.pc = "idle"
  BY DEF TypeOK, AdminType, Idle
<1>3. \A b \in Admins \ {a} : adm'[b] = adm[b]
  BY <1>2 DEF ReadPayment, StripeRefuses, AdminUpdate, AdminFails, Admin
<1>4. \/ adm'[a].pc = "idle"
      \/ /\ adm[a].pc = "update" /\ adm'[a].pc = "commit"
         /\ adm'[a].payment = adm[a].payment /\ adm'[a].ref = adm[a].ref
      \/ /\ adm'[a].pc = "stripe" /\ adm'[a].payment \in Payments
         /\ payment[adm'[a].payment] # "none"
  <2>1. ASSUME NEW p \in Payments, NEW c \in Asks, ReadPayment(a, p, c)
        PROVE  /\ adm'[a].pc = "stripe" /\ adm'[a].payment = p
               /\ payment[p] # "none"
    BY <1>2, <2>1 DEF ReadPayment
  <2>2. ASSUME AdminUpdate(a)
        PROVE  /\ adm[a].pc = "update" /\ adm'[a].pc = "commit"
               /\ adm'[a].payment = adm[a].payment /\ adm'[a].ref = adm[a].ref
    BY <1>2, <2>2 DEF AdminUpdate, Admin, AdminType
  <2>3. ASSUME StripeRefuses(a) \/ AdminFails(a) PROVE adm'[a].pc = "idle"
    BY <1>2, <2>3 DEF StripeRefuses, AdminFails, Admin
  <2> QED BY <2>1, <2>2, <2>3
<1>5. /\ \A d \in Disputes : event[<<"disputed", d>>] = "none" => dispute[d] = None
      /\ \A d \in Disputes : dispute[d] # None => dispute[d] = disputed[d]
  BY DEF RefundInv, Recorded
<1> QED BY <1>1, <1>3, <1>4, <1>5, QuietRefunds

LEMMA RefundStep ==
  ASSUME TypeOK, RefundInv, [Next]_vars
  PROVE  RefundInv'
<1>0. /\ adm \in [Admins -> AdminType] /\ Idle.pc = "idle"
      /\ \A a \in Admins : adm[a].cents \in Int
  BY DEF TypeOK, AdminType, Idle
<1>1. ASSUME NEW r \in Refs, NEW p \in Payments, DashboardRefund(r, p) PROVE RefundInv'
  <2>1. PICK c \in Asks : MakesRefund(r, p, c)
    BY <1>1 DEF DashboardRefund
  <2>2. c \in Int
    BY RefundsAssumption
  <2> QED BY <1>1, <2>1, <2>2, MakesRefundInv DEF DashboardRefund, tables, history
<1>2. ASSUME NEW a \in Admins, NEW r \in Refs, AskStripe(a, r) \/ AnswerLost(a, r)
      PROVE  RefundInv'
  <2>1. /\ MakesRefund(r, adm[a].payment, adm[a].cents)
        /\ byAdmin' = byAdmin \cup {r} /\ adm[a].pc = "stripe"
        /\ UNCHANGED <<payment, rec, dispute, disputed, early, late>>
    BY <1>2 DEF AskStripe, AnswerLost, tables
  <2>2. adm[a].payment \in Payments /\ payment[adm[a].payment] # "none"
    BY <2>1 DEF RefundInv, Found
  <2>3. \A b \in Admins \ {a} : adm'[b] = adm[b]
    BY <1>0, <1>2 DEF AskStripe, AnswerLost, Admin
  <2>4. \/ adm'[a].pc = "idle"
        \/ adm'[a].pc = "update" /\ adm'[a].payment = adm[a].payment /\ adm'[a].ref = r
    <3>1. ASSUME AskStripe(a, r)
          PROVE  adm'[a].pc = "update" /\ adm'[a].payment = adm[a].payment /\ adm'[a].ref = r
      BY <1>0, <3>1 DEF AskStripe, Admin, AdminType
    <3>2. ASSUME AnswerLost(a, r) PROVE adm'[a].pc = "idle"
      BY <1>0, <3>2 DEF AnswerLost, Admin
    <3> QED BY <1>2, <3>1, <3>2
  <2> QED BY <1>0, <2>1, <2>2, <2>3, <2>4, MakesRefundInv
<1>3. ASSUME NEW r \in Refs, CommitRefund(r) PROVE RefundInv'
  <2>1. event[<<"refunded", r>>] = "commit"
    BY <1>3 DEF CommitRefund, EventStep
  <2>2. refund[r].payment \in Payments /\ payment[refund[r].payment] # "none"
    BY <2>1 DEF RefundInv, Found, Made
  <2> QED BY <1>3, <2>2, CommitInv DEF CommitRefund, EventStep
<1>4. ASSUME NEW a \in Admins, AdminCommit(a) PROVE RefundInv'
  <2>1. PICK r \in Refs : r = adm[a].ref /\ refund[r].payment = adm[a].payment
    BY <1>4 DEF AdminCommit, Admin, RefundInv, Made
  <2>2. adm[a].payment \in Payments /\ payment[adm[a].payment] # "none"
    BY <1>4 DEF AdminCommit, Admin, RefundInv, Found
  <2>3. \A b \in Admins : adm'[b] = adm[b] \/ adm'[b].pc = "idle"
    BY <1>0, <1>4 DEF AdminCommit, Admin
  <2> QED BY <1>4, <2>1, <2>2, <2>3, CommitInv DEF AdminCommit
<1> QED
  BY <1>1, <1>2, <1>3, <1>4, PaymentInv, QuietSteps, AdminSteps
  DEF Next, Stripe, OnPayment, OnRefund, Continue

LEMMA RefundsKept == Spec => []RefundInv
BY InitType, InitRefunds, TypeStep, RefundStep, PTL DEF Spec

\* What is on record of a refund or a dispute has happened at Stripe, to the
\* cent, and a payment is 'refunded' only after a refund.
THEOREM RecordsReal == Spec => []RecordsAreReal
BY RefundInvImplies, TypeCorrect, RefundsKept, PTL

\* A refund's row and its payment's status are committed together.
THEOREM TogetherCommitted == Spec => []RefundedTogether
<1>1. RefundInv => RefundedTogether
  BY DEF RefundInv
<1> QED BY <1>1, RefundsKept, PTL

\* A processed charge.refunded that has shown its refund has recorded it, unless
\* it overtook the payment: a refund asked for here never does.
THEOREM RefundsRecorded == Spec => []RefundsAreRecorded
<1>1. RefundInv => RefundsAreRecorded
  BY DEF RefundInv
<1> QED BY <1>1, RefundsKept, PTL

\* The decimals on which the run compares the conversions are rounded to the
\* nearest cent, and so is every other.
THEOREM CentsStayRounded == Spec => []CentsAreRounded
<1>1. CentsAreRounded
  BY CentsRounded, RefundsAssumption DEF CentsAreRounded
<1> QED BY <1>1, PTL
=============================================================================
