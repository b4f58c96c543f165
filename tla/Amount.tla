------------------------------- MODULE Amount -------------------------------
(***************************************************************************)
(* Money: NUMERIC columns are read as decimal strings, Stripe counts in    *)
(* cents (internal/common/amount.go).  A decimal string is a sign, an      *)
(* integer part and the digits after the point.                            *)
(***************************************************************************)
EXTENDS Integers, Sequences

Digit == 0 .. 9
Decimal == [neg : BOOLEAN, int : Nat, frac : Seq(Digit)]

\* Mutant: the third digit is cut off.
CentsCutOff(f) ==
  CASE Len(f) = 0 -> 0
    [] Len(f) = 1 -> 10 * f[1]
    [] OTHER      -> 10 * f[1] + f[2]

\* The digits after the point, in cents: two of them, rounded by the third.
FracCents(f) ==
  CASE Len(f) = 0 -> 0
    [] Len(f) = 1 -> 10 * f[1]
    [] Len(f) = 2 -> 10 * f[1] + f[2]
    [] OTHER      -> 10 * f[1] + f[2] + (IF f[3] >= 5 THEN 1 ELSE 0)

DecimalAmountToCents(d) ==
  LET abs == 100 * d.int + FracCents(d.frac) IN IF d.neg THEN -abs ELSE abs

\* Mutant: the cents lose a leading zero.
CentsUnpadded(c) ==
  LET abs == IF c < 0 THEN -c ELSE c IN
  [neg |-> c < 0, int |-> abs \div 100,
   frac |-> IF abs % 100 < 10 THEN <<abs % 10>> ELSE <<(abs % 100) \div 10, abs % 10>>]

CentsToDecimal(c) ==
  LET abs == IF c < 0 THEN -c ELSE c IN
  [neg |-> c < 0, int |-> abs \div 100,
   frac |-> <<(abs % 100) \div 10, abs % 10>>]

-----------------------------------------------------------------------------
(* What the conversions should compute                                     *)

\* The number that the digits of f spell, and ten to the power of their count.
Spelled(f) ==
  LET v[i \in 0 .. Len(f)] == IF i = 0 THEN 0 ELSE 10 * v[i - 1] + f[i] IN v[Len(f)]
Scale(f) ==
  LET p[i \in 0 .. Len(f)] == IF i = 0 THEN 1 ELSE 10 * p[i - 1] IN p[Len(f)]

\* The nearest number of cents, half a cent away from zero.
Rounded(d) ==
  LET n   == Scale(d.frac)
      abs == (200 * (d.int * n + Spelled(d.frac)) + n) \div (2 * n)
  IN  IF d.neg THEN -abs ELSE abs
=============================================================================
