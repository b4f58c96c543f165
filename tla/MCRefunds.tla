----------------------------- MODULE MCRefunds ------------------------------
(* Instances of Refunds for TLC. *)
EXTENDS Refunds, TLC

CONSTANTS p1, r1, r2, d1, a1

\* Two cents more than a dollar: the digits after the point begin with a zero.
SmallPrice == [p \in Payments |-> CentsToDecimal(102)]

\* One of each status, one of each list.
SmallShown == {<<"requires_action", "one">>, <<"pending", "empty">>,
               <<"succeeded", "absent">>}

\* Up to four digits after the point, around the places where rounding turns.
SmallDecimals ==
  [neg : BOOLEAN, int : {0, 1, 12},
   frac : UNION {[1 .. n -> {0, 4, 5, 9}] : n \in 0 .. 4}]
=============================================================================
