------------------------------ MODULE Doubles ------------------------------
(***************************************************************************)
(* The arithmetic of double that tank weights go through: a sum that gets  *)
(* too large is Infinity, Infinity less Infinity is NaN, NaN compares      *)
(* false with everything and makes every result NaN, also that of Math.Max *)
(* and Math.Min.  Finite weights are counted in the smallest unit that     *)
(* matters; rounding is left out.                                          *)
(***************************************************************************)
EXTENDS Integers

CONSTANTS
  NaN,
  Infinity  \* the least number that is not finite

ASSUME DoublesAssumption ==
  /\ NaN \notin Int
  /\ Infinity \in Nat \ {0}

Double == {x \in Int : x <= Infinity} \cup {NaN}
Weight == (0..Infinity) \cup {NaN}

(* x > y, and x >= y *)
Exceeds(x, y) == NaN \notin {x, y} /\ x > y
AtLeast(x, y) == NaN \notin {x, y} /\ x >= y

(* Math.Max(0, x), and Math.Min(x, y) *)
Max0(x) == IF x = NaN \/ x > 0 THEN x ELSE 0
Lesser(x, y) == IF NaN \in {x, y} THEN NaN ELSE IF x < y THEN x ELSE y

(* x + y, and Math.Max(0, x - y) *)
Plus(x, y) == IF NaN \in {x, y} THEN NaN ELSE Lesser(x + y, Infinity)

Minus0(x, y) ==
  IF NaN \in {x, y} \/ (x = Infinity /\ y = Infinity) THEN NaN
  ELSE IF x = Infinity THEN Infinity ELSE Max0(x - y)
=============================================================================
