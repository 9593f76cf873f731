----------------------------- MODULE FixedPoint -----------------------------
(***************************************************************************)
(* Fixed-point arithmetic of the lending pool (src/library/math).          *)
(*                                                                         *)
(* Amounts, indexes, rates and coefficients are unsigned integers with an  *)
(* implied scale.  The scales are parameters, so that a small instance can *)
(* use small ones; the rounding direction of every operation is kept.      *)
(* Widths are parameters as well: the code computes with u128 and u64 and  *)
(* turns every overflow or underflow into an error that rolls the message  *)
(* back.  An operation is therefore possible exactly when each value it    *)
(* computes is in the set of the width it is stored with.                  *)
(***************************************************************************)
EXTENDS Integers

CONSTANTS
  E18,      \* one, for indexes and rates      (10^18 in the code)
  E8,       \* one, for values                 (10^8)
  E6,       \* one, for fees and coefficients  (10^6)
  U128Max,  \* largest balance or index
  U64Max,   \* largest rate or timestamp
  U32Max    \* largest utilization rate or interest step

ASSUME ScaleAssumption ==
  /\ E18 \in Nat \ {0} /\ E8 \in Nat \ {0} /\ E6 \in Nat \ {0}
  /\ U128Max \in Nat /\ U64Max \in Nat /\ U32Max \in Nat
  /\ E18 <= U128Max

U128 == 0 .. U128Max
U64  == 0 .. U64Max
U32  == 0 .. U32Max

\* Twice the width of a balance.
U256 == 0 .. (U128Max + 1) * (U128Max + 1) - 1

(***************************************************************************)
(* pendzl's mul_div: a * b / c in 256 bits, rounded down or up.  Dividing  *)
(* by zero is an error; callers guard it, here it is given the value 0.    *)
(***************************************************************************)
MulDivDown(a, b, c) == IF c = 0 THEN 0 ELSE (a * b) \div c

MulDivUp(a, b, c) ==
  IF c = 0 THEN 0
  ELSE ((a * b) \div c) + (IF (a * b) % c = 0 THEN 0 ELSE 1)

Least(a, b) == IF a <= b THEN a ELSE b

\* u128::saturating_sub
Monus(a, b) == IF a >= b THEN a - b ELSE 0
=============================================================================
