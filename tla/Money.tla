------------------------------- MODULE Money -------------------------------
(***************************************************************************)
(* Rounding of money in the Python services.  Amounts are integers in minor *)
(* units; a rate is a numerator over a scale.                               *)
(***************************************************************************)
EXTENDS Integers

(* Mutant: fractions are cut off. *)
Truncated(n, d) == n \div d

(* _round0: n/d, for n >= 0, to the nearest integer and halves upwards. *)
RoundHalfUp(n, d) == (2 * n + d) \div (2 * d)
=============================================================================
