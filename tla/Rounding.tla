------------------------------ MODULE Rounding ------------------------------
(***************************************************************************)
(* Python's round(x, 6) as neurons/scoring.py uses it on scores and        *)
(* weights.  Scores are integers here, counted in the last digit kept; an  *)
(* exact tie goes either way (`up`), since the binary fraction the code    *)
(* rounds lies just above or just below it.                                *)
(***************************************************************************)
EXTENDS Integers

CONSTANT Scale   \* a score or a weight of 1.0, in units

ASSUME ScaleAssumption == Scale \in Nat \ {0}

(* Faulty: rounds up. *)
Rounded_Up(num, den, up) == IF num % den = 0 THEN num \div den ELSE num \div den + 1

(* num / den, rounded to the nearest integer.                              *)
Rounded(num, den, up) ==
    LET down == num \div den
        rest == 2 * (num % den)
    IN  IF rest > den \/ (rest = den /\ up) THEN down + 1 ELSE down

=============================================================================
