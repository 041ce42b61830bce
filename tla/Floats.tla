------------------------------- MODULE Floats -------------------------------
(***************************************************************************)
(* The conversions between double and float that Types.cpp leaves to the   *)
(* compiler, as the processors PHP runs on make them.  A format f has      *)
(* f.exponent bits of exponent and f.fraction bits of fraction; a number   *)
(* without its sign is the integer that its other bits make, so that       *)
(* greater numbers are greater integers and NaNs follow the infinity.      *)
(***************************************************************************)
EXTENDS Integers

Infinity(f) == (2 ^ f.exponent - 1) * 2 ^ f.fraction

Bias(f) == 2 ^ (f.exponent - 1) - 1

(* The exponent field of k, where subnormals count as 1. *)
Exponent(k, f) == IF k < 2 ^ f.fraction THEN 1 ELSE k \div 2 ^ f.fraction

(* The fraction of k, with the bit that only subnormals lack. *)
Significand(k, f) == k - (Exponent(k, f) - 1) * 2 ^ f.fraction

(* A NaN of format f is made one of format g: the upper bits of its        *)
(* fraction stay, the first of them is set.                                *)
QuietNaN(k, f, g) ==
  LET payload == ((k - Infinity(f)) * 2 ^ g.fraction) \div 2 ^ f.fraction
      quiet   == 2 ^ (g.fraction - 1)
  IN  Infinity(g) + (IF payload < quiet THEN payload + quiet ELSE payload)

(* Mutant of Rounded: what does not fit is cut off. *)
RoundedDown(s, d) == s \div 2 ^ d

(* s without its last d bits, rounded to the nearest, ties to even. *)
Rounded(s, d) ==
  LET q == s \div 2 ^ d
      r == 2 * (s % 2 ^ d)
  IN  IF r > 2 ^ d \/ (r = 2 ^ d /\ q % 2 = 1) THEN q + 1 ELSE q

(* From a format f to a smaller one g.  A carry out of the fraction counts *)
(* up the exponent, and beyond the largest number it gives the infinity.   *)
Narrow(k, f, g) ==
  LET e == Exponent(k, f) - (Bias(f) - Bias(g))
      d == f.fraction - g.fraction
      n == IF e >= 1 THEN (e - 1) * 2 ^ g.fraction + Rounded(Significand(k, f), d)
                     ELSE Rounded(Significand(k, f), d + 1 - e)
  IN  IF k > Infinity(f) THEN QuietNaN(k, f, g)
      ELSE IF n > Infinity(g) THEN Infinity(g) ELSE n

(* Mutant of Leading: a subnormal is taken for a normal number. *)
LeadingNormal(k, f) == f.fraction

(* The number of the highest bit set in the significand of k. *)
Leading(k, f) ==
  CHOOSE p \in 0 .. f.fraction :
    2 ^ p <= Significand(k, f) /\ Significand(k, f) < 2 ^ (p + 1)

(* From a format f to a larger one g, which is exact: a number that is     *)
(* subnormal in f is not in g.                                             *)
Widen(k, f, g) ==
  LET p == Leading(k, f)
      e == Exponent(k, f) + Bias(g) - Bias(f) - (f.fraction - p)
  IN  IF k > Infinity(f) THEN QuietNaN(k, f, g)
      ELSE IF k = Infinity(f) THEN Infinity(g)
      ELSE IF k = 0 THEN 0
      ELSE (e - 1) * 2 ^ g.fraction + Significand(k, f) * 2 ^ (g.fraction - p)
=============================================================================
