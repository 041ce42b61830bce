------------------------------- MODULE SizeT --------------------------------
(***************************************************************************)
(* The integers of the extension that have a width: size_t, in which all   *)
(* offsets and lengths are kept, and zend_long, the integer of a script.   *)
(* Both have 2^w values; the conversions between them never fail.          *)
(***************************************************************************)
EXTENDS Integers

CONSTANT SizeMod   \* 2^w

Size == 0 .. SizeMod - 1                                     \* size_t
Long == {n \in Int : -SizeMod <= 2 * n /\ 2 * n < SizeMod}    \* zend_long

(* Mutant of Wrap: a negative zend_long is stored as it is. *)
WrapNot(n) == IF n >= SizeMod THEN n - SizeMod ELSE n

(* A sum or a difference of two size_t, or a zend_long, as a size_t. *)
Wrap(n) ==
  IF n >= SizeMod THEN n - SizeMod ELSE IF n < 0 THEN n + SizeMod ELSE n

(* A size_t as the zend_long RETURN_LONG makes of it. *)
Signed(n) == IF 2 * n >= SizeMod THEN n - SizeMod ELSE n
=============================================================================
