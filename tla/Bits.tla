-------------------------------- MODULE Bits --------------------------------
(***************************************************************************)
(* The integers of C++ as functions from the number of a bit, 0 being the  *)
(* least significant, to 0 or 1; a width is given where an operator needs  *)
(* it.  A signed integer is its two's complement.                          *)
(***************************************************************************)
EXTENDS Integers

Word(n) == [0 .. n - 1 -> {0, 1}]

Zero(n) == [i \in 0 .. n - 1 |-> 0]

(* v << k and v >> k of an unsigned integer v of n bits. *)
ShiftLeft(v, n, k) == [i \in 0 .. n - 1 |-> IF i >= k THEN v[i - k] ELSE 0]
ShiftRight(v, n, k) == [i \in 0 .. n - 1 |-> IF i + k < n THEN v[i + k] ELSE 0]

(* v >> k of a signed one: the sign comes in at the top. *)
SignedShiftRight(v, n, k) == [i \in 0 .. n - 1 |-> IF i + k < n THEN v[i + k] ELSE v[n - 1]]

Or(u, v) == [i \in DOMAIN u |-> IF u[i] = 1 THEN 1 ELSE v[i]]
Xor(u, v) == [i \in DOMAIN u |-> IF u[i] = v[i] THEN 0 ELSE 1]

(* static_cast from m bits to n: bits are dropped at the top, or zeros or  *)
(* copies of the sign come in there.                                       *)
Cast(v, m, n, signed) ==
  [i \in 0 .. n - 1 |-> IF i < m THEN v[i] ELSE IF signed THEN v[m - 1] ELSE 0]
=============================================================================
