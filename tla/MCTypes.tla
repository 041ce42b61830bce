------------------------------ MODULE MCTypes ------------------------------
(***************************************************************************)
(* Every function of the table with numbers that show what it does, for    *)
(* TLC: bytes of two bits.                                                 *)
(***************************************************************************)
EXTENDS Stream

SmallFloat == [exponent |-> 3, fraction |-> 4]
SmallDouble == [exponent |-> 4, fraction |-> 11]

(* One bit, the sign of one of the types or one that is not, and all bits  *)
(* from one on.                                                            *)
Patterns ==
  {[i \in 0 .. LongBits - 1 |-> IF i = k THEN 1 ELSE 0] : k \in {0, 1, 3, 5, 7, 15}} \cup
  {[i \in 0 .. LongBits - 1 |-> IF i >= k THEN 1 ELSE 0] : k \in {0, 1, 5, 7, 14}}

(* Doubles about the halfway points between floats, and on them; those     *)
(* with an exponent below 5 are subnormal floats, those above 10 none.     *)
Exponents == {0, 1, 2, 4, 5, 10, 11, 15}
Fractions == {0, 1, 64, 65, 192, 1024, 1984}
Doubles ==
  {WithSign(e * 2 ^ Double.fraction + f, IF f = 1024 THEN 1 ELSE 0, Double) :
     e \in Exponents, f \in Fractions}

AllWritten ==
  ({t \in Entries : t.name # "Float"} \X Patterns) \cup ({t \in Entries : t.name = "Float"} \X Doubles)
=============================================================================
