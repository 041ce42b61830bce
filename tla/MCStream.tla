------------------------------ MODULE MCStream ------------------------------
(***************************************************************************)
(* A few functions whose values are patched and cut off, for TLC.          *)
(***************************************************************************)
EXTENDS MCTypes

(* Types of different lengths and orders, and numbers that make varints of *)
(* different lengths.                                                      *)
Few ==
  {t \in Entries :
     \/ t.class = "BE" /\ t.name = "Short" /\ t.sign = "Signed"
     \/ t.class = "LE" /\ t.name = "Triad" /\ t.sign = "Signed"
     \/ t.class = "BE" /\ t.name = "Float"
     \/ t.class = "VarInt" /\ t.name = "Int" /\ t.sign = "Unsigned"}
FewWritten == Few \X {Digits(k, LongBits) : k \in {5, 65510}}

(* What StreamProofs starts from, with every exponent of the small double  *)
(* and every float.                                                        *)
FloatsWritten ==
  {t \in Entries : t.name = "Float"} \X
    {WithSign(e * 2 ^ Double.fraction + f, IF f = 1024 THEN 1 ELSE 0, Double) :
       e \in 0 .. 2 ^ Double.exponent - 1, f \in Fractions}

ASSUME FloatsConverted == FloatsNear(FloatsWritten) /\ FloatsKept
=============================================================================
