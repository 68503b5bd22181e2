------------------------------- MODULE MCLines -------------------------------
(* All texts of six characters at most, and buffers they fill. *)
EXTENDS LinesProperties

CONSTANT MaxLen

Characters == {"a", "0", "1", " ", "n"}
SmallTexts == BoundedSeq(Characters, MaxLen)
DigitValues == [c \in {"0", "1"} |-> IF c = "0" THEN 0 ELSE 1]
LoginText == <<"a", " ">>
QuitText == <<"1">>
=============================================================================
