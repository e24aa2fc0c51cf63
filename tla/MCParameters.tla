---------------------------- MODULE MCParameters ----------------------------
(* Small instances of Parameters for TLC: a and b are a group of i1, c has *)
(* a step and is part of i2, d is a delegate of c.                         *)
EXTENDS Parameters

abcd == {"a", "b", "c", "d"}
DelegatesToC == [p \in abcd |-> IF p = "d" THEN "c" ELSE p]
TwoInOneGroup == [r \in {"a", "b", "c"} |->
                    IF r = "c" THEN {"c"} ELSE {"a", "b"}]
OnlyC == {"c"}
\* the delegate is bound to the instrument of its source, or to another
AtHome == [p \in abcd |-> IF p \in {"a", "b"} THEN "i1" ELSE "i2"]
Abroad == [p \in abcd |-> IF p \in {"a", "b", "d"} THEN "i1" ELSE "i2"]
ThreeOfTwo == {<<"a", "c", "d">>}
=============================================================================
