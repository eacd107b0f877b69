------------------------------- MODULE MCLink -------------------------------
(* Small instances of Link for TLC.                                         *)
EXTENDS Link

CONSTANTS e1, e2, e3, strlen, strcmp

MCExtName == [e \in Externs |-> IF e = e3 THEN strcmp ELSE strlen]
\* e1 knows its address, e2 does not.
MCOwnAddress == [e \in Externs |-> IF e = e1 THEN 70 ELSE NoAddress]
NoGivens == {<<>>}
MCGivens == {<<>>, strlen :> 90}

Abs1 == [size |-> 1, slot |-> FALSE]
Slot1 == [size |-> 1, slot |-> TRUE]
NoKinds == {}
FieldKinds == {Abs1, Slot1}
Symmetry == Permutations(Asms)
=============================================================================
