----------------------------- MODULE MCAssembler -----------------------------
(* Small instances of Assembler for TLC.                                    *)
EXTENDS Assembler

CONSTANTS e1, e2, e3, strlen, strcmp

\* Two Extern objects share the name strlen: they share one slot.
MCExtName == [e \in Externs |-> IF e = e3 THEN strcmp ELSE strlen]

Abs1 == [size |-> 1, slot |-> FALSE]
Abs2 == [size |-> 2, slot |-> FALSE]
Slot1 == [size |-> 1, slot |-> TRUE]

NoKinds == {}
ByteKind == {Abs1}
FieldKinds == {Abs1, Slot1}
WideKinds == {Abs2, Slot1}
NoAligns == {}
PowersOfTwo == {1, 2, 4}
NoExterns == {}
Symmetry == Permutations(Asms) \cup Permutations(Names)
=============================================================================
