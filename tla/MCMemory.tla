------------------------------ MODULE MCMemory ------------------------------
(* Small instances of ExecMemory for TLC.                                   *)
EXTENDS ExecMemory, TLC

ThreePages == 0 .. 2
Symmetry == Permutations(Mems)
=============================================================================
