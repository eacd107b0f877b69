------------------------------ MODULE MCLoader ------------------------------
(* Small instances of Loader for TLC.                                       *)
EXTENDS Loader, TLC

ThreePages == 0 .. 2
\* Code only, and code with a writable byte on a page of its own.
TwoPrograms == {[size |-> 2, exec |-> 2], [size |-> 3, exec |-> 2]}
Symmetry == Permutations(Mems) \cup Permutations(Threads) \cup Permutations(Handles)
            \cup Permutations(Defs)
=============================================================================
