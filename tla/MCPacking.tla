----------------------------- MODULE MCPacking ------------------------------
(* Small instances of Packing for TLC.                                       *)
EXTENDS Packing

\* A byte, an int and a struct of shorts.
MCTypes == {[size |-> 1, align |-> 1], [size |-> 4, align |-> 4], [size |-> 6, align |-> 2]}
=============================================================================
