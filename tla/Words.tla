------------------------------- MODULE Words --------------------------------
(* Two's complement.                                                        *)
EXTENDS Integers

\* What powers are, at the widths that are used: each is twice the one before.
CONSTANT Widest
ASSUME PowersAssumption ==
  Widest \in Nat /\ 2^0 = 1 /\ \A n \in 0 .. Widest : 2^(n + 1) = 2 * 2^n

Larger(a, b) == IF a < b THEN b ELSE a

\* The pattern of v in b bits, and the number it is.
Low(v, b) == v % 2^b
Sext(v, b) == LET p == Low(v, b) IN IF p >= 2^(b - 1) THEN p - 2^b ELSE p
Bit(v, i) == (v \div 2^i) % 2
=============================================================================
