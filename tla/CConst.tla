------------------------------- MODULE CConst -------------------------------
(***************************************************************************)
(* Integer constant expressions of C headers (cheader/convert.py: _Int,     *)
(* _int_literal, const, unary, binary, cast), at any widths, and what the C  *)
(* standard says of them.  Floats and strings are left out.                  *)
(***************************************************************************)
EXTENDS Words, Sequences

CONSTANTS
  CIntBits, CLongBits, CWideBits,   \* int, long, long long: 32, 32 or 64, 64
  Nested,                           \* the expressions: those that are nested at most
                                    \* once, twice, ...
  NoExpr, NotEvaluated,
  Unsupported                       \* raised

ASSUME CConstAssumption ==
  /\ {CIntBits, CLongBits, CWideBits} \subseteq Nat
  /\ 1 < CIntBits /\ CIntBits <= CLongBits /\ CLongBits <= CWideBits
  /\ CWideBits <= Widest /\ 2^CWideBits <= Widest
  /\ Unsupported \notin [value : Int, bits : Nat, unsigned : BOOLEAN]
  /\ Unsupported # NotEvaluated

VARIABLES
  cexpr,    \* the expression
  cvalue    \* what const makes of it, Unsupported, or NotEvaluated

cVars == <<cexpr, cvalue>>

Number(v, b, u) == [kind |-> "number", value |-> v, bits |-> b, unsigned |-> u]
Literal(v, decimal, u, longs) ==
  [kind |-> "literal", value |-> v, decimal |-> decimal, u |-> u, longs |-> longs]
Unary(op, x) == [kind |-> "unary", op |-> op, x |-> x]
Binary(op, x, y) == [kind |-> "binary", op |-> op, x |-> x, y |-> y]
Cast(b, u, x) == [kind |-> "cast", bits |-> b, unsigned |-> u, x |-> x]
CastBool(x) == [kind |-> "bool", x |-> x]
Ternary(c, x, y) == [kind |-> "ternary", c |-> c, x |-> x, y |-> y]

CType(b, u) == [bits |-> b, unsigned |-> u]
IsOfType(v, t) == IF t.unsigned THEN v \in 0 .. 2^t.bits - 1
                  ELSE v \in -(2^(t.bits - 1)) .. 2^(t.bits - 1) - 1

Logical == {"&&", "||"}
Shifts == {"<<", ">>"}
Comparisons == {"<", ">", "<=", ">=", "==", "!="}
Arithmetic == {"+", "-", "*", "/", "%", "&", "|", "^"}

\* A number is a constant that was evaluated before, promoted.
IsExpr(e) ==
  \/ /\ e.kind = "number" /\ e.bits \in CIntBits .. CWideBits /\ e.unsigned \in BOOLEAN
     /\ e.value \in Int /\ IsOfType(e.value, CType(e.bits, e.unsigned))
  \/ /\ e.kind = "literal" /\ e.value \in Nat /\ e.longs \in 0 .. 2
     /\ e.decimal \in BOOLEAN /\ e.u \in BOOLEAN
  \/ e.kind = "unary" /\ e.op \in {"-", "+", "~", "!"}
  \/ e.kind = "cast" /\ e.bits \in 1 .. CWideBits /\ e.unsigned \in BOOLEAN
  \/ e.kind = "binary" /\ e.op \in Logical \cup Shifts \cup Comparisons \cup Arithmetic
  \/ e.kind \in {"bool", "ternary"}
SubExprs(e) ==
  CASE e.kind \in {"number", "literal"} -> {}
    [] e.kind \in {"unary", "cast", "bool"} -> {e.x}
    [] e.kind = "binary" -> {e.x, e.y}
    [] e.kind = "ternary" -> {e.c, e.x, e.y}

\* The parts of an expression are nested less.  (Levels is a definition, so
\* that TLC evaluates Nested once.)
Levels == Nested
CExprs == UNION {Levels[i] : i \in DOMAIN Levels}
ASSUME NestedAssumption ==
  /\ Len(Levels) \in Nat /\ DOMAIN Levels = 1 .. Len(Levels)
  /\ \A n \in DOMAIN Levels : \A e \in Levels[n] :
       IsExpr(e) /\ \A p \in SubExprs(e) : \E i \in 1 .. n - 1 : p \in Levels[i]

\* _Int: promoted to at least int, and wrapped.
CInt(v, b, u) ==
  LET p == IF b < CIntBits THEN CIntBits ELSE b
  IN  [value |-> IF u THEN Low(v, p) ELSE Sext(v, p), bits |-> p, unsigned |-> u]
CBool(condition) == CInt(IF condition THEN 1 ELSE 0, CIntBits, FALSE)

\* _int_literal: the first type in which the number fits.
LiteralInt(e) ==
  LET widths == <<CIntBits, CLongBits, CWideBits>>
      Fits(k, u) == /\ IF u THEN ~e.decimal \/ e.u ELSE ~e.u
                    /\ e.value < 2^(widths[k] - (IF u THEN 0 ELSE 1))
      fitting == {k \in e.longs + 1 .. 3 : Fits(k, FALSE) \/ Fits(k, TRUE)}
      first == CHOOSE k \in fitting : \A j \in fitting : k <= j
  IN  IF fitting = {} THEN CInt(e.value, CWideBits, TRUE)
      ELSE CInt(e.value, widths[first], ~Fits(first, FALSE))

\* _common
\* Faulty: unsigned wins, whatever its width.
UnsignedWins(a, b) ==
  [bits |-> IF a.bits > b.bits THEN a.bits ELSE b.bits, unsigned |-> a.unsigned \/ b.unsigned]
Common(a, b) ==
  LET s == IF a.unsigned THEN b ELSE a
      u == IF a.unsigned THEN a ELSE b
  IN  IF a.unsigned = b.unsigned
      THEN [bits |-> IF a.bits > b.bits THEN a.bits ELSE b.bits, unsigned |-> a.unsigned]
      ELSE IF u.bits >= s.bits THEN [bits |-> u.bits, unsigned |-> TRUE]
      ELSE [bits |-> s.bits, unsigned |-> FALSE]

Abs(n) == IF n < 0 THEN -n ELSE n
\* Faulty: rounds down.
RoundDown(x, y) == IF y < 0 THEN (-x) \div (-y) ELSE x \div y
Quotient(x, y) ==
  LET q == Abs(x) \div Abs(y) IN IF (x < 0) = (y < 0) THEN q ELSE -q

\* On two's complement, bit by bit.
FromBits(bit) ==
  LET sum[k \in 0 .. CWideBits] ==
        IF k = 0 THEN 0 ELSE sum[k - 1] + bit[k - 1] * 2^(k - 1)
  IN  sum[CWideBits]
Compare(op, x, y) ==
  \/ op = "<" /\ x < y
  \/ op = "<=" /\ x <= y
  \/ op = ">" /\ x > y
  \/ op = ">=" /\ x >= y
  \/ op = "==" /\ x = y
  \/ op = "!=" /\ x # y
Combine(op, x, y) ==
  CASE op = "+" -> x + y [] op = "-" -> x - y [] op = "*" -> x * y
    [] op = "/" -> Quotient(x, y)
    [] op = "%" -> x - Quotient(x, y) * y
    [] op = "&" -> FromBits([i \in 0 .. CWideBits - 1 |-> Bit(x, i) * Bit(y, i)])
    [] op = "|" -> FromBits([i \in 0 .. CWideBits - 1 |-> Larger(Bit(x, i), Bit(y, i))])
    [] op = "^" -> FromBits([i \in 0 .. CWideBits - 1 |-> (Bit(x, i) + Bit(y, i)) % 2])

\* binary.  In a branch that is not taken, what is an error is a 0.
WrongInt(t, dead) == IF dead THEN CInt(0, t.bits, t.unsigned) ELSE Unsupported
ShiftInt(op, a, b, dead) ==
  IF b.value < 0 THEN WrongInt(a, dead)
  ELSE CInt(IF op = "<<" THEN a.value * 2^b.value ELSE a.value \div 2^b.value, a.bits, a.unsigned)
\* The operators of two numbers of a common type.
CommonInt(op, x, y, common, dead) ==
  IF op \in Comparisons THEN CBool(Compare(op, x, y))
  ELSE IF op \in {"/", "%"} /\ y = 0 THEN WrongInt(common, dead)
  ELSE CInt(Combine(op, x, y), common.bits, common.unsigned)
BinaryInt(op, a, b, dead) ==
  CASE op = "&&" -> CBool(a.value # 0 /\ b.value # 0)
    [] op = "||" -> CBool(a.value # 0 \/ b.value # 0)
    [] op \in Shifts -> ShiftInt(op, a, b, dead)
    [] OTHER ->
         LET common == Common(a, b)
         IN  CommonInt(op, CInt(a.value, common.bits, common.unsigned).value,
                       CInt(b.value, common.bits, common.unsigned).value, common, dead)

UnaryInt(op, a) ==
  CASE op = "-" -> CInt(-a.value, a.bits, a.unsigned)
    [] op = "+" -> a
    [] op = "~" -> CInt(-a.value - 1, a.bits, a.unsigned)
    [] op = "!" -> CBool(a.value = 0)

\* cast: to a narrow type, then promoted.
\* Faulty: promoted at once.
CastPromoted(bits, unsigned, a) == CInt(a.value, bits, unsigned)
CastInt(bits, unsigned, a) ==
  IF bits >= CIntBits THEN CInt(a.value, bits, unsigned)
  ELSE LET n == CInt(Low(a.value, bits), CIntBits, FALSE)
       IN  IF ~unsigned /\ Bit(n.value, bits - 1) = 1 THEN CInt(n.value - 2^bits, CIntBits, FALSE) ELSE n

\* How the branch of a conditional that is not taken is evaluated, in one
\* that is itself dead or not.
\* Faulty: like the other one.
LikeTaken(dead) == dead
NotTaken(dead) == TRUE

\* The constant that e is, where const gives those its parts are.
ConstBy(const, e, dead) ==
  CASE e.kind = "number" -> CInt(e.value, e.bits, e.unsigned)
    [] e.kind = "literal" -> LiteralInt(e)
    [] e.kind = "unary" ->
         LET a == const[e.x][dead] IN IF a = Unsupported THEN a ELSE UnaryInt(e.op, a)
    [] e.kind = "cast" ->
         LET a == const[e.x][dead] IN IF a = Unsupported THEN a ELSE CastInt(e.bits, e.unsigned, a)
    [] e.kind = "bool" ->
         LET a == const[e.x][dead] IN IF a = Unsupported THEN a ELSE CBool(a.value # 0)
    [] e.kind = "binary" ->
         LET a == const[e.x][dead]
             b == const[e.y][dead]
         IN  IF Unsupported \in {a, b} THEN Unsupported ELSE BinaryInt(e.op, a, b, dead)
    [] e.kind = "ternary" ->
         LET c == const[e.c][dead]
             taken == c.value # 0
             chosen == const[IF taken THEN e.x ELSE e.y][dead]
             other == const[IF taken THEN e.y ELSE e.x][NotTaken(dead)]
         IN  IF c = Unsupported \/ Unsupported \in {chosen, other} THEN Unsupported
             ELSE LET common == Common(chosen, other)
                  IN  CInt(chosen.value, common.bits, common.unsigned)
Const[e \in CExprs] == [dead \in BOOLEAN |-> ConstBy(Const, e, dead)]

EvaluateConst ==
  /\ cexpr # NoExpr /\ cvalue = NotEvaluated
  /\ cvalue' = Const[cexpr][FALSE]
  /\ UNCHANGED cexpr

CInit == cexpr \in CExprs /\ cvalue = NotEvaluated
CSpec == CInit /\ [][EvaluateConst]_cVars

-----------------------------------------------------------------------------
(* What the standard says: a type, and a value unless it is undefined.      *)

\* Of two types, after the promotions.
Wider(s, t) ==
  IF s.bits = t.bits THEN CType(s.bits, s.unsigned \/ t.unsigned)
  ELSE IF s.bits > t.bits THEN s ELSE t
\* The types a literal may have, in order.
LiteralTypes(e) ==
  {t \in [bits : {CIntBits, CLongBits, CWideBits} \ (CASE e.longs = 0 -> {}
             [] e.longs = 1 -> {CIntBits} \ {CLongBits}
             [] e.longs = 2 -> {CIntBits, CLongBits} \ {CWideBits}),
           unsigned : BOOLEAN] :
     (e.u => t.unsigned) /\ (t.unsigned /\ e.decimal => e.u) /\ IsOfType(e.value, t)}

\* The type of e, where type gives those of its parts.  A literal that no type
\* has room for is taken to be of the widest one, as compilers do.
TypeBy(type, e) ==
  CASE e.kind = "number" -> CType(e.bits, e.unsigned)
    [] e.kind = "literal" ->
         LET types == LiteralTypes(e) IN
         IF types = {} THEN CType(CWideBits, TRUE)
         ELSE CHOOSE t \in types : \A s \in types : t.bits < s.bits \/ (t.bits = s.bits /\ (t.unsigned => s.unsigned))
    [] e.kind = "cast" -> IF e.bits < CIntBits THEN CType(CIntBits, FALSE) ELSE CType(e.bits, e.unsigned)
    [] e.kind = "bool" -> CType(CIntBits, FALSE)
    [] e.kind = "unary" -> IF e.op = "!" THEN CType(CIntBits, FALSE) ELSE type[e.x]
    [] e.kind = "binary" ->
         (IF e.op \in Comparisons \cup Logical THEN CType(CIntBits, FALSE)
          ELSE IF e.op \in Shifts THEN type[e.x] ELSE Wider(type[e.x], type[e.y]))
    [] e.kind = "ternary" -> Wider(type[e.x], type[e.y])
TypeOf[e \in CExprs] == TypeBy(TypeOf, e)

\* The value of type t that v is converted to.
Converted(v, t) == CHOOSE w \in -(2^t.bits) .. 2^t.bits : IsOfType(w, t) /\ (w - v) % 2^t.bits = 0

\* The exact result, in an unsigned type modulo its size.
Exactly(v, t) == IF t.unsigned THEN {Converted(v, t)} ELSE {w \in {v} : IsOfType(w, t)}
Truth(condition) == {IF condition THEN 1 ELSE 0}

\* The quotient is cut off, the rest has the sign of x.
Rest(x, y) ==
  {r \in -Abs(y) + 1 .. Abs(y) - 1 :
     (x - r) % Abs(y) = 0 /\ (x < 0 => r <= 0) /\ (x >= 0 => r >= 0)}
Divided(x, y) == {k \in -Abs(x) .. Abs(x) : \E r \in Rest(x, y) : x = k * y + r}

\* The values of an operator's result: of type t, of operands v and w, x and y
\* once they are converted to their common type.
UnaryValues(op, v, t) ==
  CASE op = "-" -> Exactly(-v, t) [] op = "+" -> {v} [] op = "~" -> Exactly(-1 - v, t)
    [] op = "!" -> Truth(v = 0)
ShiftValues(op, v, n, t) ==
  IF n \notin 0 .. t.bits - 1 THEN {}
  ELSE IF op = ">>" THEN {v \div 2^n}
  ELSE IF v < 0 THEN {} ELSE Exactly(v * 2^n, t)
BinaryValues(op, x, y, t) ==
  CASE op \in Comparisons -> Truth(Compare(op, x, y))
    [] op = "/" -> UNION {Exactly(q, t) : q \in Divided(x, y)}
    [] op = "%" -> IF \E q \in Divided(x, y) : Exactly(q, t) # {} THEN Rest(x, y) ELSE {}
    [] op \in {"&", "|", "^"} -> {Converted(Combine(op, x, y), t)}
    [] OTHER -> Exactly(Combine(op, x, y), t)

\* The value of e, as the only member of a set that is empty if it has none,
\* where values gives those of its parts.
ValuesBy(values, e) ==
  CASE e.kind = "number" -> {e.value}
    [] e.kind = "literal" -> IF LiteralTypes(e) = {} THEN {} ELSE {e.value}
    [] e.kind = "cast" -> {Converted(v, CType(e.bits, e.unsigned)) : v \in values[e.x]}
    [] e.kind = "bool" -> UNION {Truth(v # 0) : v \in values[e.x]}
    [] e.kind = "unary" -> UNION {UnaryValues(e.op, v, TypeOf[e]) : v \in values[e.x]}
    [] e.kind = "ternary" ->
         UNION {{Converted(v, TypeOf[e]) : v \in values[IF c # 0 THEN e.x ELSE e.y]} : c \in values[e.c]}
    [] e.kind = "binary" /\ e.op = "&&" ->
         UNION {IF v = 0 THEN {0} ELSE UNION {Truth(w # 0) : w \in values[e.y]} : v \in values[e.x]}
    [] e.kind = "binary" /\ e.op = "||" ->
         UNION {IF v # 0 THEN {1} ELSE UNION {Truth(w # 0) : w \in values[e.y]} : v \in values[e.x]}
    [] e.kind = "binary" /\ e.op \in Shifts ->
         UNION {UNION {ShiftValues(e.op, v, n, TypeOf[e]) : n \in values[e.y]} : v \in values[e.x]}
    [] OTHER ->
         LET common == Wider(TypeOf[e.x], TypeOf[e.y])
         IN  UNION {UNION {BinaryValues(e.op, Converted(v, common), Converted(w, common), TypeOf[e])
                           : w \in values[e.y]} : v \in values[e.x]}
CValues[e \in CExprs] == ValuesBy(CValues, e)

\* Both operands of && and || are always evaluated.
BothNeededBy(needed, e) ==
  CASE e.kind \in {"number", "literal"} -> FALSE
    [] e.kind \in {"unary", "cast", "bool"} -> needed[e.x]
    [] e.kind = "binary" ->
         \/ e.op \in Logical /\ CValues[e.y] = {}
         \/ needed[e.x] \/ needed[e.y]
    [] e.kind = "ternary" -> needed[e.c] \/ needed[e.x] \/ needed[e.y]
BothNeeded[e \in CExprs] == BothNeededBy(BothNeeded, e)

\* A constant that has a value in C has this value and its type.
ConstantsAgree ==
  cexpr # NoExpr /\ cvalue \notin {NotEvaluated, Unsupported} =>
    \A v \in CValues[cexpr] :
      /\ cvalue.value = v
      /\ cvalue.bits = TypeOf[cexpr].bits /\ cvalue.unsigned = TypeOf[cexpr].unsigned

\* One is refused only if C gives it no value, or an operand of && or || that
\* C does not evaluate has none.
ConstantsRefused ==
  cexpr # NoExpr /\ cvalue = Unsupported => CValues[cexpr] = {} \/ BothNeeded[cexpr]

\* A constant expression is evaluated as in C, or refused with a reason in C.
ConstantsRight == ConstantsAgree /\ ConstantsRefused
=============================================================================
