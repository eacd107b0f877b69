------------------------------ MODULE MCHeader ------------------------------
(* Constant expressions to evaluate, for module MCParts.                    *)
EXTENDS CConst

Widths == {CIntBits, CLongBits}
\* Of every type the least, the greatest and some between.
Numbers ==
  {Number(v, b, FALSE) : v \in {-4, -1, 0, 3}, b \in Widths}
  \cup {Number(v, b, TRUE) : v \in {0, 3, 7}, b \in Widths}
  \cup {Number(v, CLongBits, FALSE) : v \in {-8, 7}}
  \cup {Number(v, CLongBits, TRUE) : v \in {8, 15}}
Literals == {Literal(v, d, u, n) : v \in {0, 3, 4, 7, 8, 15, 16}, d \in BOOLEAN, u \in BOOLEAN, n \in 0 .. 2}
Operators == Logical \cup Shifts \cup Comparisons \cup Arithmetic
Signs == {"-", "+", "~", "!"}
CastsOf(s) == {Cast(b, u, x) : b \in {CIntBits - 1} \cup Widths, u \in BOOLEAN, x \in s}
              \cup {CastBool(x) : x \in s}

\* With and without a value, of every type.
Few == {Number(-1, CIntBits, FALSE), Number(3, CIntBits, TRUE), Number(-4, CLongBits, FALSE),
        Number(0, CLongBits, TRUE)}
Pairs == {Binary(op, x, y) : op \in {"/", "<<", "&&"}, x \in Few, y \in Few}
Troubled == {Binary("/", x, Number(0, CLongBits, TRUE)) : x \in Few}

MCNested ==
  <<Numbers \cup Literals,
    {Binary(op, x, y) : op \in Operators, x \in Numbers, y \in Numbers},
    {Unary(op, x) : op \in Signs, x \in Numbers \cup Literals} \cup CastsOf(Numbers),
    {Unary(op, x) : op \in Signs, x \in Pairs} \cup CastsOf(Pairs),
    {Binary(op, x, y) : op \in Operators, x \in CastsOf(Few), y \in Few},
    {Binary(op, x, y) : op \in {"+", "<", "&&", "||"}, x \in Few \cup Troubled, y \in Pairs},
    {Ternary(c, x, y) : c \in Few, x \in Few \cup Troubled, y \in Few \cup Literals},
    {Ternary(c, x, y) : c \in Few, x \in Pairs, y \in Few \cup Troubled},
    {Ternary(c, y, Ternary(d, x, y)) : c \in Few, d \in Few, x \in Pairs, y \in Few}>>
=============================================================================
