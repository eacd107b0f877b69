------------------------------ MODULE X64Decode -----------------------------
(***************************************************************************)
(* What the processor makes of an encoding, and that it is what was asked   *)
(* for: a decoder written from the opcode maps of the architecture, for the *)
(* instructions of module X64.                                              *)
(***************************************************************************)
EXTENDS X64

-----------------------------------------------------------------------------
(* The architecture: what the processor makes of the fields                 *)

\* Operands of the opcode maps: E is ModRM's register or memory, G its
\* register, Z the opcode's, A the accumulator, I an immediate, O an address,
\* J a distance, H vvvv and L the high half of an immediate; then the size:
\* v is w, d or q by the prefixes, y is d or q, s a sign extended byte, z a
\* field of at most 32 bits; k is the size of the stack, x that of the vector.
Row(map, op, name, args) ==
  [vex |-> FALSE, map |-> map, pp |-> {}, op |-> op, ext |-> None, name |-> name, args |-> args]
Group(op, ext, name, args) == [Row(0, op, name, args) EXCEPT !.ext = ext]

ArithRows(op, ext, name) ==
  { Row(0, op, name, <<"Eb", "Gb">>), Row(0, op + 1, name, <<"Ev", "Gv">>),
    Row(0, op + 2, name, <<"Gb", "Eb">>), Row(0, op + 3, name, <<"Gv", "Ev">>),
    Row(0, op + 4, name, <<"Ab", "Ib">>), Row(0, op + 5, name, <<"Av", "Iz">>),
    Group(\h80, ext, name, <<"Eb", "Ib">>), Group(\h81, ext, name, <<"Ev", "Iz">>),
    Group(\h83, ext, name, <<"Ev", "Is">>) }
ShiftRows(ext, name) ==
  { Group(\hC0, ext, name, <<"Eb", "Ib">>), Group(\hC1, ext, name, <<"Ev", "Ib">>),
    Group(\hD0, ext, name, <<"Eb", "1">>), Group(\hD1, ext, name, <<"Ev", "1">>),
    Group(\hD2, ext, name, <<"Eb", "CL">>), Group(\hD3, ext, name, <<"Ev", "CL">>) }

OpcodeMap ==
  ArithRows(\h00, 0, "add") \cup ArithRows(\h38, 7, "cmp")
  \cup ShiftRows(4, "shl") \cup ShiftRows(7, "sar")
  \cup {Row(0, \hB0 + k, "mov", <<"Zb", "Ib">>) : k \in 0 .. 7}
  \cup {Row(0, \hB8 + k, "mov", <<"Zv", "Iv">>) : k \in 0 .. 7}
  \cup {Row(0, \h90 + k, "xchg", <<"Av", "Zv">>) : k \in 0 .. 7}
  \cup {Row(0, \h50 + k, "push", <<"Zk">>) : k \in 0 .. 7}
  \cup
  { Row(0, \h88, "mov", <<"Eb", "Gb">>), Row(0, \h89, "mov", <<"Ev", "Gv">>),
    Row(0, \h8A, "mov", <<"Gb", "Eb">>), Row(0, \h8B, "mov", <<"Gv", "Ev">>),
    Row(0, \hA0, "mov", <<"Ab", "Ob">>), Row(0, \hA1, "mov", <<"Av", "Ov">>),
    Row(0, \hA2, "mov", <<"Ob", "Ab">>), Row(0, \hA3, "mov", <<"Ov", "Av">>),
    Group(\hC6, 0, "mov", <<"Eb", "Ib">>), Group(\hC7, 0, "mov", <<"Ev", "Iz">>),
    Row(1, \hAF, "imul", <<"Gv", "Ev">>),
    Row(0, \h69, "imul", <<"Gv", "Ev", "Iz">>), Row(0, \h6B, "imul", <<"Gv", "Ev", "Is">>),
    Row(0, \h84, "test", <<"Eb", "Gb">>), Row(0, \h85, "test", <<"Ev", "Gv">>),
    Row(0, \hA8, "test", <<"Ab", "Ib">>), Row(0, \hA9, "test", <<"Av", "Iz">>),
    Group(\hF6, 0, "test", <<"Eb", "Ib">>), Group(\hF7, 0, "test", <<"Ev", "Iz">>),
    Row(0, \h86, "xchg", <<"Gb", "Eb">>), Row(0, \h87, "xchg", <<"Gv", "Ev">>),
    Group(\hFF, 6, "push", <<"Ek">>), Row(0, \h68, "push", <<"Ik">>), Row(0, \h6A, "push", <<"Is">>),
    Row(1, \hB6, "movzx", <<"Gv", "Eb">>), Row(1, \hB7, "movzx", <<"Gv", "Ew">>),
    [Row(2, \hF0, "crc32", <<"Gy", "Eb">>) EXCEPT !.pp = {\hF2}],
    [Row(2, \hF1, "crc32", <<"Gy", "Ev">>) EXCEPT !.pp = {\hF2}],
    Row(0, \h8D, "lea", <<"Gv", "M">>),
    Group(\hFF, 4, "jmp", <<"Eq">>), Row(0, \hE9, "jmp", <<"Jz">>), Row(0, \hEB, "jmp", <<"Jb">>),
    Row(1, \h84, "je", <<"Jz">>), Row(0, \h74, "je", <<"Jb">>),
    [Row(1, \h58, "vaddps", <<"Gx", "Hx", "Ex">>) EXCEPT !.vex = TRUE],
    [Row(3, \h4A, "vblendvps", <<"Gx", "Hx", "Ex", "Lx">>) EXCEPT !.vex = TRUE, !.pp = {1}] }

\* Prefixes, up to the opcode.  A REX prefix counts only right before it.
At(c, i) == IF i \in DOMAIN c THEN c[i].value ELSE 0
Prefixed(c) ==
  LET legacy == {\h66, \h67, \hF2, \hF3}
      p == Min({i \in 1 .. Len(c) + 1 : At(c, i) \notin legacy})
      prefixes == {At(c, i) : i \in 1 .. p - 1}
      byte == At(c, p)
      next == At(c, p + 1)
      rex == byte \in 64 .. 79
      q == IF rex THEN p + 1 ELSE p
      escape == IF At(c, q) # \h0F THEN 0 ELSE IF At(c, q + 1) = \h38 THEN 2
                ELSE IF At(c, q + 1) = \h3A THEN 3 ELSE 1
      VexHead(w, x, b, map, tail, at) ==
        [vex |-> TRUE, rex |-> FALSE, w |-> w, r |-> Bit(next, 7) = 0, x |-> x, b |-> b,
         o16 |-> FALSE, a32 |-> \h67 \in prefixes, long |-> Bit(tail, 2) = 1,
         v |-> 15 - ((tail \div 8) % 16), map |-> map, pp |-> {tail % 4} \ {0}, at |-> at]
  IN
  IF byte = \hC5 THEN VexHead(FALSE, FALSE, FALSE, 1, next, p + 2)
  ELSE IF byte = \hC4
  THEN VexHead(Bit(At(c, p + 2), 7) = 1, Bit(next, 6) = 0, Bit(next, 5) = 0, next % 32,
               At(c, p + 2), p + 3)
  ELSE [vex |-> FALSE, rex |-> rex, w |-> rex /\ Bit(byte, 3) = 1, r |-> rex /\ Bit(byte, 2) = 1,
        x |-> rex /\ Bit(byte, 1) = 1, b |-> rex /\ Bit(byte, 0) = 1,
        o16 |-> \h66 \in prefixes, a32 |-> \h67 \in prefixes, long |-> FALSE, v |-> 0,
        map |-> escape, pp |-> prefixes \cap {\hF2, \hF3},
        at |-> q + (IF escape = 0 THEN 0 ELSE IF escape = 1 THEN 1 ELSE 2)]

\* ModRM at i: the parts, and the place after the displacement.
ModRMAt(c, i) ==
  LET byte == At(c, i)
      mod == byte \div 64
      rm == byte % 8
      sib == mod # 3 /\ rm = 4
      base == At(c, i + 1) % 8
      at == IF sib THEN i + 2 ELSE i + 1
      bits == IF mod = 1 THEN 8
              ELSE IF mod = 2 \/ (mod = 0 /\ (rm = 5 \/ (sib /\ base = 5))) THEN LongBits ELSE 0
      present == bits > 0
  IN  [mod |-> mod, reg |-> (byte \div 8) % 8, rm |-> rm, sib |-> sib,
       sibByte |-> At(c, i + 1),
       disp |-> IF present THEN Sext(At(c, at), bits) ELSE 0,
       sound |-> present => at \in DOMAIN c /\ c[at].bits = bits,
       next |-> IF present THEN at + 1 ELSE at]

Address(size, coef, rip, a32, disp) ==
  [kind |-> "mem", size |-> size, coef |-> coef, rip |-> rip,
   at |-> Low(disp, IF a32 THEN LongBits ELSE QuadBits), a32 |-> a32]
Coefs(base, index, scale) ==
  [r \in 0 .. 15 |-> Flag(r = base, 1) + Flag(r = index, scale)]

MemAt(c, h, m, size) ==
  LET sib == m.sibByte
      index == ((sib \div 8) % 8) + Flag(h.x, 8)
      noBase == m.mod = 0 /\ (IF m.sib THEN sib % 8 = 5 ELSE m.rm = 5)
      low == IF m.sib THEN (sib % 8) ELSE m.rm
      rip == noBase /\ ~m.sib
      coef == Coefs(IF noBase THEN None ELSE low + Flag(h.b, 8),
                    IF m.sib /\ index # 4 THEN index ELSE None, 2^(sib \div 64))
  IN  Address(size, coef, rip, h.a32, m.disp + Flag(rip, EndOf(c, Len(c))))

\* Bytes 4 to 7 are ah to bh without a REX prefix.
RegAt(h, size, n) ==
  IF size = "b" /\ ~h.rex /\ n \in 4 .. 7 THEN HighReg(n) ELSE Reg(size, n)

OperandSize(h, s) ==
  CASE s = "v" -> (IF h.w THEN "q" ELSE IF h.o16 THEN "w" ELSE "d")
    [] s = "y" -> (IF h.w THEN "q" ELSE "d")
    [] s = "k" -> (IF h.o16 THEN "w" ELSE "q")
    [] s = "x" -> (IF h.long THEN "y" ELSE "o")
    [] OTHER -> s

\* The row's operands; the operand size is that of the first one.
Decoded(c, h, row) ==
  LET op == At(c, h.at)
      modrm == \E i \in DOMAIN row.args : row.args[i] \in
                 {"Eb", "Ew", "Ev", "Ek", "Eq", "Ex", "M"}
      m == ModRMAt(c, h.at + 1)
      rest == IF modrm THEN m.next ELSE h.at + 1
      Code(n, high) == n + Flag(high, 8)
      E(s) == IF m.mod = 3 THEN RegAt(h, s, Code(m.rm, h.b)) ELSE MemAt(c, h, m, s)
      first == CASE row.name = "push" -> OperandSize(h, "k")
                 [] row.args[1] \in {"Eb", "Gb", "Zb", "Ab", "Ob"} -> "b"
                 [] OTHER -> OperandSize(h, "v")
      N(bits, wide) ==
        IF rest \in DOMAIN c /\ c[rest].bits = bits
        THEN Imm(Low(Sext(c[rest].value, bits), wide)) ELSE None
      Target(bits) ==
        IF rest \in DOMAIN c /\ c[rest].bits = bits
        THEN [kind |-> "target", at |-> Sext(c[rest].value, bits) + EndOf(c, rest)] ELSE None
      NoCoef == Coefs(None, None, 0)
      O(s) == IF rest \in DOMAIN c /\ c[rest].bits = QuadBits
              THEN Address(s, NoCoef, FALSE, h.a32, c[rest].value) ELSE None
      Arg(a) ==
        CASE a = "M" -> (IF m.mod = 3 THEN None ELSE MemAt(c, h, m, None))
          [] a \in {"Eb", "Ew", "Ev", "Ek", "Eq", "Ex"} ->
               E(OperandSize(h, CASE a = "Eb" -> "b" [] a = "Ew" -> "w" [] a = "Ev" -> "v"
                                  [] a = "Ek" -> "k" [] a = "Eq" -> "q" [] a = "Ex" -> "x"))
          [] a = "Gb" -> RegAt(h, "b", Code(m.reg, h.r))
          [] a = "Gv" -> Reg(OperandSize(h, "v"), Code(m.reg, h.r))
          [] a = "Gy" -> Reg(OperandSize(h, "y"), Code(m.reg, h.r))
          [] a = "Gx" -> Reg(OperandSize(h, "x"), Code(m.reg, h.r))
          [] a = "Zb" -> RegAt(h, "b", Code(op % 8, h.b))
          [] a = "Zv" -> Reg(OperandSize(h, "v"), Code(op % 8, h.b))
          [] a = "Zk" -> Reg(OperandSize(h, "k"), Code(op % 8, h.b))
          [] a = "Ab" -> Reg("b", 0)
          [] a = "Av" -> Reg(OperandSize(h, "v"), 0)
          [] a = "CL" -> Reg("b", 1)
          [] a = "Hx" -> Reg(OperandSize(h, "x"), h.v)
          [] a = "Lx" -> Reg(OperandSize(h, "x"), At(c, rest) \div 16)
          [] a = "1" -> Imm(1)
          [] a = "Ib" -> N(8, 8)
          [] a = "Is" -> N(8, SizeBits(first))
          [] a = "Iz" -> N(IF first = "q" THEN LongBits ELSE SizeBits(first), SizeBits(first))
          [] a = "Ik" -> N(LongBits, QuadBits)
          [] a = "Iv" -> N(SizeBits(first), SizeBits(first))
          [] a = "Ob" -> O("b")
          [] a = "Ov" -> O(OperandSize(h, "v"))
          [] a = "Jb" -> Target(8)
          [] a = "Jz" -> Target(LongBits)
      fields == \E i \in DOMAIN row.args : row.args[i] \in
                  {"Ib", "Is", "Iz", "Ik", "Iv", "Ob", "Ov", "Jb", "Jz", "Lx"}
      next == rest + Flag(fields, 1)
  IN
  IF next # Len(c) + 1 \/ (modrm /\ ~m.sound) \/ (row.ext # None /\ m.reg # row.ext)
  THEN {}
  ELSE {[name |-> row.name, args |-> [i \in DOMAIN row.args |-> Arg(row.args[i])]]}

Decode(c) ==
  LET h == Prefixed(c)
      rows == {row \in OpcodeMap : /\ row.vex = h.vex /\ row.map = h.map /\ row.pp = h.pp
                                   /\ row.op = At(c, h.at)}
  IN  UNION {Decoded(c, h, row) : row \in rows}

-----------------------------------------------------------------------------
(* Correctness                                                              *)

\* What the instruction asks for.  The size of ptr[...] is that of the
\* common size, the immediate is its pattern in the size of the operation.
AskedFor(i, end) ==
  LET size == CommonSize(i.args)
      immBits == CASE i.name \in {"shl", "sar"} -> 8 [] OTHER -> SizeBits(size)
      Asked(a) ==
        CASE a.kind = "reg" -> a
          [] a.kind = "imm" -> Imm(Low(a.value, immBits))
          [] a.kind = "label" ->
               (IF i.name \in {"jmp", "je"} THEN [kind |-> "target", at |-> LabelAt]
                                            ELSE Imm(Low(LabelAt, QuadBits)))
          [] a.kind = "mem" ->
               Address(IF i.name = "lea" THEN None ELSE IF a.size = None THEN size ELSE a.size,
                       Coefs(a.base, a.index, a.scale), a.base = Rip,
                       a.addr = 4 /\ {a.base, a.index} \ {None, Rip} # {},
                       a.disp + (IF a.base # Rip THEN 0 ELSE IF a.label THEN LabelAt ELSE end))
      asked == [k \in DOMAIN i.args |-> Asked(i.args[k])]
  IN
  [name |-> CASE i.name = "mov64" -> "mov" [] i.name = "imul3" -> "imul" [] OTHER -> i.name,
   args |-> IF i.name = "imul" /\ i.args[2].kind = "imm" THEN <<asked[1]>> \o asked ELSE asked]

\* test and xchg do not tell their operands apart; 90 does nothing at all,
\* which is right unless the upper half of a register is to be cleared.
Equivalent(x, y) ==
  \/ x = y
  \/ x.name = y.name /\ x.name \in {"test", "xchg"} /\ x.args = Reverse(y.args)
Nop(c) == Last(c).value = \h90 /\ ~Prefixed(c).b /\ Len(c) = Prefixed(c).at

\* The instruction that is encoded is, for the processor, the one that was
\* written: the operation, its size, every register, the address and the
\* value; no field is missing, too long or read as another.
Decodes ==
  insn # NoInsn /\ encoded \notin {NotEncoded, NoEncoding} =>
    LET wanted == AskedFor(insn, EndOf(encoded, Len(encoded)))
        decoded == Decode(encoded)
    IN
    /\ Cardinality(decoded) = 1
    /\ \A d \in decoded : Equivalent(d, wanted)
    /\ Nop(encoded) => insn.args[1].size # "d"
\* The reasons to refuse an instruction.
Distinct(args) == {SizeOf(a) : a \in ToSet(args)} \ {None}
Mems(i) == {a \in ToSet(i.args) : a.kind = "mem"}
Imms(i) == {a \in ToSet(i.args) : a.kind = "imm"}
HighWithRex(i) ==
  /\ \E a \in ToSet(i.args) : IsHigh(a)
  /\ \E a \in ToSet(i.args) :
       \/ a.kind = "reg" /\ (a.code > 7 \/ NeedsRex(a) \/ a.size = "q")
       \/ a.kind = "mem" /\ (Hi(a.base) \/ Hi(a.index))
WrongSizes(i) ==
  LET sizes == [k \in DOMAIN i.args |-> SizeOf(i.args[k])] IN
  CASE i.name \in {"mov", "add", "cmp", "test", "xchg"} -> Cardinality(Distinct(i.args)) # 1
    [] i.name \in {"imul", "imul3"} -> ~\E s \in Qdw : Distinct(i.args) = {s}
    [] i.name = "movzx" -> sizes \notin {<<"w", "b">>, <<"d", "b">>, <<"q", "b">>,
                                        <<"d", "w">>, <<"q", "w">>}
    [] i.name = "crc32" -> /\ sizes \notin {<<"d", "b">>, <<"d", "w">>, <<"q", "b">>}
                           /\ Distinct(i.args) \notin {{"d"}, {"q"}}
    [] i.name \in {"shl", "sar"} -> sizes[1] = None
    [] i.name = "push" -> i.args[1].kind # "imm" /\ sizes[1] \notin {"w", "q"}
    [] i.name = "lea" -> sizes[1] \notin {"d", "q"} \/ i.args[2].kind # "mem"
    [] i.name = "jmp" -> sizes[1] # "q"
    [] i.name \in {"vaddps", "vblendvps"} -> Cardinality(Distinct(i.args)) # 1
    [] i.name = "mov64" -> IF Mems(i) = {} THEN sizes[1] # "q"
                           ELSE Cardinality(Distinct(i.args)) # 1
    [] OTHER -> FALSE
ImmTooLarge(i) ==
  \E a \in Imms(i) :
    CASE i.name \in {"shl", "sar"} -> a.value \notin 0 .. 255
      [] i.name = "mov64" \/ (i.name = "mov" /\ i.args[1].kind = "reg" /\ i.args[1].size = "q") ->
           ~FitsEither(a.value, QuadBits)
      [] CommonSize(i.args) \in {"b", "w", "d"} ->
           ~FitsEither(a.value, SizeBits(CommonSize(i.args)))
      [] OTHER -> ~FitsIn(a.value, LongBits)
TooFar(i) ==
  /\ i.name # "mov64"
  /\ \E a \in Mems(i) : a.base = None /\ a.index = None /\
       ~FitsIn(IF a.disp >= 2^(QuadBits - 1) THEN a.disp - 2^QuadBits ELSE a.disp, LongBits)
NotAbsolute(i) ==
  /\ i.name = "mov64"
  /\ \E a \in Mems(i) : a.base # None \/ a.index # None \/ ToSet(i.args) \cap {Reg(s, 0) : s \in AnySize} = {}
LabelMisused(i) ==
  /\ Label \in ToSet(i.args)
  /\ i.name \notin {"jmp", "je", "mov64"}
  /\ ~(i.name = "mov" /\ i.args[1].kind = "reg" /\ i.args[1].size = "q")

\* An instruction is refused if and only if the processor has none for it:
\* sizes that differ or are unknown, a byte register that a prefix would make
\* another, an operand no memory form has, a value out of range.
RefusedRightly ==
  insn # NoInsn /\ encoded # NotEncoded =>
    (encoded = NoEncoding <=>
       \/ \E a \in Mems(insn) : BadMem(a)
       \/ HighWithRex(insn) \/ WrongSizes(insn) \/ ImmTooLarge(insn) \/ TooFar(insn)
       \/ NotAbsolute(insn) \/ LabelMisused(insn)
       \/ (insn.short /\ Label \notin ToSet(insn.args)))

\* encode gives the processor what was written, and refuses nothing it has.
EncodedRightly == Decodes /\ RefusedRightly
=============================================================================
