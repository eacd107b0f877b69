-------------------------------- MODULE X64 ---------------------------------
(***************************************************************************)
(* The x64 encoder: operands are classified, the first alternative of the   *)
(* mnemonic's template that fits is taken, and its pattern is written out   *)
(* with prefixes, ModRM, SIB, displacement and immediate (x64/mem.py and    *)
(* x64/encoder.py; the templates are some of x64/table.py).                 *)
(*                                                                          *)
(* An encoding is a sequence of fields; bytes are real, the 32 and 64 bit   *)
(* fields have LongBits and QuadBits.  The strings of a template are        *)
(* records: what its characters say, in the order they say it.              *)
(***************************************************************************)
EXTENDS Words, Sequences, SequencesExt, FiniteSetsExt

CONSTANTS
  LongBits, QuadBits,   \* 32, 64
  LabelAt,              \* the address of every label, the instruction being at 0
  None, Rip,
  NoInsn, NotEncoded,
  NoEncoding            \* EncodeError

ASSUME X64Assumption == 16 < LongBits /\ LongBits < QuadBits

VARIABLES
  insn,      \* what is encoded: a mnemonic, its operands, and if it is short
  encoded    \* the fields, NoEncoding, or NotEncoded

x64Vars == <<insn, encoded>>

Insn(name, args) == [name |-> name, args |-> args, short |-> FALSE]
Short(name, arg) == [name |-> name, args |-> <<arg>>, short |-> TRUE]

Reg(size, code) == [kind |-> "reg", size |-> size, code |-> code, high |-> FALSE]
HighReg(code) == [Reg("b", code) EXCEPT !.high = TRUE]
Imm(value) == [kind |-> "imm", value |-> value]
Label == [kind |-> "label"]
\* size is None for ptr[...], addr the width of the registers.
Mem(size, base, index, scale, disp, label, addr) ==
  [kind |-> "mem", size |-> size, base |-> base, index |-> index, scale |-> scale,
   disp |-> disp, label |-> label, addr |-> addr]

SizeBits(sz) == CASE sz = "b" -> 8 [] sz = "w" -> 16 [] sz = "d" -> LongBits [] OTHER -> QuadBits
FitsIn(v, b) == -(2^(b - 1)) <= v /\ v < 2^(b - 1)
FitsEither(v, b) == -(2^(b - 1)) <= v /\ v < 2^b

-----------------------------------------------------------------------------
(* Memory operands                                                          *)

\* rsp is no index; at scale 1 it can change places with the base.
\* Faulty: at every scale.
SwapAnyScale(m) ==
  IF m.index # 4 THEN m
  ELSE IF m.base = None THEN [m EXCEPT !.base = 4, !.index = None]
  ELSE IF m.base \in {4, Rip} THEN m
  ELSE [m EXCEPT !.base = 4, !.index = m.base]
Normal(m) ==
  IF m.index # 4 \/ m.scale # 1 THEN m
  ELSE IF m.base = None THEN [m EXCEPT !.base = 4, !.index = None]
  ELSE IF m.base \in {4, Rip} THEN m
  ELSE [m EXCEPT !.base = 4, !.index = m.base]

\* What MemExpr refuses.
BadMem(m) ==
  LET n == Normal(m) IN
  \/ n.index = 4
  \/ n.base = Rip /\ n.index # None
  \/ n.label /\ n.base # Rip
  \/ IF n.base = None /\ n.index = None THEN ~FitsEither(n.disp, QuadBits)
                                        ELSE ~FitsIn(n.disp, LongBits)

-----------------------------------------------------------------------------
(* Classification                                                           *)

SizeOf(a) == IF a.kind \in {"reg", "mem"} THEN a.size ELSE IF a.kind = "label" THEN "q" ELSE None

\* The patterns 0xffffff80 .. 0xffffffff are taken for negative bytes.
Wrapped(v) == IF 2^LongBits - 128 <= v /\ v < 2^LongBits THEN v - 2^LongBits ELSE v

Modes(a) ==
  CASE a.kind = "reg" ->
         {"r", "m"} \cup (IF a.code = 0 THEN {"R"} ELSE {})
                    \cup (IF a.size = "b" /\ a.code = 1 THEN {"C"} ELSE {})
    [] a.kind = "mem" -> {"x", "m"}
    [] a.kind = "label" -> {"i", "J"}
    [] a.kind = "imm" ->
         {"i"} \cup (IF Wrapped(a.value) = 1 THEN {"1"} ELSE {})
               \cup (IF FitsIn(Wrapped(a.value), 8) THEN {"S"} ELSE {})

IsHigh(a) == a.kind = "reg" /\ a.high
\* spl, bpl, sil and dil are the codes of ah to bh with a REX prefix.
\* Faulty: only registers past the eighth take one.
NeedsRexFromR8(a) == a.kind = "reg" /\ a.size = "b" /\ ~a.high /\ a.code >= 8
NeedsRex(a) == a.kind = "reg" /\ a.size = "b" /\ ~a.high /\ a.code >= 4

\* The size of the operands that have one, and if they differ.
Sized(args) == SelectSeq(args, LAMBDA a : SizeOf(a) # None)
CommonSize(args) == IF Sized(args) = <<>> THEN None ELSE SizeOf(Sized(args)[1])
\* Faulty: also of those without one.
MixedWithUnsized(args) == \E a \in ToSet(args) : SizeOf(a) # CommonSize(args)
Mixed(args) == \E i \in DOMAIN Sized(args) : SizeOf(Sized(args)[i]) # CommonSize(args)

-----------------------------------------------------------------------------
(* Templates: alternatives of operand modes, sizes and a pattern            *)

\* reg and rm are the operands in ModRM (digit stands for a missing reg),
\* plus the one whose number is added to the opcode, imms the characters of
\* the immediates; vex is None or the operand in vvvv, 0 for none.
Pattern(op, plus, reg, rm, digit, imms) ==
  [op |-> op, plus |-> plus, reg |-> reg, rm |-> rm, digit |-> digit, imms |-> imms,
   noMods |-> FALSE, vex |-> None]
Bare(op, imms) == Pattern(op, 0, 0, 0, 0, imms)
Plus(op, k, imms) == Pattern(op, k, 0, 0, 0, imms)
Ext(op, digit, imms) == Pattern(op, 0, 0, 1, digit, imms)
MR(op, imms) == Pattern(op, 0, 2, 1, 0, imms)
RM(op, imms) == Pattern(op, 0, 1, 2, 0, imms)
NoMods(p) == [p EXCEPT !.noMods = TRUE]
Vex(p, k) == [p EXCEPT !.vex = k]

\* prefix "" compares the common size, "." none, "/" each operand's, and
\* "1" takes the size of the first operand.
Alt(modes, prefix, sizes, pattern) ==
  [modes |-> modes, prefix |-> prefix, sizes |-> sizes, pattern |-> pattern]
AnySize == {"q", "d", "w", "b"}
Qdw == {"q", "d", "w"}

Arith(op, digit) ==
  << Alt(<<"m", "r">>, "", AnySize, MR(<<op + 1>>, <<>>)),
     Alt(<<"r", "m">>, "", AnySize, RM(<<op + 3>>, <<>>)),
     Alt(<<"m", "S">>, "1", Qdw, Ext(<<\h83>>, digit, <<"S">>)),
     Alt(<<"R", "i">>, "1", AnySize, Plus(<<op + 5>>, 1, <<"i">>)),
     Alt(<<"m", "i">>, "1", AnySize, Ext(<<\h81>>, digit, <<"i">>)) >>

Shift(digit) ==
  << Alt(<<"m", "1">>, "", AnySize, Ext(<<\hD1>>, digit, <<>>)),
     Alt(<<"m", "C">>, "1", AnySize, Ext(<<\hD3>>, digit, <<>>)),
     Alt(<<"m", "i">>, "", AnySize, Ext(<<\hC1>>, digit, <<"U">>)) >>

Jump(op) == Alt(<<"J">>, ".", {}, NoMods(Bare(op, <<"J">>)))

Template(name) ==
  CASE name = "mov" ->
    << Alt(<<"m", "r">>, "", AnySize, MR(<<\h89>>, <<>>)),
       Alt(<<"r", "m">>, "", AnySize, RM(<<\h8B>>, <<>>)),
       Alt(<<"r", "i">>, "", {"b"}, NoMods(Plus(<<\hB0>>, 1, <<"i">>))),
       Alt(<<"r", "i">>, "", {"d", "w"}, Plus(<<\hB8>>, 1, <<"i">>)),
       Alt(<<"m", "i">>, "", AnySize, Ext(<<\hC7>>, 0, <<"i">>)) >>
  [] name = "add" -> Arith(\h00, 0)
  [] name = "cmp" -> Arith(\h38, 7)
  [] name = "imul" ->
    << Alt(<<"r", "m">>, "", Qdw, RM(<<\h0F, \hAF>>, <<>>)),
       Alt(<<"r", "S">>, "", Qdw, Pattern(<<\h6B>>, 0, 1, 1, 0, <<"S">>)),
       Alt(<<"r", "i">>, "", Qdw, Pattern(<<\h69>>, 0, 1, 1, 0, <<"i">>)) >>
  [] name = "imul3" ->
    << Alt(<<"r", "m", "S">>, "", Qdw, RM(<<\h6B>>, <<"S">>)),
       Alt(<<"r", "m", "i">>, "", Qdw, RM(<<\h69>>, <<"i">>)) >>
  [] name = "test" ->
    << Alt(<<"m", "r">>, "", AnySize, MR(<<\h85>>, <<>>)),
       Alt(<<"r", "m">>, "", AnySize, RM(<<\h85>>, <<>>)),
       Alt(<<"R", "i">>, "", AnySize, Plus(<<\hA9>>, 1, <<"i">>)),
       Alt(<<"m", "i">>, "", AnySize, Ext(<<\hF7>>, 0, <<"i">>)) >>
  [] name = "xchg eax" ->
    << Alt(<<"r", "m">>, "", AnySize, RM(<<\h87>>, <<>>)) >>
  [] name = "xchg" ->
    << Alt(<<"R", "r">>, "", Qdw, Plus(<<\h90>>, 2, <<>>)),
       Alt(<<"r", "R">>, "", Qdw, Plus(<<\h90>>, 1, <<>>)),
       Alt(<<"r", "m">>, "", AnySize, RM(<<\h87>>, <<>>)),
       Alt(<<"m", "r">>, "", AnySize, MR(<<\h87>>, <<>>)) >>
  [] name = "push" ->
    << Alt(<<"r">>, "", {"q"}, NoMods(Plus(<<\h50>>, 1, <<>>))),
       Alt(<<"r">>, "", {"w"}, Plus(<<\h50>>, 1, <<>>)),
       Alt(<<"m">>, "", {"q"}, NoMods(Ext(<<\hFF>>, 6, <<>>))),
       Alt(<<"m">>, "", {"w"}, Ext(<<\hFF>>, 6, <<>>)),
       Alt(<<"S">>, ".", {}, Bare(<<\h6A>>, <<"S">>)),
       Alt(<<"i">>, ".", {}, Bare(<<\h68>>, <<"i">>)) >>
  [] name = "shl" -> Shift(4)
  [] name = "sar" -> Shift(7)
  [] name = "movzx" ->
    << Alt(<<"r", "m">>, "/", <<"d", "b">>, RM(<<\h0F, \hB6>>, <<>>)),
       Alt(<<"r", "m">>, "/", <<"q", "b">>, RM(<<\h0F, \hB6>>, <<>>)),
       Alt(<<"r", "m">>, "/", <<"w", "b">>, RM(<<\h0F, \hB6>>, <<>>)),
       Alt(<<"r", "m">>, "/", <<"d", "w">>, RM(<<\h0F, \hB7>>, <<>>)),
       Alt(<<"r", "m">>, "/", <<"q", "w">>, RM(<<\h0F, \hB7>>, <<>>)) >>
  [] name = "crc32" ->
    << Alt(<<"r", "m">>, "", {"q", "d"}, RM(<<\hF2, \h0F, \h38, \hF1>>, <<>>)),
       Alt(<<"r", "m">>, "/", <<"d", "w">>, RM(<<\h66, \hF2, \h0F, \h38, \hF1>>, <<>>)),
       Alt(<<"r", "m">>, "/", <<"d", "b">>, RM(<<\hF2, \h0F, \h38, \hF0>>, <<>>)),
       Alt(<<"r", "m">>, "/", <<"q", "b">>, RM(<<\hF2, \h0F, \h38, \hF0>>, <<>>)) >>
  [] name = "lea" -> << Alt(<<"r", "x">>, "1", {"d", "q"}, RM(<<\h8D>>, <<>>)) >>
  [] name = "jmp" ->
    << Alt(<<"m">>, "", {"q"}, NoMods(Ext(<<\hFF>>, 4, <<>>))), Jump(<<\hE9>>) >>
  [] name = "je" -> << Jump(<<\h0F, \h84>>) >>
  [] name = "vaddps" ->
    << Alt(<<"r", "r", "m">>, "", {"o", "y"}, Vex(RM(<<\h0F, \h58>>, <<>>), 2)) >>
  [] name = "vblendvps" ->
    << Alt(<<"r", "r", "m", "r">>, "", {"o", "y"},
           Vex(RM(<<\h66, \h0F, \h3A, \h4A>>, <<"s">>), 2)) >>

\* An alternative with the prefix also ends the check for mixed sizes in the
\* alternatives after it, if its modes fit.
ModesFit(alt, args) == \A i \in DOMAIN args : alt.modes[i] \in Modes(args[i])
Fits(alts, k, args) ==
  LET alt == alts[k]
      mixed == Mixed(args) /\ ~\E j \in 1 .. k : alts[j].prefix = "1" /\ ModesFit(alts[j], args)
      sz == IF alt.prefix = "1" THEN SizeOf(args[1]) ELSE CommonSize(args)
  IN
  /\ ModesFit(alt, args)
  /\ IF alt.prefix = "/" THEN \A i \in DOMAIN args : SizeOf(args[i]) = alt.sizes[i]
                         ELSE ~mixed /\ (alt.prefix = "." \/ sz \in alt.sizes)

\* The first alternative that fits, 0 for none.
Chosen(alts, args) ==
  LET fitting == {k \in DOMAIN alts : Fits(alts, k, args)}
  IN  IF fitting = {} THEN 0 ELSE Min(fitting)

-----------------------------------------------------------------------------
(* Fields                                                                   *)

\* fix tells what link adds: "branch" and "rip" the distance to the label
\* from the end of the field, "abs" its address.
Field(bits, value) == [bits |-> bits, value |-> Low(value, bits), fix |-> "none"]
Fixup(bits, fix, addend) == [bits |-> bits, value |-> addend, fix |-> fix]
Byte(b) == Field(8, b)
Bytes(s) == [i \in DOMAIN s |-> Byte(s[i])]
When(condition, s) == IF condition THEN s ELSE <<>>

Width(bits) == CASE bits = 8 -> 1 [] bits = 16 -> 2 [] bits = LongBits -> 4 [] OTHER -> 8
\* Where field i of s ends, the instruction being at 0.
EndOf(s, i) == FoldLeft(LAMBDA n, f : n + Width(f.bits), 0, SubSeq(s, 1, i))

ModRM(mod, reg, rm) == Byte(mod * 64 + (reg % 8) * 8 + (rm % 8))

\* With rbp and r13 as base, mod 0 is not [base].
\* Faulty: only with rbp.
ModOfRbpOnly(m) ==
  IF m.disp = 0 /\ m.base # 5 THEN 0 ELSE IF FitsIn(m.disp, 8) THEN 1 ELSE 2
ModOf(m) ==
  IF m.disp = 0 /\ m.base % 8 # 5 THEN 0 ELSE IF FitsIn(m.disp, 8) THEN 1 ELSE 2

\* With rsp and r12 as base the SIB byte is needed.
\* Faulty: only for an index.
SibForIndexOnly(m) == m.index # None
NeedsSib(m) == m.index # None \/ m.base % 8 = 4

Shift2(scale) == CHOOSE n \in 0 .. 3 : 2^n = scale
SibIndex(m) == IF m.index = None THEN 4 ELSE m.index
SibScale(m) == IF m.index = None THEN 0 ELSE Shift2(m.scale)

WriteMem(m, s) ==
  IF m.base = Rip THEN
    << ModRM(0, s, 5),
       IF m.label THEN Fixup(LongBits, "rip", m.disp) ELSE Field(LongBits, m.disp) >>
  ELSE IF m.base = None THEN
    LET disp == IF m.disp >= 2^(QuadBits - 1) THEN m.disp - 2^QuadBits ELSE m.disp
    IN  << ModRM(0, s, 4), ModRM(SibScale(m), SibIndex(m), 5),
           IF FitsIn(disp, LongBits) THEN Field(LongBits, disp) ELSE NoEncoding >>
  ELSE
    LET mod == ModOf(m) IN
    (IF NeedsSib(m) THEN <<ModRM(mod, s, 4), ModRM(SibScale(m), SibIndex(m), m.base)>>
                    ELSE <<ModRM(mod, s, m.base)>>)
    \o When(mod = 1, <<Field(8, m.disp)>>) \o When(mod = 2, <<Field(LongBits, m.disp)>>)

WriteModRM(a, s) == IF a.kind = "reg" THEN <<ModRM(3, s, a.code)>> ELSE WriteMem(a, s)

\* An immediate as given must fit the operand size; its pattern then is
\* written as a signed byte, an unsigned one, or in the operand size.
\* Faulty: only the pattern must fit.
PatternInRange(sz, v) ==
  LET w == Wrapped(v) IN IF sz \in {"b", "w", "d"} THEN FitsEither(w, SizeBits(sz)) ELSE FitsIn(w, LongBits)
InRange(sz, v) ==
  IF sz \in {"b", "w", "d"} THEN FitsEither(v, SizeBits(sz)) ELSE FitsIn(v, LongBits)

WriteImm(c, a, sz) ==
  LET v == Wrapped(a.value) IN
  IF a.kind = "label" \/ ~InRange(sz, a.value) THEN NoEncoding
  ELSE IF c = "S" THEN (IF FitsIn(v, 8) THEN Field(8, v) ELSE NoEncoding)
  ELSE IF c = "U" THEN (IF v \in 0 .. 255 THEN Field(8, v) ELSE NoEncoding)
  ELSE IF sz = "w" THEN (IF FitsEither(v, 16) THEN Field(16, v) ELSE NoEncoding)
  ELSE IF sz = "b" THEN (IF FitsEither(v, 8) THEN Field(8, v) ELSE NoEncoding)
  ELSE Field(LongBits, v)

-----------------------------------------------------------------------------
(* Prefixes and opcode (putop)                                              *)

\* A REX prefix comes right before the opcode with its escape bytes, which
\* a mandatory prefix precedes.
\* Faulty: in front of everything.
RexFirst(op) == 1
RexPlace(op) ==
  LET n == Len(op) IN
  IF n >= 3 /\ op[n - 2] = \h0F /\ op[n - 1] \in {\h38, \h3A} THEN n - 2
  ELSE IF n >= 2 /\ op[n - 1] = \h0F THEN n - 1 ELSE n

Hi(code) == code # None /\ code # Rip /\ code > 7
RexB(p, args) ==
  \/ p.plus > 0 /\ Hi(args[p.plus].code)
  \/ p.rm > 0 /\ LET a == args[p.rm] IN IF a.kind = "reg" THEN Hi(a.code) ELSE Hi(a.base)
RexX(p, args) == p.rm > 0 /\ args[p.rm].kind = "mem" /\ Hi(args[p.rm].index)
RexR(p, args) == p.reg > 0 /\ Hi(args[p.reg].code)
Flag(condition, n) == IF condition THEN n ELSE 0

WriteVex(op, w, r, x, b, v, long) ==
  LET n == Len(op)
      map == CASE op[n - 1] = \h38 -> 2 [] op[n - 1] = \h3A -> 3 [] OTHER -> 1
      pp == CASE op[1] = \h66 -> 1 [] op[1] = \hF3 -> 2 [] op[1] = \hF2 -> 3 [] OTHER -> 0
      tail == (15 - v) * 8 + Flag(long, 4) + pp
  IN
  (IF map = 1 /\ ~w /\ ~x /\ ~b THEN <<Byte(\hC5), Byte(Flag(~r, 128) + tail)>>
   ELSE << Byte(\hC4), Byte(Flag(~r, 128) + Flag(~x, 64) + Flag(~b, 32) + map),
           Byte(Flag(w, 128) + tail) >>)
  \o <<Byte(op[n])>>

WriteOp(op, sz, w, r, x, b, forced, high) ==
  LET rex == 64 + Flag(w, 8) + Flag(r, 4) + Flag(x, 2) + Flag(b, 1)
      k == RexPlace(op)
  IN
  When(sz = "w", <<Byte(\h66)>>) \o Bytes(SubSeq(op, 1, k - 1))
  \o When(forced \/ rex > 64, IF high THEN <<NoEncoding>> ELSE <<Byte(rex)>>)
  \o Bytes(SubSeq(op, k, Len(op)))

\* The pattern for the operand size sz (dopattern).
WritePattern(p, sz, args) ==
  LET rest == IF p.vex \in {None, 0} THEN args ELSE RemoveAt(args, p.vex)
      szov == IF p.noMods THEN None ELSE sz
      w == szov = "q"
      r == RexR(p, rest)
      x == RexX(p, rest)
      b == RexB(p, rest)
      n == Len(p.op)
      last == p.op[n] + (IF p.plus > 0 THEN rest[p.plus].code % 8 ELSE 0) - Flag(szov = "b", 1)
      op == [p.op EXCEPT ![n] = last]
      s == IF p.reg > 0 THEN rest[p.reg].code ELSE p.digit
      used == Max({p.plus, p.reg, p.rm})
      forced == \E i \in DOMAIN args : NeedsRex(args[i])
      high == \E i \in DOMAIN args : IsHigh(args[i])
      Immediate(i) ==
        LET a == rest[used + i] c == p.imms[i] IN
        IF c = "J" THEN Fixup(LongBits, "branch", 0)
        ELSE IF c = "s" THEN Byte(a.code * 16)
        ELSE WriteImm(c, a, sz)
  IN
  (IF p.vex = None THEN WriteOp(op, szov, w, r, x, b, forced, high)
   ELSE WriteVex(op, w, r, x, b, IF p.vex = 0 THEN 0 ELSE args[p.vex].code, sz = "y"))
  \o When(p.rm > 0, IF p.rm > 0 THEN WriteModRM(rest[p.rm], s) ELSE <<>>)
  \o [i \in DOMAIN p.imms |-> Immediate(i)]

Addr32(args) ==
  \E i \in DOMAIN args : /\ args[i].kind = "mem" /\ args[i].addr = 4
                         /\ {args[i].base, args[i].index} \ {None, Rip} # {}

\* xchg eax, eax is not the nop it would be in the short form.
\* Faulty: it is.
TemplateByName(name, args) == name
TemplateOf(name, args) ==
  IF name = "xchg" /\ \A i \in DOMAIN args : args[i] = Reg("d", 0) THEN "xchg eax" ELSE name

\* jmp and jcc to a label, in the short form if asked for.
Shorten(s) ==
  LET n == Len(s) - 1 IN
  IF n = 1 /\ s[1].value = \hE9 THEN <<Byte(\hEB), Fixup(8, "branch", 0)>>
  ELSE IF n = 2 /\ s[1].value = \h0F THEN <<Byte(s[2].value - \h10), Fixup(8, "branch", 0)>>
  ELSE <<NoEncoding>>

EncodeTemplate(name, args, short) ==
  LET alts == Template(TemplateOf(name, args))
      k == Chosen(alts, args)
      alt == alts[k]
      sz == IF alt.prefix = "1" THEN SizeOf(args[1]) ELSE CommonSize(args)
      s == When(Addr32(args), <<Byte(\h67)>>) \o WritePattern(alt.pattern, sz, args)
      mix == /\ \E i \in DOMAIN args : NeedsRex(args[i])
             /\ \E i \in DOMAIN args : IsHigh(args[i])
  IN
  IF mix \/ k = 0 THEN <<NoEncoding>>
  ELSE IF ~short THEN s
  ELSE IF "J" \in ToSet(alt.pattern.imms) THEN Shorten(s)
  ELSE <<NoEncoding>>

-----------------------------------------------------------------------------
(* mov64: 64 bit immediates, and absolute addresses with the accumulator    *)

IsMov64Imm(args) ==
  /\ args[1].kind = "reg" /\ args[1].size = "q"
  /\ \/ args[2].kind = "label"
     \/ args[2].kind = "imm" /\ ~FitsIn(args[2].value, LongBits)

Mov64Moffs(mem, reg, opcode) ==
  IF \/ reg.kind # "reg" \/ reg.code # 0 \/ reg.size \notin AnySize
     \/ mem.base # None \/ mem.index # None
     \/ mem.size # None /\ mem.size # reg.size
  THEN <<NoEncoding>>
  ELSE WriteOp(<<opcode - Flag(reg.size = "b", 1)>>, reg.size, reg.size = "q", FALSE, FALSE, FALSE, FALSE, FALSE)
       \o <<Field(QuadBits, mem.disp)>>

Mov64(args) ==
  LET dst == args[1]
      src == args[2]
  IN
  IF dst.kind = "mem" THEN Mov64Moffs(dst, src, \hA3)
  ELSE IF src.kind = "mem" THEN Mov64Moffs(src, dst, \hA1)
  ELSE IF dst.kind # "reg" \/ dst.size # "q" THEN <<NoEncoding>>
  ELSE WriteOp(<<\hB8 + (dst.code % 8)>>, None, TRUE, FALSE, FALSE, dst.code > 7, FALSE, FALSE)
       \o << IF src.kind = "label" THEN Fixup(QuadBits, "abs", 0)
             ELSE IF src.kind = "imm" /\ FitsEither(src.value, QuadBits)
             THEN Field(QuadBits, src.value) ELSE NoEncoding >>

-----------------------------------------------------------------------------
\* rip is the end of the instruction, not of the field (flush); the fields
\* are then patched as link does.
\* Faulty: the end of the field.
AddendOfField(s, i) == s[i].value
AddendOf(s, i) ==
  IF s[i].fix = "rip" THEN s[i].value - (EndOf(s, Len(s)) - EndOf(s, i)) ELSE s[i].value

Patched(s) ==
  [i \in DOMAIN s |->
     IF s[i].fix = "none" THEN s[i]
     ELSE Field(s[i].bits, LabelAt + AddendOf(s, i) - Flag(s[i].fix # "abs", EndOf(s, i)))]

Encoding(i) ==
  LET args == [k \in DOMAIN i.args |-> IF i.args[k].kind = "mem" THEN Normal(i.args[k]) ELSE i.args[k]]
      mov64 == i.name = "mov64" \/ (i.name = "mov" /\ IsMov64Imm(args))
      s == IF mov64 THEN Mov64(args) ELSE EncodeTemplate(i.name, args, i.short)
  IN
  IF \/ \E k \in DOMAIN i.args : i.args[k].kind = "mem" /\ BadMem(i.args[k])
     \/ NoEncoding \in ToSet(s)
     \/ mov64 /\ i.short
  THEN NoEncoding ELSE Patched(s)

\* insn is any instruction the instance chooses.
X64Init == encoded = NotEncoded

EncodeInsn ==
  /\ insn # NoInsn /\ encoded = NotEncoded
  /\ encoded' = Encoding(insn)
  /\ UNCHANGED insn
=============================================================================
