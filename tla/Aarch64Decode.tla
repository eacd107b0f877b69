--------------------------- MODULE Aarch64Decode ----------------------------
(***************************************************************************)
(* How an aarch64 processor reads the words of module Aarch64: the classes   *)
(* of the architecture's encoding index, and what the assembler's mnemonics  *)
(* stand for.  A register is read as w, x or sp by its class; 31 is sp only   *)
(* where the architecture says so.                                          *)
(***************************************************************************)
EXTENDS Aarch64

-----------------------------------------------------------------------------
(* Fields                                                                   *)

Class(w) == IF 31 \in w THEN "x" ELSE "w"
GpAt(w, s, class) == Reg(class, Get(w, s, 5))
\* There is no operand that is written as the stack pointer of 32 bits.
SpAt(w, s, class) ==
  IF Get(w, s, 5) # 31 THEN GpAt(w, s, class) ELSE IF class = "x" THEN Sp ELSE Reg("wsp", 31)
FpClass(w) == CASE Get(w, 22, 2) = 0 -> "s" [] Get(w, 22, 2) = 1 -> "d" [] OTHER -> "none"
FpAt(w, s) == Reg(FpClass(w), Get(w, s, 5))
Words(w, s, n) == Num(SGet(w, s, n) * 4)

CondName(n) ==
  <<"eq", "ne", "cs", "cc", "mi", "pl", "vs", "vc", "hi", "ls", "ge", "lt", "gt", "le", "al",
    "nv">>[n + 1]
CondAt(w) == Text(CondName(Get(w, 12, 4)))
Mask(bits) == [kind |-> "mask", bits |-> bits]
ShiftName(n) == <<"lsl", "lsr", "asr", "ror">>[n + 1]
ExtendName(n) == <<"uxtb", "uxth", "uxtw", "uxtx", "sxtb", "sxth", "sxtw", "sxtx">>[n + 1]
FloatOf(imm8) ==
  LET e == Get(imm8, 4, 3)
      size == (16 + Get(imm8, 0, 4)) * 2^(5 + (IF e >= 4 THEN e - 8 ELSE e))
  IN  Real(IF 7 \in imm8 THEN -size ELSE size)

Undefined == Inst("undefined", <<>>)
Pick(names, n) == IF n + 1 \in DOMAIN names THEN names[n + 1] ELSE ""

-----------------------------------------------------------------------------
(* Data processing                                                          *)

\* The element is of the highest one in N:NOT(imms), S + 1 ones turned by R.
MaskAt(w) ==
  LET n == Get(w, 22, 1)  imms == Get(w, 10, 6)
      key == (n * 64) + (63 - imms)
      e == Max({s \in {1, 2, 4, 8, 16, 32, 64} : s <= key})
  IN  Mask({i \in 0 .. 63 : ((i + Get(w, 16, 6)) % e) <= imms % e})

Immediate(w) ==
  LET c == Class(w)  class == Get(w, 23, 3)  opc == Get(w, 29, 2)  rd == GpAt(w, 0, c)
      rn == GpAt(w, 5, c)
  IN
  CASE class \in {0, 1} ->
         LET n == SGet(w, 5, 19) * 4 + Get(w, 29, 2)
         IN  Inst(IF 31 \in w THEN "adrp" ELSE "adr", <<GpAt(w, 0, "x"), Num(n)>>)
    [] class = 2 ->
         Inst(<<"add", "adds", "sub", "subs">>[opc + 1],
              <<IF 29 \in w THEN rd ELSE SpAt(w, 0, c), SpAt(w, 5, c),
                Num(Get(w, 10, 12) * (IF 22 \in w THEN 4096 ELSE 1))>>)
    [] class = 4 ->
         IF c = "w" /\ 22 \in w THEN Undefined
         ELSE Inst(<<"and", "orr", "eor", "ands">>[opc + 1],
                   <<IF opc = 3 THEN rd ELSE SpAt(w, 0, c), rn, MaskAt(w)>>)
    [] class = 5 ->
         IF opc = 1 \/ (c = "w" /\ 22 \in w) THEN Undefined
         ELSE Inst(<<"movn", "", "movz", "movk">>[opc + 1],
                   <<rd, Num(Get(w, 5, 16)), Mod("lsl", Get(w, 21, 2) * 16)>>)
    [] class = 6 ->
         IF opc = 3 \/ (22 \in w) # (c = "x") \/ (c = "w" /\ {15, 21} \cap w # {}) THEN Undefined
         ELSE Inst(<<"sbfm", "bfm", "ubfm">>[opc + 1],
                   <<rd, rn, Num(Get(w, 16, 6)), Num(Get(w, 10, 6))>>)
    [] class = 7 ->
         IF opc # 0 \/ 21 \in w \/ (22 \in w) # (c = "x") \/ (c = "w" /\ 15 \in w) THEN Undefined
         ELSE Inst("extr", <<rd, rn, GpAt(w, 16, c), Num(Get(w, 10, 6))>>)
    [] OTHER -> Undefined

Extended(w) ==
  LET c == Class(w)  opt == Get(w, 13, 3) IN
  IF {22, 23} \cap w # {} \/ Get(w, 10, 3) > 4 THEN Undefined
  ELSE Inst(<<"add", "adds", "sub", "subs">>[Get(w, 29, 2) + 1],
            <<IF 29 \in w THEN GpAt(w, 0, c) ELSE SpAt(w, 0, c), SpAt(w, 5, c),
              GpAt(w, 16, IF opt % 4 = 3 THEN c ELSE "w"), Mod(ExtendName(opt), Get(w, 10, 3))>>)
Shifted(w, names) ==
  LET c == Class(w) IN
  IF c = "w" /\ 15 \in w THEN Undefined
  ELSE Inst(names[Get(w, 29, 2) + 1],
            <<GpAt(w, 0, c), GpAt(w, 5, c), GpAt(w, 16, c),
              Mod(ShiftName(Get(w, 22, 2)), Get(w, 10, 6))>>)

OneSource(w) ==
  LET c == Class(w)
      name == CASE Get(w, 10, 6) = 2 -> IF c = "x" THEN "rev32" ELSE "rev"
                [] Get(w, 10, 6) = 3 -> IF c = "x" THEN "rev" ELSE ""
                [] OTHER -> Pick(<<"rbit", "rev16", "", "", "clz", "cls">>, Get(w, 10, 6))
  IN  IF Get(w, 16, 5) # 0 \/ 29 \in w THEN Undefined ELSE Inst(name, <<GpAt(w, 0, c), GpAt(w, 5, c)>>)
TwoSource(w) ==
  LET c == Class(w) IN
  IF 29 \in w THEN Undefined
  ELSE Inst(Pick(<<"", "", "udiv", "sdiv", "", "", "", "", "lslv", "lsrv", "asrv", "rorv">>,
                 Get(w, 10, 6)), <<GpAt(w, 0, c), GpAt(w, 5, c), GpAt(w, 16, c)>>)
ThreeSource(w) ==
  LET c == Class(w)  op31 == Get(w, 21, 3)
      add(names) == names[Get(w, 15, 1) + 1]
      rd(class) == GpAt(w, 0, class)
  IN
  CASE Get(w, 29, 2) # 0 -> Undefined
    [] op31 = 0 -> Inst(add(<<"madd", "msub">>), <<rd(c), GpAt(w, 5, c), GpAt(w, 16, c), GpAt(w, 10, c)>>)
    [] op31 \in {1, 5} /\ c = "x" ->
         Inst(add(IF op31 = 1 THEN <<"smaddl", "smsubl">> ELSE <<"umaddl", "umsubl">>),
              <<rd("x"), GpAt(w, 5, "w"), GpAt(w, 16, "w"), GpAt(w, 10, "x")>>)
    [] op31 \in {2, 6} /\ c = "x" /\ 15 \notin w /\ Get(w, 10, 5) = 31 ->
         Inst(IF op31 = 2 THEN "smulh" ELSE "umulh", <<rd("x"), GpAt(w, 5, "x"), GpAt(w, 16, "x")>>)
    [] OTHER -> Undefined
OnCondition(w) ==
  LET c == Class(w) IN
  IF Get(w, 21, 3) = 2
  THEN IF 29 \notin w \/ {4, 10} \cap w # {} THEN Undefined
       ELSE Inst(IF 30 \in w THEN "ccmp" ELSE "ccmn",
                 <<GpAt(w, 5, c), IF 11 \in w THEN Num(Get(w, 16, 5)) ELSE GpAt(w, 16, c),
                   Num(Get(w, 0, 4)), CondAt(w)>>)
  ELSE IF {11, 29} \cap w # {} THEN Undefined
  ELSE Inst(<<"csel", "csinc", "csinv", "csneg">>[Get(w, 30, 1) * 2 + Get(w, 10, 1) + 1],
            <<GpAt(w, 0, c), GpAt(w, 5, c), GpAt(w, 16, c), CondAt(w)>>)

Registers(w) ==
  LET c == Class(w) IN
  CASE Get(w, 24, 5) = \h0a ->
         Shifted(w, IF 21 \in w THEN <<"bic", "orn", "eon", "bics">> ELSE <<"and", "orr", "eor", "ands">>)
    [] Get(w, 24, 5) = \h0b /\ 21 \notin w ->
         IF Get(w, 22, 2) = 3 THEN Undefined ELSE Shifted(w, <<"add", "adds", "sub", "subs">>)
    [] Get(w, 24, 5) = \h0b -> Extended(w)
    [] Get(w, 24, 5) = \h1b -> ThreeSource(w)
    [] Get(w, 21, 8) = \hd0 /\ Get(w, 10, 6) = 0 ->
         Inst(<<"adc", "adcs", "sbc", "sbcs">>[Get(w, 29, 2) + 1],
              <<GpAt(w, 0, c), GpAt(w, 5, c), GpAt(w, 16, c)>>)
    [] Get(w, 21, 8) \in {\hd2, \hd4} -> OnCondition(w)
    [] Get(w, 21, 8) = \hd6 -> IF 30 \in w THEN OneSource(w) ELSE TwoSource(w)
    [] OTHER -> Undefined

-----------------------------------------------------------------------------
(* Branches, system, loads and stores                                       *)

Jumps(w) ==
  LET keyed == Get(w, 10, 6) \in {2, 3}  key == IF 10 \in w THEN "b" ELSE "a"
      plain == Get(w, 10, 6) = 0 /\ Get(w, 0, 5) = 0
      name == Pick(<<"br", "blr", "ret">>, Get(w, 21, 4))
      rn == GpAt(w, 5, "x")
  IN
  CASE plain -> Inst(name, <<rn>>)
    [] keyed /\ Get(w, 21, 4) = 8 -> Inst("bra" \o key, <<rn, SpAt(w, 0, "x")>>)
    [] keyed /\ Get(w, 0, 5) = 31 /\ Get(w, 21, 4) \in {0, 1} -> Inst(name \o "a" \o key \o "z", <<rn>>)
    [] keyed /\ Get(w, 0, 10) = 1023 /\ Get(w, 21, 4) = 2 -> Inst("reta" \o key, <<>>)
    [] OTHER -> Undefined
Branching(w) ==
  CASE Get(w, 26, 5) = 5 ->
         Inst(IF 31 \in w THEN "bl" ELSE "b",
              <<Num(Sext(Get(w, 0, 26), 26) * 4)>>)
    [] Get(w, 25, 6) = \h1a ->
         Inst(IF 24 \in w THEN "cbnz" ELSE "cbz", <<GpAt(w, 0, Class(w)), Words(w, 5, 19)>>)
    [] Get(w, 25, 6) = \h1b ->
         LET n == Get(w, 19, 5) + (IF 31 \in w THEN 32 ELSE 0)
         IN  Inst(IF 24 \in w THEN "tbnz" ELSE "tbz", <<GpAt(w, 0, Class(w)), Num(n), Words(w, 5, 14)>>)
    [] Get(w, 24, 8) = \h54 /\ 4 \notin w ->
         Inst("b.", <<Text(CondName(Get(w, 0, 4))), Words(w, 5, 19)>>)
    [] Get(w, 21, 11) = \h6a1 /\ Get(w, 0, 5) = 0 -> Inst("brk", <<Num(Get(w, 5, 16))>>)
    [] Get(w, 12, 20) = \hd5032 /\ Get(w, 0, 5) = 31 -> Inst("hint", <<Num(Get(w, 5, 7))>>)
    [] Get(w, 25, 7) = \h6b /\ Get(w, 16, 5) = 31 -> Jumps(w)
    [] OTHER -> Undefined

\* By size, kind of register and opc: a mnemonic and the class of register.
Access(w) ==
  LET size == Get(w, 30, 2)  opc == Get(w, 22, 2) IN
  IF 26 \in w
  THEN IF size < 2 \/ opc > 1 THEN <<"", "">>
       ELSE <<IF opc = 0 THEN "str" ELSE "ldr", IF size = 2 THEN "s" ELSE "d">>
  ELSE CASE opc < 2 -> <<(IF opc = 0 THEN "str" ELSE "ldr") \o Pick(<<"b", "h">>, size),
                         IF size = 3 THEN "x" ELSE "w">>
         [] size < 2 -> <<"ldrs" \o <<"b", "h">>[size + 1], IF opc = 2 THEN "x" ELSE "w">>
         [] size = 2 /\ opc = 2 -> <<"ldrsw", "x">>
         [] OTHER -> <<"", "">>
Located(base, index, mod, disp, mode) == MemExpr(base, index, mod, disp, mode, 0, 0)
Single(w) ==
  LET a == Access(w)  scale == Get(w, 30, 2)  base == SpAt(w, 5, "x")  opt == Get(w, 13, 3)
      inst(m) == Inst(a[1], <<Reg(a[2], Get(w, 0, 5)), m>>)
      signed9(mode) == inst(Located(base, Missing, Missing, SGet(w, 12, 9), mode))
      index == GpAt(w, 16, IF opt % 4 = 3 THEN "x" ELSE "w")
      amount == IF 12 \in w THEN scale ELSE 0
      kind == Pick(<<"", "", "uxtw", "lsl", "", "", "sxtw", "sxtx">>, opt)
  IN
  CASE 24 \in w ->
         inst(Located(base, Missing, Missing, Get(w, 10, 12) * 2^scale, "offset"))
    [] 21 \notin w -> LET modes == <<"offset", "post", "", "pre">>
                      IN  signed9(modes[Get(w, 10, 2) + 1])
    [] Get(w, 10, 2) = 2 -> inst(Located(base, index, Mod(kind, amount), 0, "offset"))
    [] OTHER -> Undefined
Pairs(w) ==
  LET opc == Get(w, 30, 2)  fp == 26 \in w
      class == IF fp THEN Pick(<<"s", "d", "q">>, opc) ELSE <<"w", "x", "x", "">>[opc + 1]
      scale == IF fp THEN 2 + opc ELSE 2 + (opc \div 2)
      name == IF 22 \notin w THEN IF opc = 1 /\ ~fp THEN "" ELSE "stp"
              ELSE IF opc = 1 /\ ~fp THEN "ldpsw" ELSE "ldp"
      mode == <<"", "post", "offset", "pre">>[Get(w, 23, 2) + 1]
      m == Located(SpAt(w, 5, "x"), Missing, Missing, SGet(w, 15, 7) * 2^scale, mode)
  IN  Inst(name, <<Reg(class, Get(w, 0, 5)), Reg(class, Get(w, 10, 5)), m>>)
LoadStore(w) ==
  CASE Get(w, 27, 3) = 3 /\ {24, 25} \cap w = {} ->
         LET classes == IF 26 \in w THEN <<"s", "d">> ELSE <<"w", "x", "x">>
             opc == Get(w, 30, 2)
         IN  Inst(IF opc = 2 THEN "ldrsw" ELSE "ldr", <<Reg(classes[opc + 1], Get(w, 0, 5)), Words(w, 5, 19)>>)
    [] Get(w, 27, 3) = 5 /\ 25 \notin w -> Pairs(w)
    [] Get(w, 27, 3) = 7 /\ 25 \notin w -> Single(w)
    [] OTHER -> Undefined

-----------------------------------------------------------------------------
(* Floating point                                                           *)

Conversion(w) ==
  LET gp == GpAt(w, 5, Class(w))  toGp == GpAt(w, 0, Class(w))  op == Get(w, 16, 3)
      rounding == <<"n", "p", "m", "z">>[Get(w, 19, 2) + 1]
      u == IF 16 \in w THEN "u" ELSE "s"
      sameSize == (31 \in w) = (22 \in w)
  IN
  CASE op \in {0, 1} -> Inst("fcvt" \o rounding \o u, <<toGp, FpAt(w, 5)>>)
    [] op \in {2, 3} /\ rounding = "n" ->
         Inst((IF op = 2 THEN "s" ELSE "u") \o "cvtf", <<FpAt(w, 0), gp>>)
    [] op \in {4, 5} /\ rounding = "n" -> Inst("fcvta" \o u, <<toGp, FpAt(w, 5)>>)
    [] op = 6 /\ rounding = "n" /\ sameSize -> Inst("fmov", <<toGp, FpAt(w, 5)>>)
    [] op = 7 /\ rounding = "n" /\ sameSize -> Inst("fmov", <<FpAt(w, 0), gp>>)
    [] OTHER -> Undefined
FloatOne(w) ==
  LET op == Get(w, 15, 6)  to == IF op = 4 THEN "s" ELSE "d" IN
  IF op \in {4, 5} /\ FpClass(w) # to THEN Inst("fcvt", <<Reg(to, Get(w, 0, 5)), FpAt(w, 5)>>)
  ELSE Inst(Pick(<<"fmov", "fabs", "fneg", "fsqrt", "", "", "", "", "frintn", "frintp", "frintm",
                   "frintz", "frinta", "", "frintx", "frinti">>, op), <<FpAt(w, 0), FpAt(w, 5)>>)
FloatPoint(w) ==
  LET d == FpAt(w, 0)  n == FpAt(w, 5)  m == FpAt(w, 16)
      low == Get(w, 10, 2)
      e == IF 4 \in w THEN "e" ELSE ""
  IN
  CASE FpClass(w) = "none" \/ {29, 30} \cap w # {} -> Undefined
    [] 24 \in w -> Inst(<<"fmadd", "fmsub", "fnmadd", "fnmsub">>[Get(w, 21, 1) * 2 + Get(w, 15, 1) + 1],
                        <<d, n, m, FpAt(w, 10)>>)
    [] 21 \notin w -> Undefined
    [] Get(w, 10, 6) = 0 -> Conversion(w)
    [] 31 \in w -> Undefined
    [] Get(w, 10, 5) = 16 -> FloatOne(w)
    [] Get(w, 10, 6) = 8 /\ Get(w, 0, 3) = 0 ->
         Inst("fcmp" \o e, <<n, IF 3 \in w THEN Real(0) ELSE m>>)
    [] Get(w, 10, 3) = 4 /\ Get(w, 5, 5) = 0 -> Inst("fmov", <<d, FloatOf({b - 13 : b \in w \cap (13 .. 20)})>>)
    [] low = 1 -> Inst("fccmp" \o e, <<n, m, Num(Get(w, 0, 4)), CondAt(w)>>)
    [] low = 2 -> Inst(Pick(<<"fmul", "fdiv", "fadd", "fsub", "fmax", "fmin", "fmaxnm", "fminnm",
                              "fnmul">>, Get(w, 12, 4)), <<d, n, m>>)
    [] low = 3 -> Inst("fcsel", <<d, n, m, CondAt(w)>>)
    [] OTHER -> Undefined

A64Reads(w) ==
  LET op0 == Get(w, 25, 4) IN
  CASE op0 \in {8, 9} -> Immediate(w)
    [] op0 \in {10, 11} -> Branching(w)
    [] op0 \in {4, 6, 12, 14} -> LoadStore(w)
    [] op0 \in {5, 13} -> Registers(w)
    [] op0 = 15 -> FloatPoint(w)
    [] OTHER -> Undefined

-----------------------------------------------------------------------------
(* What the assembler's mnemonics stand for                                 *)

Same(q) == Reg(Rt(q), 31)
SizeOf(q) == IF Rt(q) = "w" THEN 32 ELSE 64
IsInt(q) == q.kind = "int"
Canonical(c) == CASE c = "hs" -> "cs" [] c = "lo" -> "cc" [] OTHER -> c
InvertedCond(q) ==
  IF q.kind # "str" THEN q
  ELSE IF q.text \notin DOMAIN MapCond THEN q
  ELSE LET n == MapCond[q.text] IN Text(CondName(IF n % 2 = 0 THEN n + 1 ELSE n - 1))

Arithmetic == {"add", "adds", "sub", "subs"}
WithMod == Arithmetic \cup DOMAIN LogicalUpper \cup DOMAIN InvertedUpper
\* A third register without a shift or an extend is used as it is.
Whole(name, o) ==
  IF name \in WithMod /\ Len(o) = 3 /\ IsReg(Last(o))
  THEN LET alike == \A i \in 1 .. 3 : o[i].kind = o[1].kind
       IN  Inst(name, Append(o, Mod(IF name \in Arithmetic /\ ~alike THEN "uxtx" ELSE "lsl", 0)))
  ELSE Inst(name, o)

\* A number of bits from bit lsb of a register, or a shift by a number.
A64Bits(name, o, base, lsb, n) ==
  LET size == SizeOf(o[1]) IN
  IF ~(Inside(lsb, 0, size - 1) /\ Inside(n, 1, size - lsb)) THEN Undefined
  ELSE IF name \in {"sbfx", "ubfx", "bfxil"}
  THEN Inst(base, <<o[1], o[2], Num(lsb), Num(lsb + n - 1)>>)
  ELSE Inst(base, <<o[1], o[2], Num(-lsb % size), Num(n - 1)>>)
A64ShiftBy(name, o) ==
  LET size == SizeOf(o[1])  n == o[3].value IN
  CASE ~Inside(n, 0, size - 1) -> Undefined
    [] name = "lsl" -> Inst("ubfm", <<o[1], o[2], Num(-n % size), Num(size - 1 - n)>>)
    [] name = "lsr" -> Inst("ubfm", <<o[1], o[2], Num(n), Num(size - 1)>>)
    [] name = "asr" -> Inst("sbfm", <<o[1], o[2], Num(n), Num(size - 1)>>)
    [] name = "ror" -> Inst("extr", <<o[1], o[2], o[2], Num(n)>>)

A64Move(o) ==
  CASE o[2].kind = "sp" \/ (o[1].kind = "sp" /\ IsReg(o[2])) -> Inst("add", Append(o, Num(0)))
    [] IsReg(o[2]) -> Inst("orr", <<o[1], Same(o[1]), o[2], Mod("lsl", 0)>>)
    [] Gp(o[1]) /\ IsInt(o[2]) /\ InField(o[2].value, 16) ->
         Inst("movz", <<Reg("w", o[1].code), o[2], Mod("lsl", 0)>>)
    [] OTHER -> Inst("orr", <<o[1], Same(o[1]), o[2]>>)

\* With register 31 for what is left out.
LeftOutFirst == [cmp |-> "subs", cmn |-> "adds", tst |-> "ands"]
LeftOutSecond == [neg |-> "sub", negs |-> "subs", ngc |-> "sbc", ngcs |-> "sbcs", mvn |-> "orn",
             mov |-> "orr"]
LeftOutLast ==
  [mul |-> "madd", mneg |-> "msub", smull |-> "smaddl", smnegl |-> "smsubl", umull |-> "umaddl",
   umnegl |-> "umsubl"]
OfCond == [cset |-> "csinc", csetm |-> "csinv", cinc |-> "csinc", cinv |-> "csinv",
           cneg |-> "csneg"]
Hints == [nop |-> 0, paciasp |-> 25, pacibsp |-> 27, autiasp |-> 29, autibsp |-> 31]
BtiHints == [c |-> 34, j |-> 36, jc |-> 38]
BitsOf == [sxtb |-> 7, sxth |-> 15, uxtb |-> 7, uxth |-> 15]
Fields == [sbfx |-> "sbfm", ubfx |-> "ubfm", bfxil |-> "bfm", sbfiz |-> "sbfm", ubfiz |-> "ubfm",
           bfi |-> "bfm"]
CondBranches == [b \in {"b" \o c : c \in DOMAIN MapCond} |-> CHOOSE c \in DOMAIN MapCond : b = "b" \o c]

A64Alias(name, o) ==
  LET n == Len(o)
      reg == n > 0 /\ IsReg(o[1])
  IN
  CASE name \in DOMAIN LeftOutFirst /\ n \in {2, 3} /\ reg ->
         Whole(LeftOutFirst[name], <<Same(o[1])>> \o o)
    [] name = "mov" /\ n = 2 /\ reg -> A64Move(o)
    [] name \in DOMAIN LeftOutSecond /\ n \in {2, 3} /\ reg /\ IsReg(o[2]) ->
         Whole(LeftOutSecond[name], <<o[1], Same(o[1])>> \o Tail(o))
    [] name \in DOMAIN LeftOutLast /\ n = 3 /\ reg -> Inst(LeftOutLast[name], Append(o, Same(o[1])))
    [] name \in DOMAIN OfCond /\ n = 2 /\ reg /\ name \in {"cset", "csetm"} ->
         Inst(OfCond[name], <<o[1], Same(o[1]), Same(o[1]), InvertedCond(o[2])>>)
    [] name \in DOMAIN OfCond /\ n = 3 /\ name \notin {"cset", "csetm"} ->
         Inst(OfCond[name], <<o[1], o[2], o[2], InvertedCond(o[3])>>)
    [] name \in DOMAIN BitsOf /\ n = 2 /\ reg /\ (name \in {"sxtb", "sxth"} \/ o[1].kind = "w") ->
         Inst(IF name \in {"sxtb", "sxth"} THEN "sbfm" ELSE "ubfm",
              o \o <<Num(0), Num(BitsOf[name])>>)
    [] name = "sxtw" /\ n = 2 /\ o[1].kind = "x" /\ o[2].kind = "w" ->
         Inst("sbfm", <<o[1], X(o[2].code), Num(0), Num(31)>>)
    [] name \in DOMAIN Fields /\ n = 4 /\ reg /\ IsInt(o[3]) /\ IsInt(o[4]) ->
         A64Bits(name, o, Fields[name], o[3].value, o[4].value)
    [] name \in {"lsl", "lsr", "asr", "ror"} /\ n = 3 /\ reg ->
         IF IsInt(o[3]) THEN A64ShiftBy(name, o) ELSE Inst(name \o "v", o)
    [] name = "ret" /\ n = 0 -> Inst("ret", <<X(30)>>)
    [] name = "brk" /\ n = 0 -> Inst("brk", <<Num(0)>>)
    [] name \in DOMAIN Hints /\ n = 0 -> Inst("hint", <<Num(Hints[name])>>)
    [] name = "bti" /\ n = 1 /\ o[1].kind = "str" ->
         IF o[1].text \in DOMAIN BtiHints THEN Inst("hint", <<Num(BtiHints[o[1].text])>>) ELSE Undefined
    [] name \in DOMAIN CondBranches /\ n = 1 -> Inst("b.", <<Text(CondBranches[name]), o[1]>>)
    [] name \in DOMAIN WideUpper /\ n = 2 -> Inst(name, Append(o, Mod("lsl", 0)))
    [] OTHER -> Whole(name, o)

-----------------------------------------------------------------------------
(* What the architecture allows: the roles of the operands, by mnemonic     *)

ggg == <<"g", "g", "g">>
ff == <<"f", "f">>
A64Forms(name) ==
  CASE name \in {"add", "sub"} ->
         <<ggg \o <<"shift">>, <<"G", "G", "imm12">>, <<"G", "G", "index", "extend">>>>
    [] name \in {"adds", "subs"} ->
         <<ggg \o <<"shift">>, <<"g", "G", "imm12">>, <<"g", "G", "index", "extend">>>>
    [] name \in {"and", "orr", "eor"} -> <<ggg \o <<"shift">>, <<"G", "g", "mask">>>>
    [] name = "ands" -> <<ggg \o <<"shift">>, <<"g", "g", "mask">>>>
    [] name \in DOMAIN InvertedUpper -> <<ggg \o <<"shift">>>>
    [] name \in {"adc", "adcs", "sbc", "sbcs", "udiv", "sdiv", "lslv", "lsrv", "asrv", "rorv"} ->
         <<ggg>>
    [] name \in {"rbit", "rev16", "clz", "cls", "rev"} -> <<<<"g", "g">>>>
    [] name = "rev32" -> <<<<"x", "x">>>>
    [] name \in {"csel", "csinc", "csinv", "csneg"} -> <<ggg \o <<"cond">>>>
    [] name \in {"ccmn", "ccmp"} -> <<<<"g", "g", "u4", "cond">>, <<"g", "u5", "u4", "cond">>>>
    [] name \in {"madd", "msub"} -> <<ggg \o <<"g">>>>
    [] name \in {"smaddl", "smsubl", "umaddl", "umsubl"} -> <<<<"x", "w", "w", "x">>>>
    [] name \in {"smulh", "umulh"} -> <<<<"x", "x", "x">>>>
    [] name \in {"sbfm", "bfm", "ubfm"} -> <<<<"g", "g", "bit", "bit">>>>
    [] name = "extr" -> <<ggg \o <<"bit">>>>
    [] name \in DOMAIN WideUpper -> <<<<"g", "u16", "sixteens">>>>
    [] name \in {"adr", "adrp", "ldrsw"} -> <<<<"x", "label">>>>
    [] name = "ldr" -> <<<<"any", "label">>>>
    [] name \in {"b", "bl"} -> <<<<"label">>>>
    [] name = "b." -> <<<<"cond", "label">>>>
    [] name \in {"cbz", "cbnz"} -> <<<<"g", "label">>>>
    [] name \in {"tbz", "tbnz"} -> <<<<"g", "bit", "label">>>>
    [] name \in {"br", "blr", "ret", "braaz", "brabz", "blraaz", "blrabz"} -> <<<<"x">>>>
    [] name \in {"braa", "brab"} -> <<<<"x", "modifier">>>>
    [] name \in {"retaa", "retab"} -> <<<<>>>>
    [] name = "brk" -> <<<<"u16">>>>
    [] name = "hint" -> <<<<"u16">>>>
    [] name \in {"fabs", "fneg", "fsqrt", "frintn", "frintp", "frintm", "frintz", "frinta", "frintx",
                 "frinti"} -> <<ff>>
    [] name = "fmov" ->
         <<ff, <<"w", "s">>, <<"s", "w">>, <<"x", "d">>, <<"d", "x">>, <<"f", "real">>>>
    [] name = "fcvt" -> <<<<"s", "d">>, <<"d", "s">>>>
    [] name \in DOMAIN ConvertUpper -> <<<<"index", "s">>, <<"index", "d">>>>
    [] name \in {"scvtf", "ucvtf"} -> <<<<"s", "index">>, <<"d", "index">>>>
    [] name \in {"fadd", "fsub", "fmul", "fnmul", "fdiv", "fmax", "fmin", "fmaxnm", "fminnm"} ->
         <<ff \o <<"f">>>>
    [] name \in {"fmadd", "fmsub", "fnmadd", "fnmsub"} -> <<ff \o ff>>
    [] name \in {"fcmp", "fcmpe"} -> <<ff, <<"f", "zero">>>>
    [] name \in {"fccmp", "fccmpe"} -> <<ff \o <<"u4", "cond">>>>
    [] name = "fcsel" -> <<ff \o <<"f", "cond">>>>
    [] OTHER -> <<>>

\* One run of ones in every element.
IsMask(v) ==
  LET starts == {i \in v : (i + 63) % 64 \notin v}
  IN  \E e \in {2, 4, 8, 16, 32, 64} : Periodic(v, e) /\ Cardinality(starts) * e = 64
ShortFloat(v) == \E e \in 1 .. 8 : \E m \in 16 .. 31 : v \in {m * 2^e, -(m * 2^e)}

\* Operand i of o may have a role.  A shift is of less than the register, a
\* whole register is not extended out of half of it.
Plays(o, i, role) ==
  LET q == o[i]  c == Rt(o[1])  number(n) == IsInt(q) /\ InField(q.value, n) IN
  CASE role = "g" -> Gp(q)
    [] role = "G" -> q.kind = "sp" \/ (Gp(q) /\ q.code # 31)
    [] role = "index" -> Gp(q)
    [] role = "any" -> q.kind \in {"w", "x", "s", "d"}
    [] role \in {"x", "w", "s", "d"} -> q.kind = role
    [] role = "modifier" -> q.kind = "x" /\ q.code # 31
    [] role = "f" -> q.kind \in {"s", "d"}
    [] role = "u4" -> number(4)
    [] role = "u5" -> number(5)
    [] role = "u16" -> number(16)
    [] role = "bit" -> IsInt(q) /\ Inside(q.value, 0, SizeOf(o[1]) - 1)
    [] role = "imm12" -> number(12) \/ (number(24) /\ q.value % 4096 = 0)
    [] role = "mask" -> IF q.kind = "wide" THEN c = "x" /\ IsMask(q.bits)
                        ELSE IsInt(q) /\ IsMask(Pattern(q, c = "x"))
    [] role = "shift" -> /\ q.kind = "mod" /\ q.how \in DOMAIN MapShift
                         /\ q.amount # NotWritten /\ q.amount < SizeOf(o[1])
    [] role = "extend" -> /\ q.kind = "mod" /\ q.how \in DOMAIN MapExtend \cup {"lsl"}
                          /\ q.amount <= 4
                          /\ o[i - 1].kind = "w" => c = "w" \/ q.how \notin {"uxtx", "sxtx"}
                          /\ o[i - 1].kind = "x" => c = "x"
    [] role = "sixteens" -> /\ q.kind = "mod" /\ q.how = "lsl"
                            /\ q.amount \in {n \in {0, 16, 32, 48} : n < SizeOf(o[1])}
    [] role = "cond" -> q.kind = "str" /\ q.text \in DOMAIN MapCond
    [] role = "label" -> IsLabel(q)
    [] role = "real" -> IsReal(q) /\ ShortFloat(In256ths(q))
    [] role = "zero" -> IsReal(q) /\ q.kind # "minus zero" /\ In256ths(q) = 0
Alike(o, form, roles) ==
  \A i, j \in {k \in DOMAIN form : form[k] \in roles} : Rt(o[i]) = Rt(o[j])
Fits(o, form) ==
  /\ Len(o) = Len(form) /\ \A i \in DOMAIN form : Plays(o, i, form[i])
  /\ Alike(o, form, {"g", "G"}) /\ Alike(o, form, {"f"})

\* As the decoder writes operand i.
Read(name, o, i, role, a) ==
  LET q == o[i]
      whole == IF o[1].kind = "w" THEN "w" ELSE "x"
      extendBy == IF q.how # "lsl" THEN q.how ELSE IF o[i - 1].kind = "x" THEN "uxtx" ELSE "uxtw"
  IN
  CASE role \in {"shift", "sixteens"} -> q
    [] role = "extend" -> Mod(extendBy, IF q.amount = NotWritten THEN 0 ELSE q.amount)
    [] role = "index" /\ name \in Arithmetic ->
         Reg(IF o[i + 1].how \in {"uxtx", "sxtx"} \/ (o[i + 1].how = "lsl" /\ q.kind = "x") THEN whole
             ELSE "w", q.code)
    [] role = "mask" -> Mask(Pattern(q, SizeOf(o[1]) = 64))
    [] role = "cond" -> Text(Canonical(q.text))
    [] role = "real" -> Real(In256ths(q))
    [] role = "zero" -> Real(0)
    [] role = "g" /\ name \in {"tbz", "tbnz"} -> Reg(IF o[2].value < 32 THEN "w" ELSE "x", q.code)
    [] role = "label" /\ name = "adrp" -> Num(((Place + a.to) \div 4096) - (Place \div 4096))
    [] role = "label" -> Num(a.to)
    [] OTHER -> q

-----------------------------------------------------------------------------
(* Loads and stores                                                         *)

AccessSizes(name) ==
  CASE name \in {"strb", "ldrb"} -> [w |-> 0]
    [] name = "ldrsb" -> [w |-> 0, x |-> 0]
    [] name \in {"strh", "ldrh"} -> [w |-> 1]
    [] name = "ldrsh" -> [w |-> 1, x |-> 1]
    [] name \in {"str", "ldr"} -> [w |-> 2, x |-> 3, s |-> 2, d |-> 3]
    [] name = "ldrsw" -> [x |-> 2]
    [] name \in {"stp", "ldp"} -> [w |-> 2, x |-> 3, s |-> 2, d |-> 3, q |-> 4]
    [] name = "ldpsw" -> [x |-> 2]
    [] OTHER -> <<>>
OfPair == {"stp", "ldp", "ldpsw"}

\* The offset has an encoding, and nothing the instruction does is
\* unpredictable: a base that is written back and transferred, a register
\* that is loaded twice.
AccessAllowed(name, o) ==
  LET m == Last(o)
      scale == AccessSizes(name)[o[1].kind]
      steps == m.disp % 2^scale = 0
      regs == Front(o)
  IN
  /\ m.size \in {0, 2^scale}
  /\ m.mode # "offset" => m.base \notin {X(regs[i].code) : i \in {j \in DOMAIN regs : Gp(regs[j])}}
  /\ IF name \in OfPair
     THEN /\ m.index = Missing /\ steps /\ Inside(m.disp \div 2^scale, -64, 63)
          /\ m.extent = 0 \/ 2^(scale + 1) <= m.extent
          /\ name # "stp" => o[1] # o[2]
     ELSE IF m.index # Missing
     THEN m.mod = Missing \/ m.mod.amount \in {NotWritten, 0, scale}
     ELSE \/ Inside(m.disp, -256, 255)
          \/ m.mode = "offset" /\ steps /\ Inside(m.disp \div 2^scale, 0, 4095)
Address(m) ==
  Located(m.base, m.index,
          IF m.index = Missing THEN Missing
          ELSE IF m.mod = Missing THEN Mod("lsl", 0)
          ELSE Mod(m.mod.how, IF m.mod.amount = NotWritten THEN 0 ELSE m.mod.amount),
          m.disp, m.mode)

IsAccess(name, o) ==
  /\ Len(o) = IF name \in OfPair THEN 3 ELSE 2
  /\ Last(o).kind = "mem" /\ o[1].kind \in DOMAIN AccessSizes(name)
  /\ name \in OfPair => o[1].kind = o[2].kind

-----------------------------------------------------------------------------
A64Meaning(a) ==
  LET p == Flatten(a.ops)
      s == A64Alias(a.name, p)
      forms == A64Forms(s.name)
      fitting == {k \in DOMAIN forms : Fits(s.ops, forms[k])}
      form == forms[Min(fitting)]
  IN
  IF \E i \in DOMAIN a.ops : a.ops[i].kind = "addr" THEN NoWords
  ELSE IF IsAccess(a.name, p)
  THEN IF AccessAllowed(a.name, p) THEN Inst(a.name, Append(Front(p), Address(Last(p)))) ELSE NoWords
  ELSE IF fitting = {} \/ a.name \in {"hint", "lslv", "lsrv", "asrv", "rorv", "b."} THEN NoWords
  ELSE Inst(s.name, [i \in DOMAIN s.ops |-> Read(s.name, s.ops, i, form[i], a)])

\* The names of labels; other names are of conditions.
A64LabelNames(a) ==
  LET name == Last(a.ops) IN
  IF a.ops = <<>> \/ a.name \notin {"adr", "adrp", "ldr", "ldrsw", "b", "bl", "cbz", "cbnz", "tbz", "tbnz"}
                                   \cup DOMAIN CondBranches
  THEN {} ELSE LabelNames(<<name>>)

A64Agrees(m) ==
  /\ (emitted = NoWords) <=> (m = NoWords)
  /\ emitted # NoWords =>
       /\ emitted.names = A64LabelNames(asked)
       /\ emitted.patch \in {"none", "linked"} => A64Reads(emitted.words[1]) = m

\* As for riscv64: what is encoded is what the processor reads, and what is
\* refused has no encoding or is unpredictable.  Register 31 is read as zero
\* where xzr was written and as sp where sp was; a shift or an extend, an
\* immediate and an address are those written, whichever alternative has them.
A64Read ==
  asked # Nothing /\ asked.arch = "aarch64" /\ emitted # Nothing => A64Agrees(A64Meaning(asked))
=============================================================================
