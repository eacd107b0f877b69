------------------------------- MODULE Riscv64 ------------------------------
(***************************************************************************)
(* The riscv64 encoder (jita/riscv64/encoder.py) with all its templates     *)
(* (table.py) but those of `li`, which module Immediates has, and the fields *)
(* its patch kinds write (patch.py).                                         *)
(***************************************************************************)
EXTENDS InsnWords, TLC

-----------------------------------------------------------------------------
(* Templates.  Eight instructions that differ in funct3 stand in one row.   *)

\* Rows of names: the n-th has n - 1 in funct3; "" stands for none.
ByFunct3(hi, lo, names) ==
  [k \in {i \in DOMAIN names : names[i] # ""} |->
     <<names[k], W(hi, lo) \cup Field(k - 1, 12)>>]
RiscvRows(shape, rows) == {<<r[1], Template(r[2], shape)>> : r \in rows}
AllOf(f) == {f[k] : k \in DOMAIN f}
RiscvWord(hi, lo, name) == <<name, W(hi, lo)>>

R3 == <<"D", "N", "M">>
RType ==
  RiscvRows(R3,
    AllOf(ByFunct3(\h0000, \h0033, <<"add", "sll", "slt", "sltu", "xor", "srl", "or", "and">>))
    \cup AllOf(ByFunct3(\h4000, \h0033, <<"sub", "", "", "", "xnor", "sra", "orn", "andn">>))
    \cup AllOf(ByFunct3(\h0000, \h003b, <<"addw", "sllw", "", "", "", "srlw">>))
    \cup AllOf(ByFunct3(\h4000, \h003b, <<"subw", "", "", "", "", "sraw">>))
    \cup AllOf(ByFunct3(\h0200, \h0033,
           <<"mul", "mulh", "mulhsu", "mulhu", "div", "divu", "rem", "remu">>))
    \cup AllOf(ByFunct3(\h0200, \h003b, <<"mulw", "", "", "", "divw", "divuw", "remw", "remuw">>))
    \cup AllOf(ByFunct3(\h2000, \h0033, <<"", "", "sh1add", "", "sh2add", "", "sh3add">>))
    \cup AllOf(ByFunct3(\h2000, \h003b, <<"", "", "sh1add.uw", "", "sh2add.uw", "", "sh3add.uw">>))
    \cup AllOf(ByFunct3(\h0a00, \h0033, <<"", "", "", "", "min", "minu", "max", "maxu">>))
    \cup AllOf(ByFunct3(\h6000, \h0033, <<"", "rol", "", "", "", "ror">>))
    \cup AllOf(ByFunct3(\h6000, \h003b, <<"", "rolw", "", "", "", "rorw">>))
    \cup {RiscvWord(\h0800, \h003b, "add.uw")})
  \cup RiscvRows(<<"D", "M", "N">>, {RiscvWord(0, \h2033, "sgt"), RiscvWord(0, \h3033, "sgtu")})

IType ==
  RiscvRows(<<"D", "N", "I">>,
    AllOf(ByFunct3(0, \h0013, <<"addi", "", "slti", "sltiu", "xori", "", "ori", "andi">>))
    \cup {RiscvWord(0, \h001b, "addiw"), RiscvWord(0, \h0067, "jalr")})
  \cup RiscvRows(<<"D", "N", "H">>,
    {RiscvWord(0, \h1013, "slli"), RiscvWord(0, \h5013, "srli"), RiscvWord(\h4000, \h5013, "srai"),
     RiscvWord(\h0800, \h101b, "slli.uw"), RiscvWord(\h6000, \h5013, "rori")})
  \cup RiscvRows(<<"D", "N", "W">>,
    {RiscvWord(0, \h101b, "slliw"), RiscvWord(0, \h501b, "srliw"), RiscvWord(\h4000, \h501b, "sraiw"),
     RiscvWord(\h6000, \h501b, "roriw")})
  \cup RiscvRows(<<"D", "N">>,
    {RiscvWord(\h6000, \h1013, "clz"), RiscvWord(\h6010, \h1013, "ctz"), RiscvWord(\h6020, \h1013, "cpop"),
     RiscvWord(\h6000, \h101b, "clzw"), RiscvWord(\h6010, \h101b, "ctzw"), RiscvWord(\h6020, \h101b, "cpopw"),
     RiscvWord(\h6040, \h1013, "sext.b"), RiscvWord(\h6050, \h1013, "sext.h"), RiscvWord(\h0800, \h403b, "zext.h"),
     RiscvWord(\h2870, \h5013, "orc.b"), RiscvWord(\h6b80, \h5013, "rev8"),
     RiscvWord(0, \h0013, "mv"), RiscvWord(\hfff0, \h4013, "not"), RiscvWord(0, \h001b, "sext.w"),
     RiscvWord(\h0ff0, \h7013, "zext.b"), RiscvWord(\h0800, \h003b, "zext.w"), RiscvWord(\h0010, \h3013, "seqz"),
     RiscvWord(0, \h2033, "sltz"), RiscvWord(\h0030, \h1073, "fscsr"), RiscvWord(\h0020, \h1073, "fsrm"),
     RiscvWord(\h0010, \h1073, "fsflags")})
  \cup RiscvRows(<<"D", "M">>,
    {RiscvWord(\h4000, \h0033, "neg"), RiscvWord(\h4000, \h003b, "negw"), RiscvWord(0, \h3033, "snez"),
     RiscvWord(0, \h2033, "sgtz")})

\* With a label in place of the memory operand: an auipc pair.
RiscvMemory ==
  RiscvRows(<<"D", "L">>,
    AllOf(ByFunct3(0, \h0003, <<"lb", "lh", "lw", "ld", "lbu", "lhu", "lwu">>)))
  \cup RiscvRows(<<"M", "S">>, AllOf(ByFunct3(0, \h0023, <<"sb", "sh", "sw", "sd">>)))
  \cup RiscvRows(<<"d", "L">>, {RiscvWord(0, \h2007, "flw"), RiscvWord(0, \h3007, "fld")})
  \cup RiscvRows(<<"m", "S">>, {RiscvWord(0, \h2027, "fsw"), RiscvWord(0, \h3027, "fsd")})
RiscvLabelMemory ==
  RiscvRows(<<"D", "E", "G">>,
    AllOf(ByFunct3(0, \h0003, <<"lb", "lh", "lw", "ld", "lbu", "lhu", "lwu">>)))
  \cup RiscvRows(<<"M", "G", "N", "~">>, AllOf(ByFunct3(0, \h0023, <<"sb", "sh", "sw", "sd">>)))
  \cup RiscvRows(<<"d", "G", "N">>, {RiscvWord(0, \h2007, "flw"), RiscvWord(0, \h3007, "fld")})
  \cup RiscvRows(<<"m", "G", "N">>, {RiscvWord(0, \h2027, "fsw"), RiscvWord(0, \h3027, "fsd")})
  \cup RiscvRows(<<"D", "E", "G">>, {RiscvWord(0, \h0013, "la")})
  \cup RiscvRows(<<"D", "E", "g">>, {RiscvWord(0, \h0013, "lla")})
  \cup RiscvRows(<<"G">>, {RiscvWord(0, \h80e7, "call"), RiscvWord(\h0003, \h0067, "tail")})

RiscvBranches ==
  RiscvRows(<<"N", "M", "B">>,
    AllOf(ByFunct3(0, \h0063, <<"beq", "bne", "", "", "blt", "bge", "bltu", "bgeu">>)))
  \cup RiscvRows(<<"M", "N", "B">>,
    AllOf(ByFunct3(0, \h0063, <<"", "", "", "", "bgt", "ble", "bgtu", "bleu">>)))
  \cup RiscvRows(<<"N", "B">>,
    AllOf(ByFunct3(0, \h0063, <<"beqz", "bnez", "", "", "bltz", "bgez">>)))
  \cup RiscvRows(<<"M", "B">>, AllOf(ByFunct3(0, \h0063, <<"", "", "", "", "bgtz", "blez">>)))
  \cup RiscvRows(<<"J">>, {RiscvWord(0, \h00ef, "jal"), RiscvWord(0, \h006f, "j")})
  \cup RiscvRows(<<"D", "J">>, {RiscvWord(0, \h006f, "jal")})
  \cup RiscvRows(<<"N">>, {RiscvWord(0, \h00e7, "jalr"), RiscvWord(0, \h0067, "jr")})
  \cup RiscvRows(<<"N", "I">>, {RiscvWord(0, \h0067, "jr")})
  \cup RiscvRows(<<"D", "U">>, {RiscvWord(0, \h0037, "lui"), RiscvWord(0, \h0017, "auipc")})

RiscvSystem ==
  RiscvRows(<<>>,
    {RiscvWord(0, \h0073, "ecall"), RiscvWord(\h0010, \h0073, "ebreak"), RiscvWord(\h0ff0, \h000f, "fence"),
     RiscvWord(\h8330, \h000f, "fence.tso"), RiscvWord(0, \h100f, "fence.i"), RiscvWord(0, \h0013, "nop"),
     RiscvWord(0, \h8067, "ret"), RiscvWord(\hc000, \h1073, "unimp")})
  \cup RiscvRows(<<"P", "Q">>, {RiscvWord(0, \h000f, "fence")})
  \cup RiscvRows(<<"D", "C", "N">>, AllOf(ByFunct3(0, \h0073, <<"", "csrrw", "csrrs", "csrrc">>)))
  \cup RiscvRows(<<"D", "C", "K">>,
    AllOf(ByFunct3(0, \h0073, <<"", "", "", "", "", "csrrwi", "csrrsi", "csrrci">>)))
  \cup RiscvRows(<<"C", "N">>, AllOf(ByFunct3(0, \h0073, <<"", "csrw", "csrs", "csrc">>)))
  \cup RiscvRows(<<"C", "K">>,
    AllOf(ByFunct3(0, \h0073, <<"", "", "", "", "", "csrwi", "csrsi", "csrci">>)))
  \cup RiscvRows(<<"D", "C">>, {RiscvWord(0, \h2073, "csrr")})
  \cup RiscvRows(<<"D">>,
    {RiscvWord(\h0030, \h2073, "frcsr"), RiscvWord(\h0020, \h2073, "frrm"), RiscvWord(\h0010, \h2073, "frflags"),
     RiscvWord(\hc000, \h2073, "rdcycle"), RiscvWord(\hc010, \h2073, "rdtime"),
     RiscvWord(\hc020, \h2073, "rdinstret")})
  \cup RiscvRows(<<"N">>,
    {RiscvWord(\h0030, \h1073, "fscsr"), RiscvWord(\h0020, \h1073, "fsrm"), RiscvWord(\h0010, \h1073, "fsflags")})
  \cup UNION {RiscvRows(shape, {RiscvWord(\h0020, \h5073, "fsrmi"), RiscvWord(\h0010, \h5073, "fsflagsi")}) :
                shape \in {<<"K">>, <<"D", "K">>}}

\* An instruction for single and, one bit higher, for double precision.
Both(hi, lo, name) == {RiscvWord(hi, lo, name \o ".s"), RiscvWord(hi + \h0200, lo, name \o ".d")}
RiscvFloat ==
  RiscvRows(<<"d", "n", "m", "r">>,
    Both(0, \h0053, "fadd") \cup Both(\h0800, \h0053, "fsub")
    \cup Both(\h1000, \h0053, "fmul") \cup Both(\h1800, \h0053, "fdiv"))
  \cup RiscvRows(<<"d", "n", "r">>, Both(\h5800, \h0053, "fsqrt"))
  \cup RiscvRows(<<"d", "n", "m">>,
    Both(\h2000, \h0053, "fsgnj") \cup Both(\h2000, \h1053, "fsgnjn")
    \cup Both(\h2000, \h2053, "fsgnjx") \cup Both(\h2800, \h0053, "fmin")
    \cup Both(\h2800, \h1053, "fmax"))
  \cup RiscvRows(<<"d", "n", "m", "a", "r">>,
    Both(0, \h0043, "fmadd") \cup Both(0, \h0047, "fmsub")
    \cup Both(0, \h004b, "fnmsub") \cup Both(0, \h004f, "fnmadd"))
  \cup RiscvRows(<<"D", "n", "m">>,
    Both(\ha000, \h2053, "feq") \cup Both(\ha000, \h1053, "flt") \cup Both(\ha000, \h0053, "fle"))
  \cup RiscvRows(<<"D", "m", "n">>, Both(\ha000, \h1053, "fgt") \cup Both(\ha000, \h0053, "fge"))
  \cup RiscvRows(<<"d", "n", "^">>,
    Both(\h2000, \h0053, "fmv") \cup Both(\h2000, \h1053, "fneg") \cup Both(\h2000, \h2053, "fabs"))
  \cup RiscvRows(<<"D", "n">>,
    Both(\he000, \h1053, "fclass")
    \cup {RiscvWord(\he000, \h0053, "fmv.x.w"), RiscvWord(\he200, \h0053, "fmv.x.d"),
          RiscvWord(\he000, \h0053, "fmv.x.s")})
  \cup RiscvRows(<<"d", "N">>,
    {RiscvWord(\hf000, \h0053, "fmv.w.x"), RiscvWord(\hf200, \h0053, "fmv.d.x"), RiscvWord(\hf000, \h0053, "fmv.s.x"),
     RiscvWord(\hd200, \h0053, "fcvt.d.w"), RiscvWord(\hd210, \h0053, "fcvt.d.wu")})
  \cup RiscvRows(<<"D", "n", "r">>,
    UNION {Both(\hc000 + (k - 1) * \h10, \h0053, <<"fcvt.w", "fcvt.wu", "fcvt.l", "fcvt.lu">>[k]) :
             k \in 1 .. 4})
  \cup RiscvRows(<<"d", "N", "r">>,
    {RiscvWord(\hd000 + (k - 1) * \h10, \h0053, <<"fcvt.s.w", "fcvt.s.wu", "fcvt.s.l", "fcvt.s.lu">>[k]) :
       k \in 1 .. 4}
    \cup {RiscvWord(\hd220, \h0053, "fcvt.d.l"), RiscvWord(\hd230, \h0053, "fcvt.d.lu")})
  \cup RiscvRows(<<"d", "n", "r">>, {RiscvWord(\h4010, \h0053, "fcvt.s.d")})
  \cup RiscvRows(<<"d", "n">>, {RiscvWord(\h4200, \h0053, "fcvt.d.s")})

\* funct5 at bit 27, the orderings aq and rl at 26 and 25, the width in funct3.
Funct5 ==
  ("lr" :> 2) @@ ("sc" :> 3) @@ ("amoswap" :> 1) @@ ("amoadd" :> 0) @@ ("amoxor" :> 4)
  @@ ("amoand" :> 12) @@ ("amoor" :> 8) @@ ("amomin" :> 16) @@ ("amomax" :> 20)
  @@ ("amominu" :> 24) @@ ("amomaxu" :> 28)
Atomics ==
  UNION {
    RiscvRows(IF f = "lr" THEN <<"D", "A">> ELSE <<"D", "M", "A">>,
      {<<f \o <<".w", ".d">>[i] \o <<"", ".rl", ".aq", ".aqrl">>[o],
         Field(Funct5[f], 27) \cup Field(o - 1, 25) \cup Field(i + 1, 12) \cup W(0, \h2f)>> :
         i \in 1 .. 2, o \in 1 .. 4}) :
    f \in DOMAIN Funct5}

RiscvMapOp == RType \cup IType \cup RiscvMemory \cup RiscvLabelMemory \cup RiscvBranches \cup RiscvSystem \cup RiscvFloat
         \cup Atomics

\* Operands a shape takes, the number in the key of the table.
RiscvArgc(shape) == Len(SelectSeq(shape, LAMBDA p : p \notin {"E", "^", "~", "r"}))


\* The alternatives in the order in which they are tried: the register or
\* memory operand first, then the label.
Jalr2 == <<Template(W(0, \h67), <<"D", "N">>), Template(W(0, \h67), <<"D", "L">>),
           Template(W(0, \he7), <<"N", "I">>)>>
RiscvKeys == {<<r[1], RiscvArgc(r[2].acts)>> : r \in RiscvMapOp} \cup {<<"jalr", 2>>}
RiscvTemplates ==
  [k \in RiscvKeys |->
     IF k = <<"jalr", 2>> THEN Jalr2
     ELSE InOrder({r \in RiscvMapOp : r[1] = k[1] /\ RiscvArgc(r[2].acts) = k[2]},
                  <<RiscvMapOp \ RiscvLabelMemory, RiscvLabelMemory>>)]
RoundingMnemonics == {r[1] : r \in {s \in RiscvMapOp : "r" \in ToSet(s[2].acts)}}

MapRm == [rne |-> 0, rtz |-> 1, rdn |-> 2, rup |-> 3, rmm |-> 4, dyn |-> 7]
MapCsr == [fflags |-> \h001, frm |-> \h002, fcsr |-> \h003,
           cycle |-> \hc00, time |-> \hc01, instret |-> \hc02]
\* The letters of a set of i, o, r and w, in that order.
FenceLetters(b) ==
  (IF Bit(b, 3) = 1 THEN "i" ELSE "") \o (IF Bit(b, 2) = 1 THEN "o" ELSE "")
  \o (IF Bit(b, 1) = 1 THEN "r" ELSE "") \o (IF Bit(b, 0) = 1 THEN "w" ELSE "")
FenceSets == {<<FenceLetters(b), b>> : b \in 1 .. 15}

-----------------------------------------------------------------------------
(* One alternative                                                          *)

XFields == [D |-> 7, N |-> 15, M |-> 20]
FFields == [d |-> 7, n |-> 15, m |-> 20, a |-> 27]

TakeCsr(alt, q) ==
  IF q.kind = "str" /\ q.text \in DOMAIN MapCsr THEN Take(alt, Field(MapCsr[q.text], 20))
  ELSE TakeUnsigned(alt, q, 12, 20)
TakeFence(alt, q, s) ==
  LET named == {f \in FenceSets : q.kind = "str" /\ f[1] = q.text}
  IN  IF named = {} THEN Reject(alt)
      ELSE Take(alt, UNION {Field(f[2], s) : f \in named})

SType(n) == Field((n \div 32) % 128, 25) \cup Field(n % 32, 7)
\* A field of a structure is accessed whole; jalr does not load it.
RiscvWidth(word, q) ==
  q.size = 0 \/ (Get(word, 0, 7) # \h67 /\ q.size = 2^Get(word, 12, 2))
RiscvMem(alt, q, p) ==
  IF q.kind # "mem" THEN Reject(alt)
  ELSE IF RiscvWidth(alt.word, q) /\ (IF p = "A" THEN q.disp = 0 ELSE Inside(q.disp, -2048, 2047))
  THEN Take(alt, Field(q.base, 15)
                 \cup (IF p = "S" THEN SType(q.disp) ELSE Field(q.disp % 4096, 20)))
  ELSE Reject(alt)

RiscvAct(alt, p, ops, rm) ==
  LET q == OperandAt(alt, ops) IN
  CASE p \in DOMAIN XFields -> TakeReg(alt, q, "x", XFields[p])
    [] p \in DOMAIN FFields -> TakeReg(alt, q, "f", FFields[p])
    [] p = "E" -> [alt EXCEPT !.word = @ \cup Copied(@, 7, 15)]
    [] p = "^" -> [alt EXCEPT !.word = @ \cup Copied(@, 15, 20)]
    [] p = "I" -> TakeSigned(alt, q, 12, 20)
    [] p = "U" -> TakeInt(alt, q, -(2^19), 2^20 - 1, 20, 12)
    [] p = "H" -> TakeUnsigned(alt, q, 6, 20)
    [] p = "W" -> TakeUnsigned(alt, q, 5, 20)
    [] p = "K" -> TakeUnsigned(alt, q, 5, 15)
    [] p = "C" -> TakeCsr(alt, q)
    [] p \in {"L", "S", "A"} -> RiscvMem(alt, q, p)
    [] p = "B" -> TakeLabel(alt, q, "b12")
    [] p = "J" -> TakeLabel(alt, q, "j20")
    [] p \in {"G", "g"} -> TakeLabel(alt, q, p)
    [] p = "P" -> TakeFence(alt, q, 24)
    [] p = "Q" -> TakeFence(alt, q, 20)
    [] p = "~" -> IF Copied(alt.word, 15, 20) = alt.word \cap (20 .. 24) THEN Reject(alt) ELSE alt
    [] p = "r" -> LET mode == IF rm = "none" THEN "dyn" ELSE rm
                  IN  IF mode \notin DOMAIN MapRm THEN Reject(alt)
                      ELSE [alt EXCEPT !.word = @ \cup Field(MapRm[mode], 12)]

\* auipc zero would drop the high part.
UsablePair(alt) ==
  IF alt.patch = "G" /\ alt.word \cap (15 .. 19) = {} THEN Reject(alt) ELSE alt
RiscvParse(t, ops, rm) ==
  UsablePair(AllTaken(
    FoldLeft(LAMBDA alt, p : IF alt.ok THEN RiscvAct(alt, p, ops, rm) ELSE alt, Parsing(t), t.acts),
    ops))

-----------------------------------------------------------------------------
(* encode, and the link of a label operand                                  *)

RiscvPair == {"G", "g"}
RiscvWords(alt) ==
  IF alt.patch \in RiscvPair THEN <<W(0, \h17) \cup Copied(alt.word, 15, 7), alt.word>>
  ELSE <<alt.word>>

RiscvEmitted(parsed) == Emitted(parsed, [k \in Won(parsed) |-> RiscvWords(parsed[k])])
RiscvTried(templates, a) ==
  RiscvEmitted([k \in DOMAIN templates |-> RiscvParse(templates[k], a.ops, a.rm)])
RiscvEncode(a) ==
  LET key == <<a.name, Len(a.ops)>> IN
  IF key \notin RiscvKeys \/ (a.rm # "none" /\ a.name \notin RoundingMnemonics) THEN NoWords
  ELSE RiscvTried(RiscvTemplates[key], a)

EncodeRiscv ==
  /\ asked # Nothing /\ asked.arch = "riscv64" /\ emitted = Nothing
  /\ emitted' = RiscvEncode(asked)
  /\ UNCHANGED asked

BType(n) ==
  Field((n \div 4096) % 2, 31) \cup Field((n \div 32) % 64, 25)
  \cup Field((n \div 2) % 16, 8) \cup Field((n \div 2048) % 2, 7)
\* Faulty: bits 11 and 19 to 12 of the offset are stored in its order.
JInOrder(n) ==
  Field((n \div 2^20) % 2, 31) \cup Field((n \div 2) % 1024, 21)
  \cup Field((n \div 2048) % 512, 12)
JType(n) ==
  Field((n \div 2^20) % 2, 31) \cup Field((n \div 2) % 1024, 21)
  \cup Field((n \div 2048) % 2, 20) \cup Field((n \div 4096) % 256, 12)
IType12(n) == Field(n % 4096, 20)

\* The high part is rounded so that the signed low part brings it back.  The
\* opcode of the second word tells a store.
OrPcrel(words, n) ==
  LET hi == (n + 2048) \div 4096
      lo == n - hi * 4096
      low == IF Get(words[2], 0, 7) \in {\h23, \h27} THEN SType(lo) ELSE IType12(lo)
  IN  <<words[1] \cup Field(hi % 2^20, 12), words[2] \cup low>>

RiscvFields(e, n) ==
  CASE e.patch = "b12" -> <<e.words[1] \cup BType(n)>>
    [] e.patch = "j20" -> <<e.words[1] \cup JType(n)>>
    [] e.patch \in RiscvPair -> OrPcrel(e.words, n)

LinkRiscv ==
  /\ asked # Nothing /\ asked.arch = "riscv64"
  /\ emitted \notin {Nothing, NoWords} /\ emitted.patch \notin {"none", "linked"}
  /\ emitted' = [emitted EXCEPT !.words = RiscvFields(emitted, asked.to), !.patch = "linked"]
  /\ UNCHANGED asked
=============================================================================
