------------------------------ MODULE Aarch64 -------------------------------
(***************************************************************************)
(* The aarch64 encoder (jita/aarch64/encoder.py) with all its templates      *)
(* (table.py), memory operands (mem.py) and registers with a shift or an     *)
(* extend (regs.py), and the fields its patch kinds write (patch.py).        *)
(***************************************************************************)
EXTENDS InsnWords, TLC

-----------------------------------------------------------------------------
(* Operands                                                                 *)

Sp == Reg("sp", 31)
NotWritten == -1          \* of an extend: no amount
Mod(how, amount) == [kind |-> "mod", how |-> how, amount |-> amount]
RegMod(reg, how, amount) == [kind |-> "regmod", reg |-> reg, mod |-> Mod(how, amount)]
\* A float as a number of 256ths, and the float that is zero but negative.
Real(n) == [kind |-> "float", value |-> n]
MinusZero == [kind |-> "minus zero"]
\* An integer of 64 bits, as the set of the bits that are one.
Wide(bits) == [kind |-> "wide", bits |-> bits]

\* `mod` is Missing for an offset, and for an x index alone.  A typed field
\* has a size, and the bytes from it to the end of what is known to be there.
MemExpr(base, index, mod, disp, mode, size, extent) ==
  [kind |-> "mem", base |-> base, index |-> index, mod |-> mod, disp |-> disp, mode |-> mode,
   size |-> size, extent |-> extent]
Offset(base, disp, mode) == MemExpr(base, Missing, Missing, disp, mode, 0, 0)

\* What MemExpr accepts.
BuildableMem(m) ==
  /\ m.base.kind = "sp" \/ (m.base.kind = "x" /\ m.base.code < 31)
  /\ IF m.index = Missing THEN m.mod = Missing
     ELSE /\ m.mode = "offset" /\ m.disp = 0
          /\ \/ m.index.kind = "x" /\ (m.mod = Missing \/ m.mod.how \in {"lsl", "sxtx"})
             \/ m.index.kind = "w" /\ m.mod # Missing /\ m.mod.how \in {"uxtw", "sxtw"}

Gp(q) == q.kind \in {"x", "w"}
IsReg(q) == q.kind \in {"x", "w", "sp", "s", "d", "q"}
Rt(q) == IF q.kind = "sp" THEN "x" ELSE q.kind

\* A register with a shift or an extend is two operands.
Flatten(ops) ==
  FlattenSeq([i \in DOMAIN ops |->
    IF ops[i].kind = "regmod" THEN <<ops[i].reg, ops[i].mod>> ELSE <<ops[i]>>])

-----------------------------------------------------------------------------
(* Templates: the alternatives of a mnemonic, by how many operands it has   *)

T(hi, lo, acts) == Template(W(hi, lo), acts)
Only(name, hi, lo, acts) == {<<name, <<T(hi, lo, acts)>>>>}
\* Mnemonics that differ in the upper, or in the lower, half of the word.
ByUpper(upper, lo, acts) == {<<n, <<T(upper[n], lo, acts)>>>> : n \in DOMAIN upper}
ByLower(hi, lower, acts) == {<<n, <<T(hi, lower[n], acts)>>>> : n \in DOMAIN lower}

DNMg == <<"D", "N", "M", "g">>
\* For a w and for an x register.
WX(hi, wide, lo, acts) == <<T(hi, lo, Append(acts, "w")), T(hi + wide, lo, Append(acts, "x"))>>

\* add and sub, and cmn and cmp, whose destination is register 31.
AddSub(name, hi, lo, rd, sp) ==
  LET dest == IF rd THEN <<"D">> ELSE <<>>
      destSp == IF sp THEN <<"p", "D">> ELSE dest
  IN
  {<<name, <<T(hi, lo, dest \o <<"N", "M", "g">>),
             T(hi + \h600, lo, destSp \o <<"p", "N", "I", "g">>),
             T(hi + \h8020, lo + \h6000, destSp \o <<"p", "N", "M", "x">>)>>>>,
   <<name, <<T(hi, lo, dest \o <<"N", "M", "S", "g">>),
             T(hi + \h20, lo, dest \o <<"N", "M", "X", "g">>),
             T(hi + \h8020, lo, destSp \o <<"p", "N", "M", "X", "x">>),
             T(hi + \h8020, lo, destSp \o <<"p", "N", "x", "M", "w", "X">>)>>>>}
AddSubs ==
  AddSub("add", \h0b00, 0, TRUE, TRUE) \cup AddSub("adds", \h2b00, 0, TRUE, FALSE)
  \cup AddSub("cmn", \h2b00, \h1f, FALSE, FALSE)
  \cup AddSub("sub", \h4b00, 0, TRUE, TRUE) \cup AddSub("subs", \h6b00, 0, TRUE, FALSE)
  \cup AddSub("cmp", \h6b00, \h1f, FALSE, FALSE)
  \cup UNION {ByUpper([neg |-> \h4b00, negs |-> \h6b00], \h3e0, acts) :
                acts \in {<<"D", "M", "g">>, <<"D", "M", "S", "g">>}}
  \cup ByUpper([adc |-> \h1a00, adcs |-> \h3a00, sbc |-> \h5a00, sbcs |-> \h7a00], 0, DNMg)
  \cup ByUpper([ngc |-> \h5a00, ngcs |-> \h7a00], \h3e0, <<"D", "M", "g">>)

LogicalUpper == [and |-> \h0a00, orr |-> \h2a00, eor |-> \h4a00, ands |-> \h6a00]
InvertedUpper == [bic |-> \h0a20, orn |-> \h2a20, eon |-> \h4a20, bics |-> \h6a20]
Logical ==
  {<<n, <<T(LogicalUpper[n], 0, DNMg),
          T(LogicalUpper[n] + \h800, 0,
            (IF n = "ands" THEN <<>> ELSE <<"p">>) \o <<"D", "N", "i", "g">>)>>>> :
     n \in DOMAIN LogicalUpper}
  \cup {<<"tst", <<T(\h6a00, \h1f, <<"N", "M", "g">>), T(\h7200, \h1f, <<"N", "i", "g">>)>>>>}
  \cup ByUpper(InvertedUpper, 0, DNMg)
  \cup ByUpper(InvertedUpper @@ LogicalUpper, 0, <<"D", "N", "M", "S", "g">>)
  \cup Only("tst", \h6a00, \h1f, <<"N", "M", "S", "g">>)

WideUpper == [movn |-> \h1280, movz |-> \h5280, movk |-> \h7280]
Moves ==
  ByUpper(WideUpper, 0, <<"D", "W", "g">>) \cup ByUpper(WideUpper, 0, <<"D", "W", "R", "g">>)
  \cup {<<"mov", <<T(\h2a00, \h3e0, <<"D", "M", "g">>), T(\h5280, 0, <<"D", "W">>),
                   T(\h3200, \h3e0, <<"p", "D", "i", "g">>),
                   T(\h1100, 0, <<"p", "D", "p", "N", "g">>)>>>>}
  \cup ByUpper([mov |-> \h2a00, mvn |-> \h2a20], \h3e0, <<"D", "M", "S", "g">>)
  \cup Only("mvn", \h2a20, \h3e0, <<"D", "M", "g">>)
  \cup ByUpper([adr |-> \h1000, adrp |-> \h9000], 0, <<"D", "B", "x">>)

Conditional ==
  ByUpper([csel |-> \h1a80, csinv |-> \h5a80], 0, <<"D", "N", "M", "C", "g">>)
  \cup ByUpper([csinc |-> \h1a80, csneg |-> \h5a80], \h400, <<"D", "N", "M", "C", "g">>)
  \cup Only("cset", \h1a9f, \h7e0, <<"D", "c", "g">>)
  \cup Only("csetm", \h5a9f, \h3e0, <<"D", "c", "g">>)
  \cup Only("cinc", \h1a80, \h400, <<"D", "N", "m", "c", "g">>)
  \cup Only("cinv", \h5a80, 0, <<"D", "N", "m", "c", "g">>)
  \cup Only("cneg", \h5a80, \h400, <<"D", "N", "m", "c", "g">>)
  \cup {<<n, <<T(hi, 0, <<"N", "M", "V", "C", "g">>), T(hi, \h800, <<"N", "5", "V", "C", "g">>)>>>> :
          <<n, hi>> \in {<<"ccmn", \h3a40>>, <<"ccmp", \h7a40>>}}

DxNMw == <<"D", "x", "N", "M", "w">>
Multiply ==
  ByLower(\h1b00, [madd |-> 0, msub |-> \h8000], <<"D", "N", "M", "A", "g">>)
  \cup ByLower(\h1b00, [mul |-> \h7c00, mneg |-> \hfc00], DNMg)
  \cup ByLower(\h9b20, [smaddl |-> 0, smsubl |-> \h8000], DxNMw \o <<"A", "x">>)
  \cup ByLower(\h9ba0, [umaddl |-> 0, umsubl |-> \h8000], DxNMw \o <<"A", "x">>)
  \cup ByLower(\h9b20, [smull |-> \h7c00, smnegl |-> \hfc00], DxNMw)
  \cup ByLower(\h9ba0, [umull |-> \h7c00, umnegl |-> \hfc00], DxNMw)
  \cup ByUpper([smulh |-> \h9b40, umulh |-> \h9bc0], \h7c00, <<"D", "N", "M", "x">>)
  \cup ByLower(\h1ac0, [udiv |-> \h800, sdiv |-> \hc00], DNMg)

BitfieldUpper == [sbfm |-> \h1300, bfm |-> \h3300, ubfm |-> \h5300]
BitOps ==
  {<<n, WX(BitfieldUpper[n], \h8040, 0, <<"D", "N", "1", "2">>)>> : n \in DOMAIN BitfieldUpper}
  \cup {<<"extr", WX(\h1380, \h8040, 0, <<"D", "N", "M", "2">>)>>,
        <<"sxtb", WX(\h1300, \h8040, \h1c00, <<"D", "N">>)>>,
        <<"sxth", WX(\h1300, \h8040, \h3c00, <<"D", "N">>)>>}
  \cup Only("sxtw", \h9340, \h7c00, <<"D", "x", "N", "w">>)
  \cup ByLower(\h5300, [uxtb |-> \h1c00, uxth |-> \h3c00], <<"D", "N", "w">>)
  \cup Only("lsl", \h1ac0, \h2000, DNMg)
  \cup {<<n, <<T(\h1ac0, lo, DNMg), T(hi, \h7c00, <<"D", "N", "1", "w">>),
               T(hi + \h8040, \hfc00, <<"D", "N", "1", "x">>)>>>> :
          <<n, lo, hi>> \in {<<"lsr", \h2400, \h5300>>, <<"asr", \h2800, \h1300>>}}
  \cup {<<"ror", <<T(\h1ac0, \h2c00, DNMg)>> \o WX(\h1380, \h8040, 0, <<"D", "N", "m", "2">>)>>,
        <<"rev", <<T(\h5ac0, \h800, <<"D", "N", "w">>), T(\hdac0, \hc00, <<"D", "N", "x">>)>>>>}
  \cup ByLower(\h5ac0, [rbit |-> 0, rev16 |-> \h400, clz |-> \h1000, cls |-> \h1400],
               <<"D", "N", "g">>)
  \cup Only("rev32", \hdac0, \h800, <<"D", "N", "x">>)

\* Of a register class.
Ld(hi, class) == T(hi, 0, <<"D", class, "L">>)
Lit(hi, class) == T(hi, 0, <<"D", class, "B">>)
Pair(hi, class) == T(hi, 0, <<"D", "A", class, "P">>)
LoadsStores ==
  {<<"strb", <<Ld(\h3800, "w")>>>>, <<"ldrb", <<Ld(\h3840, "w")>>>>,
   <<"ldrsb", <<Ld(\h38c0, "w"), Ld(\h3880, "x")>>>>,
   <<"strh", <<Ld(\h7800, "w")>>>>, <<"ldrh", <<Ld(\h7840, "w")>>>>,
   <<"ldrsh", <<Ld(\h78c0, "w"), Ld(\h7880, "x")>>>>,
   <<"str", <<Ld(\hb800, "w"), Ld(\hf800, "x"), Ld(\hbc00, "s"), Ld(\hfc00, "d")>>>>,
   <<"ldr", <<Lit(\h1800, "w"), Lit(\h5800, "x"), Lit(\h1c00, "s"), Lit(\h5c00, "d"),
              Ld(\hb840, "w"), Ld(\hf840, "x"), Ld(\hbc40, "s"), Ld(\hfc40, "d")>>>>,
   <<"ldrsw", <<Lit(\h9800, "x"), Ld(\hb880, "x")>>>>,
   <<"ldpsw", <<Pair(\h6840, "x")>>>>}
  \cup {<<n, <<Pair(\h2800 + load, "w"), Pair(\ha800 + load, "x"), Pair(\h2c00 + load, "s"),
               Pair(\h6c00 + load, "d"), Pair(\hac00 + load, "q")>>>> :
          <<n, load>> \in {<<"stp", 0>>, <<"ldp", \h40>>}}

MapCond ==
  [eq |-> 0, ne |-> 1, cs |-> 2, cc |-> 3, mi |-> 4, pl |-> 5, vs |-> 6, vc |-> 7, hi |-> 8,
   ls |-> 9, ge |-> 10, lt |-> 11, gt |-> 12, le |-> 13, al |-> 14, hs |-> 2, lo |-> 3]
Branches ==
  ByUpper([b |-> \h1400, bl |-> \h9400], 0, <<"B">>)
  \cup {<<"b" \o c, <<T(\h5400, MapCond[c], <<"B">>)>>>> : c \in DOMAIN MapCond}
  \cup ByUpper([blr |-> \hd63f, br |-> \hd61f, ret |-> \hd65f], 0, <<"N", "x">>)
  \cup ByUpper([cbz |-> \h3400, cbnz |-> \h3500], 0, <<"D", "B", "g">>)
  \cup {<<n, WX(hi, 0, 0, <<"D", "T", "B">>)>> : <<n, hi>> \in {<<"tbz", \h3600>>, <<"tbnz", \h3700>>}}
  \cup ByLower(\hd63f, [blraaz |-> \h81f, blrabz |-> \hc1f], <<"N", "x">>)
  \cup ByLower(\hd61f, [braaz |-> \h81f, brabz |-> \hc1f], <<"N", "x">>)
  \cup ByLower(\hd71f, [braa |-> \h800, brab |-> \hc00], <<"N", "D", "x">>)
System ==
  ByLower(\hd503, [paciasp |-> \h233f, pacibsp |-> \h237f, autiasp |-> \h23bf,
                   autibsp |-> \h23ff, nop |-> \h201f], <<>>)
  \cup ByLower(\hd65f, [ret |-> \h3c0, retaa |-> \hbff, retab |-> \hfff], <<>>)
  \cup Only("bti", \hd503, \h241f, <<"t">>)
  \cup Only("brk", \hd420, 0, <<>>) \cup Only("brk", \hd420, 0, <<"W">>)

ConvertUpper ==
  [fcvtas |-> \h1e24, fcvtau |-> \h1e25, fcvtms |-> \h1e30, fcvtmu |-> \h1e31, fcvtns |-> \h1e20,
   fcvtnu |-> \h1e21, fcvtps |-> \h1e28, fcvtpu |-> \h1e29, fcvtzs |-> \h1e38, fcvtzu |-> \h1e39]
DNMf == <<"D", "N", "M", "f">>
DN(class, from) == <<"D", class, "N", from>>
Float ==
  {<<"fmov", <<T(\h1e20, \h4000, <<"D", "N", "f">>), T(\h1e26, 0, DN("w", "s")),
               T(\h1e27, 0, DN("s", "w")), T(\h9e66, 0, DN("x", "d")), T(\h9e67, 0, DN("d", "x")),
               T(\h1e20, \h1000, <<"D", "F", "f">>)>>>>,
   <<"fcvt", <<T(\h1e22, \hc000, DN("d", "s")), T(\h1e62, \h4000, DN("s", "d"))>>>>}
  \cup {<<n, LET hi == ConvertUpper[n]
             IN  <<T(hi, 0, DN("w", "s")), T(hi + \h8000, 0, DN("x", "s")),
                   T(hi + \h40, 0, DN("w", "d")), T(hi + \h8040, 0, DN("x", "d"))>>>> :
          n \in DOMAIN ConvertUpper}
  \cup {<<n, <<T(hi, 0, DN("s", "w")), T(hi + \h8000, 0, DN("s", "x")),
               T(hi + \h40, 0, DN("d", "w")), T(hi + \h8040, 0, DN("d", "x"))>>>> :
          <<n, hi>> \in {<<"scvtf", \h1e22>>, <<"ucvtf", \h1e23>>}}
  \cup ByUpper([fabs |-> \h1e20, fsqrt |-> \h1e21, frintp |-> \h1e24, frintz |-> \h1e25,
                frinti |-> \h1e27], \hc000, <<"D", "N", "f">>)
  \cup ByUpper([fneg |-> \h1e21, frintn |-> \h1e24, frintm |-> \h1e25, frinta |-> \h1e26,
                frintx |-> \h1e27], \h4000, <<"D", "N", "f">>)
  \cup ByLower(\h1e20, [fadd |-> \h2800, fsub |-> \h3800, fmul |-> \h0800, fnmul |-> \h8800,
                        fdiv |-> \h1800, fmax |-> \h4800, fmaxnm |-> \h6800, fmin |-> \h5800,
                        fminnm |-> \h7800], DNMf)
  \cup ByLower(\h1f00, [fmadd |-> 0, fmsub |-> \h8000], <<"D", "N", "M", "A", "f">>)
  \cup ByLower(\h1f20, [fnmadd |-> 0, fnmsub |-> \h8000], <<"D", "N", "M", "A", "f">>)
  \cup {<<n, <<T(\h1e20, lo, <<"N", "M", "f">>), T(\h1e20, lo + 8, <<"N", "Z", "f">>)>>>> :
          <<n, lo>> \in {<<"fcmp", \h2000>>, <<"fcmpe", \h2010>>}}
  \cup ByLower(\h1e20, [fccmp |-> \h400, fccmpe |-> \h410], <<"N", "M", "V", "C", "f">>)
  \cup Only("fcsel", \h1e20, \hc00, <<"D", "N", "M", "C", "f">>)

A64MapOp ==
  AddSubs \cup Logical \cup Moves \cup Conditional \cup Multiply \cup BitOps \cup LoadsStores
  \cup Branches \cup System \cup Float
AnyCount == -1     \* "_*"
A64Argc(acts) ==
  IF {"L", "P"} \cap ToSet(acts) # {} THEN AnyCount
  ELSE Len(SelectSeq(acts, LAMBDA p : p \notin {"p", "m", "g", "f", "x", "w", "d", "s", "q"}))
A64Key(row) == <<row[1], A64Argc(Last(row[2]).acts)>>
A64Keys == {A64Key(row) : row \in A64MapOp}
A64Templates == [k \in A64Keys |-> (CHOOSE row \in A64MapOp : A64Key(row) = k)[2]]

\* op_alias: the bitfield mnemonics, and lsl with a number.
MapAlias ==
  [sbfx |-> <<"sbfm", "bfx">>, bfxil |-> <<"bfm", "bfx">>, ubfx |-> <<"ubfm", "bfx">>,
   sbfiz |-> <<"sbfm", "bfiz">>, bfi |-> <<"bfm", "bfiz">>, ubfiz |-> <<"ubfm", "bfiz">>]

-----------------------------------------------------------------------------
(* Registers and numbers                                                    *)

\* Of the extended register forms of add and sub Rn is sp when it is 31, and
\* so is Rd unless flags are set.
ExtForm(w) == Get(w, 24, 5) = \h0b /\ 21 \in w
ExtRdSp(w) == ExtForm(w) /\ 29 \notin w
\* Faulty: only the marked operands are.
MarkedSp(alt, i, s) == i \in alt.spOk
MeansSp(alt, i, s) ==
  i \in alt.spOk \/ (s = 5 /\ ExtForm(alt.word)) \/ (s = 0 /\ ExtRdSp(alt.word))

\* Operand i at bit s.  The register type is none or that of the registers
\* before, until an action asks for it.
RegAt(alt, ops, i, s) ==
  LET q == IF i \in DOMAIN ops THEN ops[i] ELSE Missing IN
  IF \/ ~IsReg(q) \/ (q.kind = "sp" /\ i \notin alt.spOk)
     \/ (Gp(q) /\ q.code = 31 /\ MeansSp(alt, i, s))
     \/ alt.sized \notin {"none", Rt(q)}
  THEN Reject(alt)
  ELSE [alt EXCEPT !.word = @ \cup Field(q.code, s), !.sized = Rt(q)]
A64TakeReg(alt, ops, s) == LET taken == RegAt(alt, ops, alt.n, s) IN [taken EXCEPT !.n = @ + 1]

\* The register type is used up: bit b for the wider one.
SelectBy(alt, narrow, wide, b) ==
  IF alt.sized = wide THEN [alt EXCEPT !.word = @ \cup {b}, !.sized = "none"]
  ELSE IF alt.sized = narrow THEN [alt EXCEPT !.sized = "none"]
  ELSE Reject(alt)
Require(alt, class) == IF alt.sized = class THEN [alt EXCEPT !.sized = "none"] ELSE Reject(alt)

\* With 32 bit registers a 6 bit field has 5.
TakeNarrow(alt, q, s) == TakeUnsigned(alt, q, IF alt.sized = "w" THEN 5 ELSE 6, s)

TakeImm12(alt, q) ==
  IF q.kind # "int" THEN Reject(alt)
  ELSE IF Inside(q.value, 0, 4095) THEN Take(alt, Field(q.value, 10))
  ELSE IF Inside(q.value, 0, \hfff000) /\ q.value % 4096 = 0
  THEN Take(alt, Field(q.value \div 4096, 10) \cup {22})
  ELSE Reject(alt)

TakeBitNumber(alt, q) ==
  LET taken == TakeNarrow(alt, q, 0)
  IN  IF ~taken.ok THEN taken
      ELSE Take(alt, Field(q.value % 32, 19) \cup (IF q.value >= 32 THEN {31} ELSE {}))

\* The 64 bits of a number, and 32 bits of it twice.
BitOf(n, i) == IF i < 31 THEN Bit(n, i) = 1 ELSE n < 0
Pattern(q, r64) ==
  IF q.kind = "wide" THEN q.bits
  ELSE {i \in 0 .. 63 : BitOf(q.value, IF r64 THEN i ELSE i % 32)}
Periodic(v, e) == \A i \in 0 .. 63 : (i \in v) <=> ((i + e) % 64 \in v)

\* imm13: the shortest element, and how far its ones are rotated.
A64TakeMask(alt, q) ==
  IF q.kind \notin {"int", "wide"} \/ (q.kind = "wide" /\ alt.sized # "x") THEN Reject(alt)
  ELSE
    LET v == Pattern(q, alt.sized = "x")
        e == Min({s \in {2, 4, 8, 16, 32, 64} : Periodic(v, s)})
        elt == v \cap (0 .. e - 1)
        k == Cardinality(elt)
        turns == {r \in 0 .. e - 1 : {(i - r) % e : i \in 0 .. k - 1} = elt}
    IN
    IF v = {} \/ v = 0 .. 63 \/ turns = {} THEN Reject(alt)
    ELSE Take(alt, (IF e = 64 THEN {22} ELSE {}) \cup Field(Min(turns), 16)
                   \cup Field(((-2 * e) % 64) + k - 1, 10))

IsReal(q) == q.kind \in {"int", "float", "minus zero"}
In256ths(q) == CASE q.kind = "int" -> q.value * 256 [] q.kind = "float" -> q.value [] OTHER -> 0
\* fpimm: four bits after the first one, and an exponent of -3 .. 4.
TakeReal(alt, q) ==
  LET v == In256ths(q)
      size == IF v < 0 THEN -v ELSE v
      fits == {e \in 0 .. 7 : size % 2^(e + 1) = 0 /\ Inside(size \div 2^(e + 1), 16, 31)}
      e == Min(fits)
  IN
  IF ~IsReal(q) THEN Reject(alt)
  ELSE IF fits = {} THEN Reject(alt)
  ELSE Take(alt, (IF v < 0 THEN {20} ELSE {}) \cup Field((e - 4) % 8, 17)
                 \cup Field((size \div 2^(e + 1)) - 16, 13))
TakeZero(alt, q) ==
  IF IsReal(q) /\ q.kind # "minus zero" /\ In256ths(q) = 0 THEN Take(alt, {}) ELSE Reject(alt)

-----------------------------------------------------------------------------
(* Shifts, extends and names                                                *)

MapShift == [lsl |-> 0, lsr |-> 1, asr |-> 2]
MapExtend == [uxtb |-> 0, uxth |-> 1, uxtw |-> 2, uxtx |-> 3,
              sxtb |-> 4, sxth |-> 5, sxtw |-> 6, sxtx |-> 7]

TakeShift(alt, q) ==
  IF q.kind # "mod" THEN Reject(alt)
  ELSE IF q.how \notin DOMAIN MapShift \/ q.amount = NotWritten THEN Reject(alt)
  ELSE LET taken == TakeNarrow(alt, Num(q.amount), 10)
       IN  [taken EXCEPT !.word = @ \cup Field(MapShift[q.how], 22)]

\* lsl is the extend of the register's own width, whose type is still known.
TakeExtend(alt, ops) ==
  LET q == OperandAt(alt, ops)
      option == IF q.how = "lsl" THEN IF alt.sized = "x" THEN 3 ELSE 2 ELSE MapExtend[q.how]
      halfOfOne ==
        q.how \in {"uxtx", "sxtx"} /\ ops[alt.n - 1].kind = "w" /\ IsReg(ops[1]) /\ Rt(ops[1]) = "x"
  IN
  IF q.kind # "mod" THEN Reject(alt)
  ELSE IF q.how \notin DOMAIN MapExtend \cup {"lsl"} THEN Reject(alt)
  ELSE IF halfOfOne \/ q.amount > 4 THEN Reject(alt)
  ELSE Take(alt, Field(option, 13) \cup (IF q.amount = NotWritten THEN {} ELSE Field(q.amount, 10)))

\* Of a move wide: only sixteens, and in a w register one.
TakeSixteens(alt, q) ==
  IF q.kind # "mod" THEN Reject(alt)
  ELSE IF q.how = "lsl" /\ q.amount \in {0, 16} \cup (IF alt.sized = "x" THEN {32, 48} ELSE {})
  THEN Take(alt, Field(q.amount \div 16, 21)) ELSE Reject(alt)

\* A condition, or the opposite one, which `al` has not.
TakeCond(alt, q, inverted) ==
  IF q.kind # "str" THEN Reject(alt)
  ELSE IF q.text \notin DOMAIN MapCond \/ (inverted /\ q.text = "al") THEN Reject(alt)
  ELSE LET c == MapCond[q.text]
       IN  Take(alt, Field(IF ~inverted THEN c ELSE IF c % 2 = 0 THEN c + 1 ELSE c - 1, 12))

MapBti == [c |-> {6}, j |-> {7}, jc |-> {6, 7}]
TakeBti(alt, q) ==
  IF q.kind # "str" THEN Reject(alt)
  ELSE IF q.text \in DOMAIN MapBti THEN Take(alt, MapBti[q.text]) ELSE Reject(alt)

-----------------------------------------------------------------------------
(* Addresses                                                                *)

\* Of a typed field: what is accessed, and all that a pair reaches.
SizeFits(m, scale) == m.size \in {0, 2^scale}
PairFits(m, scale) == m.extent = 0 \/ 2 * 2^scale <= m.extent

\* The base is written back into a register that is transferred too.
Overlaps(m, ops, n) ==
  /\ m.mode # "offset" /\ m.base.kind # "sp"
  /\ \E i \in 1 .. n - 1 : Gp(ops[i]) /\ ops[i].code = m.base.code

\* The type of the registers is used up by now.
BaseField(m) == Field(m.base.code, 5)
IndexAmount(m) == IF m.mod = Missing \/ m.mod.amount = NotWritten THEN 0 ELSE m.mod.amount
IndexOption == [lsl |-> {14, 13}, sxtx |-> {15, 14, 13}, uxtw |-> {14}, sxtw |-> {15, 14}]
IndexFields(m, scale) ==
  Field(m.index.code, 16) \cup {21, 11}
  \cup (IF m.mod = Missing THEN {14, 13} ELSE IndexOption[m.mod.how])
  \cup (IF IndexAmount(m) = 0 THEN {} ELSE {12})

TakeLoad(alt, ops) ==
  LET m == OperandAt(alt, ops)
      scale == Get(alt.word, 30, 2)
      with(bits) == Take(alt, BaseField(m) \cup bits)
      signed9(bits) == IF Inside(m.disp, -256, 255) THEN with(Field(m.disp % 512, 12) \cup bits)
                       ELSE Reject(alt)
  IN
  IF m.kind # "mem" \/ alt.n < Len(ops) THEN Reject(alt)
  ELSE IF ~SizeFits(m, scale) \/ Overlaps(m, ops, alt.n) THEN Reject(alt)
  ELSE IF m.mode = "post" THEN signed9({10})
  ELSE IF m.mode = "pre" THEN signed9({11, 10})
  ELSE IF m.index # Missing
  THEN IF IndexAmount(m) \in {0, scale} THEN with(IndexFields(m, scale)) ELSE Reject(alt)
  ELSE IF m.disp % 2^scale = 0 /\ Inside(m.disp \div 2^scale, 0, 4095)
  THEN with(Field(m.disp \div 2^scale, 10) \cup {24})
  ELSE signed9({})

ModeBits == [post |-> {23}, pre |-> {24, 23}, offset |-> {24}]
TakePair(alt, ops) ==
  LET m == OperandAt(alt, ops)
      scale == IF 26 \in alt.word THEN 2 + Get(alt.word, 30, 2) ELSE 2 + Get(alt.word, 31, 1)
  IN
  IF m.kind # "mem" \/ alt.n < Len(ops) THEN Reject(alt)
  ELSE IF \/ m.index # Missing \/ ~SizeFits(m, scale) \/ ~PairFits(m, scale)
          \/ (22 \in alt.word /\ ops[1] = ops[2]) \/ Overlaps(m, ops, alt.n)
  THEN Reject(alt)
  ELSE IF m.disp % 2^scale = 0 /\ Inside(m.disp \div 2^scale, -64, 63)
  THEN Take(alt, BaseField(m) \cup ModeBits[m.mode] \cup Field((m.disp \div 2^scale) % 128, 15))
  ELSE Reject(alt)

\* The patch of a label, from the fixed bits.
BranchKind(w) ==
  IF Get(w, 26, 5) = 5 THEN "rel26"
  ELSE IF Get(w, 24, 8) = \h54 \/ Get(w, 25, 6) = \h1a \/ (Get(w, 27, 3) = 3 /\ {24, 25} \cap w = {})
  THEN "rel19"
  ELSE IF Get(w, 25, 6) = \h1b THEN "rel14"
  ELSE IF 31 \in w THEN "adrp" ELSE "adr"

-----------------------------------------------------------------------------
(* One alternative                                                          *)

A64Regs == [D |-> 0, N |-> 5, M |-> 16, A |-> 10]
A64Act(alt, p, ops) ==
  LET q == OperandAt(alt, ops) IN
  CASE p \in DOMAIN A64Regs -> A64TakeReg(alt, ops, A64Regs[p])
    [] p = "m" -> RegAt(alt, ops, alt.n - 1, 16)
    [] p = "p" -> [alt EXCEPT !.spOk = @ \cup {alt.n}]
    [] p = "g" -> SelectBy(alt, "w", "x", 31)
    [] p = "f" -> SelectBy(alt, "s", "d", 22)
    [] p \in {"x", "w", "d", "s", "q"} -> Require(alt, p)
    [] p = "L" -> TakeLoad(alt, ops)
    [] p = "P" -> TakePair(alt, ops)
    [] p = "B" -> TakeLabel(alt, q, BranchKind(alt.word))
    [] p = "I" -> TakeImm12(alt, q)
    [] p = "i" -> A64TakeMask(alt, q)
    [] p = "W" -> TakeUnsigned(alt, q, 16, 5)
    [] p = "T" -> TakeBitNumber(alt, q)
    [] p = "1" -> TakeNarrow(alt, q, 16)
    [] p = "2" -> TakeNarrow(alt, q, 10)
    [] p = "5" -> TakeUnsigned(alt, q, 5, 16)
    [] p = "V" -> TakeUnsigned(alt, q, 4, 0)
    [] p = "F" -> TakeReal(alt, q)
    [] p = "Z" -> TakeZero(alt, q)
    [] p = "S" -> TakeShift(alt, q)
    [] p = "X" -> TakeExtend(alt, ops)
    [] p = "R" -> TakeSixteens(alt, q)
    [] p \in {"C", "c"} -> TakeCond(alt, q, p = "c")
    [] p = "t" -> TakeBti(alt, q)

\* A register type that nothing asked for is of a general register, and the
\* modifier of braa and brab is not register 31.
A64Usable(alt) ==
  IF alt.sized \notin {"none", "x", "w"} \/ (Get(alt.word, 11, 21) = \h1ae3e1 /\ Get(alt.word, 0, 5) = 31)
  THEN Reject(alt) ELSE alt
A64Parse(t, ops) ==
  A64Usable(AllTaken(
    FoldLeft(LAMBDA alt, p : IF alt.ok THEN A64Act(alt, p, ops) ELSE alt, Parsing(t), t.acts), ops))

-----------------------------------------------------------------------------
(* encode, and the link of a label operand                                  *)

\* The operands of the mnemonic that an alias stands for, if its field is one.
Rewritten(how, p) ==
  LET size == IF Rt(p[1]) = "w" THEN 32 ELSE 64
      n == p[3].value
      width == p[4].value
  IN
  CASE how = "lsl" ->
         IF Inside(n, 0, size - 1)
         THEN <<p[1], p[2], Num((size - n) % size), Num(size - 1 - n)>> ELSE <<>>
    [] ~(Inside(n, 0, size - 1) /\ Inside(width, 1, size - n)) -> <<>>
    [] how = "bfx" -> <<p[1], p[2], p[3], Num(n + width - 1)>>
    [] how = "bfiz" -> <<p[1], p[2], Num((size - n) % size), Num(width - 1)>>

IsAlias(name, p) ==
  (name \in DOMAIN MapAlias /\ Len(p) = 4)
  \/ (IF name = "lsl" /\ Len(p) = 3 THEN p[3].kind = "int" ELSE FALSE)
\* What the templates are tried with: a mnemonic and operands.
Unaliased(name, p) ==
  LET alias == IF name = "lsl" THEN <<"ubfm", "lsl">> ELSE MapAlias[name]
      numbers == \A i \in 3 .. Len(p) : p[i].kind = "int"
  IN  IF ~IsAlias(name, p) THEN Inst(name, p)
      ELSE Inst(alias[1], IF numbers /\ IsReg(p[1]) THEN Rewritten(alias[2], p) ELSE <<>>)

A64Emitted(parsed) == Emitted(parsed, [k \in Won(parsed) |-> <<parsed[k].word>>])
A64Tried(templates, ops) ==
  A64Emitted([k \in DOMAIN templates |-> A64Parse(templates[k], ops)])
A64KeyOf(name, todo) ==
  LET key == <<todo.name, Len(todo.ops)>> IN
  IF key \in A64Keys THEN key ELSE <<name, AnyCount>>
A64Matched(key, todo) ==
  IF key \notin A64Keys THEN NoWords ELSE A64Tried(A64Templates[key], todo.ops)
A64Looked(name, todo) == A64Matched(A64KeyOf(name, todo), todo)
A64Encode(a) ==
  IF \E i \in DOMAIN a.ops : a.ops[i].kind = "addr" THEN NoWords
  ELSE A64Looked(a.name, Unaliased(a.name, Flatten(a.ops)))

EncodeA64 ==
  /\ asked # Nothing /\ asked.arch = "aarch64" /\ emitted = Nothing
  /\ emitted' = A64Encode(asked)
  /\ UNCHANGED asked

\* Words for branches, bytes for adr and pages for adrp, with the lowest two
\* bits apart.
AdrFields(n) == Field(n % 4, 29) \cup Field((n \div 4) % 2^19, 5)
A64Fields(kind, n) ==
  CASE kind = "rel26" -> Field((n \div 4) % 65536, 0) \cup Field(((n \div 4) % 2^26) \div 65536, 16)
    [] kind = "rel19" -> Field((n \div 4) % 2^19, 5)
    [] kind = "rel14" -> Field((n \div 4) % 2^14, 5)
    [] kind = "adr" -> AdrFields(n)
    [] kind = "adrp" -> AdrFields(((Place + n) \div 4096) - (Place \div 4096))

LinkA64 ==
  /\ asked # Nothing /\ asked.arch = "aarch64"
  /\ emitted \notin {Nothing, NoWords} /\ emitted.patch \notin {"none", "linked"}
  /\ emitted' = [emitted EXCEPT !.words = <<@[1] \cup A64Fields(emitted.patch, asked.to)>>,
                                !.patch = "linked"]
  /\ UNCHANGED asked
=============================================================================
