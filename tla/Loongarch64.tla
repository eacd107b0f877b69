---------------------------- MODULE Loongarch64 -----------------------------
(***************************************************************************)
(* The loongarch64 encoder (jita/loongarch64/encoder.py) with all its        *)
(* templates (table.py) but those of `li`, which module Immediates has, and  *)
(* the fields its patch kinds write (patch.py).                              *)
(***************************************************************************)
EXTENDS InsnWords, TLC

-----------------------------------------------------------------------------
(* Templates.  No word has its highest bit set.                             *)

LoongTemplate(n, shape) == Template({i \in 0 .. 30 : Bit(n, i) = 1}, shape)
\* Instructions whose words are `step` apart; "" stands for none.
Series(shape, first, step, names) ==
  {<<names[k], LoongTemplate(first + (k - 1) * step, shape)>> :
     k \in {i \in DOMAIN names : names[i] # ""}}
One(name, shape, n) == {<<name, LoongTemplate(n, shape)>>}
\* For single and for double precision.
Precisions(shape, first, between, step, names) ==
  Series(shape, first, step, [k \in DOMAIN names |-> names[k] \o ".s"])
  \cup Series(shape, first + between, step, [k \in DOMAIN names |-> names[k] \o ".d"])

JK == <<"D", "J", "K">>
Integer ==
  Series(JK, \h00100000, \h8000,
    <<"add.w", "add.d", "sub.w", "sub.d", "slt", "sltu", "maskeqz", "masknez", "nor", "and", "or",
      "xor", "orn", "andn", "sll.w", "srl.w", "sra.w", "sll.d", "srl.d", "sra.d", "", "", "rotr.w",
      "rotr.d", "mul.w", "mulh.w", "mulh.wu", "mul.d", "mulh.d", "mulh.du", "mulw.d.w",
      "mulw.d.wu", "div.w", "mod.w", "div.wu", "mod.wu", "div.d", "mod.d", "div.du", "mod.du",
      "crc.w.b.w", "crc.w.h.w", "crc.w.w.w", "crc.w.d.w", "crcc.w.b.w", "crcc.w.h.w",
      "crcc.w.w.w", "crcc.w.d.w">>)
  \cup Series(<<"D", "J", "K", "q">>, \h00040000, \h20000, <<"alsl.w", "alsl.wu">>)
  \cup One("alsl.d", <<"D", "J", "K", "q">>, \h002c0000)
  \cup One("bytepick.w", <<"D", "J", "K", "y">>, \h00080000)
  \cup One("bytepick.d", <<"D", "J", "K", "Y">>, \h000c0000)
  \cup Series(<<"D", "J", "w">>, \h00408000, \h40000, <<"slli.w", "srli.w", "srai.w", "rotri.w">>)
  \cup Series(<<"D", "J", "x">>, \h00410000, \h40000, <<"slli.d", "srli.d", "srai.d", "rotri.d">>)
  \cup Series(<<"D", "J", "M">>, \h00600000, \h8000, <<"bstrins.w", "bstrpick.w">>)
  \cup Series(<<"D", "J", "N">>, \h00800000, \h400000, <<"bstrins.d", "bstrpick.d">>)
  \cup Series(<<"D", "J", "i">>, \h02000000, \h400000,
         <<"slti", "sltui", "addi.w", "addi.d", "lu52i.d">>)
  \cup Series(<<"D", "J", "u">>, \h03400000, \h400000, <<"andi", "ori", "xori">>)
  \cup One("addu16i.d", <<"D", "J", "h">>, \h10000000)
  \cup Series(<<"D", "z">>, \h14000000, \h2000000,
         <<"lu12i.w", "lu32i.d", "pcaddi", "pcalau12i", "pcaddu12i", "pcaddu18i">>)
  \cup Series(<<"D", "J">>, \h00001000, \h400,
         <<"clo.w", "clz.w", "cto.w", "ctz.w", "clo.d", "clz.d", "cto.d", "ctz.d", "revb.2h",
           "revb.4h", "revb.2w", "revb.d", "revh.2w", "revh.d", "bitrev.4b", "bitrev.8b",
           "bitrev.w", "bitrev.d", "ext.w.h", "ext.w.b", "rdtimel.w", "rdtimeh.w", "rdtime.d",
           "cpucfg">>)
  \cup Series(<<"J", "K">>, \h00010000, \h8000, <<"asrtle.d", "asrtgt.d">>)
  \cup Series(<<"U">>, \h002a0000, \h8000, <<"break", "dbcl", "syscall">>)
  \cup Series(<<"U">>, \h38720000, \h8000, <<"dbar", "ibar">>)

Branch ==
  Series(<<"J", "R">>, \h40000000, \h4000000, <<"beqz", "bnez">>)
  \cup Series(<<"c", "R">>, \h48000000, \h100, <<"bceqz", "bcnez">>)
  \cup One("jirl", <<"D", "J", "o">>, \h4c000000)
  \cup Series(<<"T">>, \h50000000, \h4000000, <<"b", "bl">>)
  \cup Series(<<"J", "D", "B">>, \h58000000, \h4000000,
         <<"beq", "bne", "blt", "bge", "bltu", "bgeu">>)
  \cup Series(<<"D", "J", "B">>, \h60000000, \h4000000, <<"bgt", "ble", "bgtu", "bleu">>)
  \cup Series(<<"J", "B">>, \h60000000, \h4000000, <<"bltz", "bgez">>)
  \cup Series(<<"D", "B">>, \h60000000, \h4000000, <<"bgtz", "blez">>)
Alias ==
  One("nop", <<>>, \h03400000) \cup One("move", <<"D", "J">>, \h00150000)
  \cup One("ret", <<>>, \h4c000020) \cup One("jr", <<"J">>, \h4c000000)
  \cup One("ud", <<"X">>, \h38600400)
  \cup Series(<<"D">>, \h00006000, \h400, <<"rdcntvl.w", "rdcntvh.w">>)
  \cup One("rdcntid.w", <<"J">>, \h00006000)

RoundTo == [ftintrm |-> \h011a0400, ftintrp |-> \h011a4400, ftintrz |-> \h011a8400,
            ftintrne |-> \h011ac400, ftint |-> \h011b0400]
FloatOps ==
  Precisions(<<"d", "j", "k">>, \h01008000, \h8000, \h20000,
    <<"fadd", "fsub", "fmul", "fdiv", "fmax", "fmin", "fmaxa", "fmina", "fscaleb", "fcopysign">>)
  \cup Precisions(<<"d", "j">>, \h01140400, \h400, \h1000,
         <<"fabs", "fneg", "flogb", "fclass", "fsqrt", "frecip", "frsqrt">>)
  \cup Precisions(<<"d", "j">>, \h01149400, \h400, 0, <<"fmov">>)
  \cup Precisions(<<"d", "j", "k", "a">>, \h08100000, \h100000, \h400000,
         <<"fmadd", "fmsub", "fnmadd", "fnmsub">>)
  \cup One("fsel", <<"d", "j", "k", "E">>, \h0d000000)
  \cup Series(<<"d", "J">>, \h0114a400, \h400, <<"movgr2fr.w", "movgr2fr.d", "movgr2frh.w">>)
  \cup Series(<<"D", "j">>, \h0114b400, \h400, <<"movfr2gr.s", "movfr2gr.d", "movfrh2gr.s">>)
  \cup One("movgr2fcsr", <<"S", "J">>, \h0114c000) \cup One("movfcsr2gr", <<"D", "s">>, \h0114c800)
  \cup One("movfr2cf", <<"C", "j">>, \h0114d000) \cup One("movcf2fr", <<"d", "c">>, \h0114d400)
  \cup One("movgr2cf", <<"C", "J">>, \h0114d800) \cup One("movcf2gr", <<"D", "c">>, \h0114dc00)
  \cup One("fcvt.s.d", <<"d", "j">>, \h01191800) \cup One("fcvt.d.s", <<"d", "j">>, \h01192400)
  \cup UNION {Precisions(<<"d", "j">>, RoundTo[f], \h400, \h2000, <<f \o ".w", f \o ".l">>) :
                f \in DOMAIN RoundTo}
  \cup Series(<<"d", "j">>, \h011d1000, \h800, <<"ffint.s.w", "ffint.s.l", "ffint.d.w", "ffint.d.l">>)
  \cup Precisions(<<"d", "j">>, \h011e4400, \h400, 0, <<"frint">>)

MapFcmp == <<"caf", "saf", "clt", "slt", "ceq", "seq", "cle", "sle", "cun", "sun", "cult", "sult",
             "cueq", "sueq", "cule", "sule", "cne", "sne", "", "", "cor", "sor", "", "",
             "cune", "sune">>
\* The conditions that are written with the operands swapped.
MapFcmpSwapped == [sgt |-> "slt", sge |-> "sle", cugt |-> "cult", cuge |-> "cule"]
FcmpCode(cond) == (CHOOSE k \in DOMAIN MapFcmp : MapFcmp[k] = cond) - 1
FcmpBase == [s |-> \h0c100000, d |-> \h0c200000]
Fcmp ==
  UNION {
    {<<"fcmp." \o MapFcmp[k] \o "." \o p,
       LoongTemplate(FcmpBase[p] + (k - 1) * \h8000, <<"C", "j", "k">>)>> :
       k \in {i \in DOMAIN MapFcmp : MapFcmp[i] # ""}}
    \cup {<<"fcmp." \o c \o "." \o p,
            LoongTemplate(FcmpBase[p] + FcmpCode(MapFcmpSwapped[c]) * \h8000, <<"C", "k", "j">>)>> :
            c \in DOMAIN MapFcmpSwapped} :
    p \in DOMAIN FcmpBase}

\* rd, rk and rj; the _db forms are further on.  The two amswap of words have
\* no check of their registers.
AmWide == <<"amswap", "amadd", "amand", "amor", "amxor", "ammax", "ammin">>
AmNames(db) ==
  FlattenSeq([k \in 1 .. 7 |-> <<AmWide[k] \o db \o ".w", AmWide[k] \o db \o ".d">>])
  \o <<"ammax" \o db \o ".wu", "ammax" \o db \o ".du", "ammin" \o db \o ".wu",
       "ammin" \o db \o ".du">>
Am(shape) ==
  One("amswap.w", shape, \h38600000)
  \cup Series(Append(shape, "!"), \h38608000, \h8000, Tail(AmNames("")))
  \cup Series(Append(shape, "!"), \h38690000, \h8000, AmNames("_db"))

\* The accesses.  For each form its names: loads and stores with an offset,
\* of floats, prefetch, with an index, with a bound, and with a scaled offset.
WithOffset(int, float, pre) ==
  Series(int, \h28000000, \h400000,
    <<"ld.b", "ld.h", "ld.w", "ld.d", "st.b", "st.h", "st.w", "st.d", "ld.bu", "ld.hu", "ld.wu">>)
  \cup Series(float, \h2b000000, \h400000, <<"fld.s", "fst.s", "fld.d", "fst.d">>)
  \cup One("preld", pre, \h2ac00000)
WithIndex(int, float, pre) ==
  Series(int, \h38000000, \h40000,
    <<"ldx.b", "ldx.h", "ldx.w", "ldx.d", "stx.b", "stx.h", "stx.w", "stx.d", "ldx.bu", "ldx.hu",
      "ldx.wu">>)
  \cup Series(float, \h38300000, \h40000, <<"fldx.s", "fldx.d", "fstx.s", "fstx.d">>)
  \cup One("preldx", pre, \h382c0000)
WithBound(int, float) ==
  Series(float, \h38740000, \h8000,
    <<"fldgt.s", "fldgt.d", "fldle.s", "fldle.d", "fstgt.s", "fstgt.d", "fstle.s", "fstle.d">>)
  \cup Series(int, \h38780000, \h8000,
         <<"ldgt.b", "ldgt.h", "ldgt.w", "ldgt.d", "ldle.b", "ldle.h", "ldle.w", "ldle.d",
           "stgt.b", "stgt.h", "stgt.w", "stgt.d", "stle.b", "stle.h", "stle.w", "stle.d">>)
WithScaled(shape) ==
  Series(shape, \h20000000, \h1000000,
    <<"ll.w", "sc.w", "ll.d", "sc.d", "ldptr.w", "stptr.w", "ldptr.d", "stptr.d">>)

Plain ==
  Integer \cup Branch \cup Alias \cup FloatOps \cup Fcmp \cup Am(<<"D", "K", "J">>)
  \cup WithOffset(<<"D", "J", "i">>, <<"d", "J", "i">>, <<"P", "J", "i">>)
  \cup WithIndex(JK, <<"d", "J", "K">>, <<"P", "J", "K">>)
  \cup WithBound(JK, <<"d", "J", "K">>)
  \cup WithScaled(<<"D", "J", "p">>)

\* With a label: a second instruction that builds its address.
Labelled ==
  Series(<<"D", "=", "L">>, \h28000000, \h400000, <<"ld.b", "ld.h", "ld.w", "ld.d">>)
  \cup Series(<<"D", "=", "L">>, \h2a000000, \h400000, <<"ld.bu", "ld.hu", "ld.wu">>)
  \cup Series(<<"D", "L", "J", "~">>, \h29000000, \h400000, <<"st.b", "st.h", "st.w", "st.d">>)
  \cup Series(<<"d", "L", "J">>, \h2b000000, \h400000, <<"fld.s", "fst.s", "fld.d", "fst.d">>)
  \cup One("pcaddi", <<"D", "V">>, \h18000000)
  \cup Series(<<"D", "=", "l">>, \h02c00000, 0, <<"la.local", "la.pcrel">>)
  \cup Series(<<"O">>, \h4c000021, 0, <<"call36", "call">>)
  \cup Series(<<"J", "O">>, \h4c000000, 0, <<"tail36", "tail">>)

\* _memory: one memory operand in place of base and offset, or base and index.
MemoryOperand ==
  WithOffset(<<"D", "m">>, <<"d", "m">>, <<"P", "m">>)
  \cup WithIndex(<<"D", "r">>, <<"d", "r">>, <<"P", "r">>)
  \cup WithBound(<<"D", "b", "K">>, <<"d", "b", "K">>)
  \cup WithScaled(<<"D", "n">>)
  \cup Am(<<"D", "K", "b">>)

LoongMapOp == Plain \cup Labelled \cup MemoryOperand
LoongArgc(shape) ==
  Len(SelectSeq(shape, LAMBDA p : p \notin {"=", "!", "~"}))
  + Len(SelectSeq(shape, LAMBDA p : p \in {"M", "N"}))
LoongKeys == {<<r[1], LoongArgc(r[2].acts)>> : r \in LoongMapOp}
\* The alternatives in the order in which they are tried.
LoongTemplates ==
  [k \in LoongKeys |->
     InOrder({r \in LoongMapOp : r[1] = k[1] /\ LoongArgc(r[2].acts) = k[2]},
             <<Plain, Labelled, MemoryOperand>>)]

-----------------------------------------------------------------------------
(* One alternative                                                          *)

\* The bits at which a register of a class goes.
LoongRegs ==
  [D |-> <<"x", 0>>, J |-> <<"x", 5>>, K |-> <<"x", 10>>,
   d |-> <<"f", 0>>, j |-> <<"f", 5>>, k |-> <<"f", 10>>, a |-> <<"f", 15>>,
   C |-> <<"fcc", 0>>, c |-> <<"fcc", 5>>, E |-> <<"fcc", 15>>,
   S |-> <<"fcsr", 0>>, s |-> <<"fcsr", 5>>]

\* Immediates: signed or unsigned, of how many bits, from which on.
LoongSigned == [i |-> <<12, 10>>, h |-> <<16, 10>>, z |-> <<20, 5>>]
LoongUnsigned == [u |-> <<12, 10>>, w |-> <<5, 10>>, x |-> <<6, 10>>, y |-> <<2, 15>>,
                  Y |-> <<3, 15>>, U |-> <<15, 0>>, P |-> <<5, 0>>]

\* Bytes, stored as words.
TakeOffset(alt, q, n) ==
  IF q.kind = "int" /\ q.value % 4 = 0 /\ Inside(q.value, -(2^(n + 1)), 2^(n + 1) - 1)
  THEN Take(alt, Field((q.value \div 4) % 2^n, 10)) ELSE Reject(alt)

\* The highest and the lowest bit of a field of a register.
\* Faulty: either may be the higher one.
TakeBitsUnordered(alt, ops, n) ==
  LET high == TakeUnsigned(alt, OperandAt(alt, ops), n, 16)
  IN  IF high.ok THEN TakeUnsigned(high, OperandAt(high, ops), n, 10) ELSE high
TakeBitfield(alt, ops, n) ==
  LET high == TakeUnsigned(alt, OperandAt(alt, ops), n, 16)
      both == IF high.ok THEN TakeUnsigned(high, OperandAt(high, ops), n, 10) ELSE high
  IN  IF both.ok /\ ops[alt.n].value < ops[alt.n + 1].value THEN Reject(both) ELSE both

\* The bytes an access is of, from the last part of its name.
Widths == [b |-> 1, bu |-> 1, h |-> 2, hu |-> 2, w |-> 4, wu |-> 4, s |-> 4, d |-> 8, du |-> 8]
Accesses ==
  {<<h \o "." \o x, Widths[x]>> : x \in DOMAIN Widths,
     h \in {"ld", "st", "fld", "fst", "ldx", "stx", "fldx", "fstx", "ldptr", "stptr", "ll", "sc",
            "ldgt", "ldle", "stgt", "stle", "fldgt", "fldle", "fstgt", "fstle"}
           \cup {n \o db : n \in ToSet(AmWide), db \in {"", "_db"}}}
LoongWidth(name, q) == q.size = 0 \/ \A a \in Accesses : a[1] = name => a[2] = q.size

LoongMem(alt, q, p, name) ==
  LET fits ==
        CASE p = "m" -> Inside(q.disp, -2048, 2047)
          [] p = "n" -> q.disp % 4 = 0 /\ Inside(q.disp, -32768, 32767)
          [] p = "b" -> q.disp = 0
      field == CASE p = "m" -> Field(q.disp % 4096, 10)
                 [] p = "n" -> Field((q.disp \div 4) % 16384, 10)
                 [] p = "b" -> {}
  IN
  IF q.kind \notin {"mem", "indexed"} \/ ~LoongWidth(name, q) THEN Reject(alt)
  ELSE IF p = "r"
  THEN (IF q.kind = "mem" THEN Reject(alt)
        ELSE Take(alt, Field(q.base, 5) \cup Field(q.index, 10)))
  ELSE IF q.kind = "mem" /\ fits THEN Take(alt, Field(q.base, 5) \cup field) ELSE Reject(alt)

At(word, s) == Get(word, s, 5)
\* Who is not written over: a stored register by the high part of its
\* address, the operands of an atomic by the old value.
Apart(word, p) ==
  IF p = "~" THEN At(word, 5) # At(word, 0)
  ELSE At(word, 0) = 0 \/ At(word, 0) \notin {At(word, 10), At(word, 5)}

LoongLabels == [B |-> "b16", R |-> "b21", T |-> "b26", V |-> "pcrel20",
                L |-> "L", l |-> "l", O |-> "O"]
LoongAct(alt, p, ops, name) ==
  LET q == OperandAt(alt, ops) IN
  CASE p \in DOMAIN LoongRegs -> TakeReg(alt, q, LoongRegs[p][1], LoongRegs[p][2])
    [] p \in DOMAIN LoongSigned -> TakeSigned(alt, q, LoongSigned[p][1], LoongSigned[p][2])
    [] p \in DOMAIN LoongUnsigned ->
         TakeUnsigned(alt, q, LoongUnsigned[p][1], LoongUnsigned[p][2])
    [] p \in DOMAIN LoongLabels -> TakeLabel(alt, q, LoongLabels[p])
    [] p = "=" -> [alt EXCEPT !.word = @ \cup Copied(@, 0, 5)]
    [] p = "M" -> TakeBitfield(alt, ops, 5)
    [] p = "N" -> TakeBitfield(alt, ops, 6)
    [] p = "p" -> TakeOffset(alt, q, 14)
    [] p = "o" -> TakeOffset(alt, q, 16)
    [] p = "q" -> IF q.kind = "int" /\ Inside(q.value, 1, 4)
                  THEN Take(alt, Field(q.value - 1, 15)) ELSE Reject(alt)
    [] p = "X" -> LET taken == TakeUnsigned(alt, q, 5, 0)
                  IN  IF taken.ok THEN [taken EXCEPT !.word = @ \cup Field(q.value, 5)] ELSE taken
    [] p \in {"m", "n", "r", "b"} -> LoongMem(alt, q, p, name)
    [] p \in {"~", "!"} -> IF Apart(alt.word, p) THEN alt ELSE Reject(alt)

\* The address of a label would be lost in the zero register.
LoongUsable(alt) ==
  IF alt.patch \in {"L", "O"} /\ At(alt.word, 5) = 0 THEN Reject(alt) ELSE alt
LoongParse(t, ops, name) ==
  LoongUsable(AllTaken(
    FoldLeft(LAMBDA alt, p : IF alt.ok THEN LoongAct(alt, p, ops, name) ELSE alt,
             Parsing(t), t.acts),
    ops))

-----------------------------------------------------------------------------
(* encode, and the link of a label operand                                  *)

LoongPair == {"L", "l", "O"}
LoongWords(alt) ==
  IF alt.patch \in LoongPair
  THEN <<W(IF alt.patch = "O" THEN \h1e00 ELSE \h1a00, 0) \cup Copied(alt.word, 5, 0), alt.word>>
  ELSE <<alt.word>>

LoongEmitted(parsed) == Emitted(parsed, [k \in Won(parsed) |-> LoongWords(parsed[k])])
LoongTried(templates, a) ==
  LoongEmitted([k \in DOMAIN templates |-> LoongParse(templates[k], a.ops, a.name)])
LoongEncode(a) ==
  LET key == <<a.name, Len(a.ops)>> IN
  IF key \notin LoongKeys THEN NoWords ELSE LoongTried(LoongTemplates[key], a)

EncodeLoong ==
  /\ asked # Nothing /\ asked.arch = "loongarch64" /\ emitted = Nothing
  /\ emitted' = LoongEncode(asked)
  /\ UNCHANGED asked

\* Branch offsets count words; the part above 16 bits is at bit 0.
SplitOffset(n, bits) ==
  Field((n \div 4) % 65536, 10) \cup Field(((n \div 4) % 2^bits) \div 65536, 0)
Pcala(n) ==
  <<Field((((Place + n + 2048) \div 4096) - (Place \div 4096)) % 2^20, 5),
    Field((Place + n) % 4096, 10)>>
Call36(n) ==
  LET hi == (n + 131072) \div 262144
  IN  <<Field(hi % 2^20, 5), Field(((n - hi * 262144) \div 4) % 65536, 10)>>
LoongFields(kind, n) ==
  CASE kind = "b16" -> <<Field((n \div 4) % 65536, 10)>>
    [] kind = "b21" -> <<SplitOffset(n, 21)>>
    [] kind = "b26" -> <<SplitOffset(n, 26)>>
    [] kind = "pcrel20" -> <<Field((n \div 4) % 2^20, 5)>>
    [] kind \in {"L", "l"} -> Pcala(n)
    [] kind = "O" -> Call36(n)

LinkLoong ==
  /\ asked # Nothing /\ asked.arch = "loongarch64"
  /\ emitted \notin {Nothing, NoWords} /\ emitted.patch \notin {"none", "linked"}
  /\ LET fields == LoongFields(emitted.patch, asked.to)
     IN  emitted' = [emitted EXCEPT !.words = [i \in DOMAIN @ |-> @[i] \cup fields[i]],
                                    !.patch = "linked"]
  /\ UNCHANGED asked
=============================================================================
