------------------------- MODULE Loongarch64Decode --------------------------
(***************************************************************************)
(* How a loongarch64 processor reads the words of module Loongarch64: the    *)
(* formats of the manual by the leading bits of a word, and what the         *)
(* assembler's aliases stand for.                                            *)
(***************************************************************************)
EXTENDS Loongarch64

-----------------------------------------------------------------------------
(* Formats                                                                  *)

\* The upper half of a word, and ranges of it.
Upper(w) == Get(w, 16, 16)
From(w, lo, hi) == Inside(Upper(w), lo, hi)

\* Moves between the register files, by the bits from 10 on.
MoveFormat(w) ==
  LET op == Get(w, 10, 6) IN
  CASE op \in {\h29, \h2a, \h2b} -> <<"fd", "rj">>
    [] op \in {\h2d, \h2e, \h2f} -> <<"rd", "fj">>
    [] op = \h30 -> <<"fcsrd", "rj">>
    [] op = \h32 -> <<"rd", "fcsrj">>
    [] op = \h34 -> <<"cd", "fj">>
    [] op = \h35 -> <<"fd", "cj">>
    [] op = \h36 -> <<"cd", "rj">>
    [] op = \h37 -> <<"rd", "cj">>
    [] OTHER -> <<"fd", "fj">>
\* In assembly an access has its offset after the base.
LoongFormat(w) ==
  CASE Upper(w) = 0 -> <<"rd", "rj">>
    [] Upper(w) = 1 -> <<"rj", "rk">>
    [] From(w, \h04, \h07) \/ From(w, \h2c, \h2d) -> <<"rd", "rj", "rk", "sa2less1">>
    [] From(w, \h08, \h09) -> <<"rd", "rj", "rk", "sa2">>
    [] From(w, \h0c, \h0f) -> <<"rd", "rj", "rk", "sa3">>
    [] From(w, \h10, \h27) -> <<"rd", "rj", "rk">>
    [] From(w, \h2a, \h2b) \/ Upper(w) = \h3872 -> <<"code15">>
    [] Upper(w) \in {\h40, \h44, \h48, \h4c} -> <<"rd", "rj", "ui5">>
    [] Upper(w) \in {\h41, \h45, \h49, \h4d} -> <<"rd", "rj", "ui6">>
    [] From(w, \h60, \h7f) -> <<"rd", "rj", "msb5", "lsb5">>
    [] From(w, \h80, \hff) -> <<"rd", "rj", "msb6", "lsb6">>
    [] From(w, \h100, \h113) -> <<"fd", "fj", "fk">>
    [] Upper(w) = \h114 -> MoveFormat(w)
    [] From(w, \h119, \h11e) -> <<"fd", "fj">>
    [] From(w, \h200, \h33f) -> <<"rd", "rj", "si12">>
    [] From(w, \h340, \h3ff) -> <<"rd", "rj", "ui12">>
    [] From(w, \h810, \h8ef) -> <<"fd", "fj", "fk", "fa">>
    [] From(w, \hc10, \hc2f) -> <<"cd", "fj", "fk">>
    [] Upper(w) \in {\hd00, \hd01, \hd02, \hd03} -> <<"fd", "fj", "fk", "ca">>
    [] From(w, \h1000, \h13ff) -> <<"rd", "rj", "si16">>
    [] From(w, \h1400, \h1fff) -> <<"rd", "si20">>
    [] From(w, \h2000, \h27ff) -> <<"rd", "rj", "si14">>
    [] From(w, \h2800, \h2abf) -> <<"rd", "rj", "si12">>
    [] From(w, \h2ac0, \h2aff) -> <<"hint", "rj", "si12">>
    [] From(w, \h2b00, \h2bff) -> <<"fd", "rj", "si12">>
    [] From(w, \h382c, \h382f) -> <<"hint", "rj", "rk">>
    [] From(w, \h3830, \h383f) \/ From(w, \h3874, \h3877) -> <<"fd", "rj", "rk">>
    [] From(w, \h3800, \h382b) \/ From(w, \h3878, \h387f) -> <<"rd", "rj", "rk">>
    [] From(w, \h3860, \h3871) -> <<"rd", "rk", "rj">>
    [] From(w, \h4000, \h47ff) -> <<"rj", "off21">>
    [] From(w, \h4800, \h4bff) -> <<"cj", "off21">>
    [] From(w, \h4c00, \h4fff) -> <<"rd", "rj", "off16">>
    [] From(w, \h5000, \h57ff) -> <<"off26">>
    [] From(w, \h5800, \h6fff) -> <<"rj", "rd", "off16">>

LoongBits ==
  [rd |-> 0 .. 4, rj |-> 5 .. 9, rk |-> 10 .. 14, fd |-> 0 .. 4, fj |-> 5 .. 9, fk |-> 10 .. 14,
   fa |-> 15 .. 19, cd |-> 0 .. 2, cj |-> 5 .. 7, ca |-> 15 .. 17, fcsrd |-> 0 .. 4,
   fcsrj |-> 5 .. 9, sa2less1 |-> 15 .. 16, sa2 |-> 15 .. 16, sa3 |-> 15 .. 17,
   code15 |-> 0 .. 14, hint |-> 0 .. 4, ui5 |-> 10 .. 14, ui6 |-> 10 .. 15,
   msb5 |-> 16 .. 20, lsb5 |-> 10 .. 14, msb6 |-> 16 .. 21, lsb6 |-> 10 .. 15,
   si12 |-> 10 .. 21, ui12 |-> 10 .. 21, si14 |-> 10 .. 23, si16 |-> 10 .. 25,
   si20 |-> 5 .. 24, off16 |-> 10 .. 25, off21 |-> (0 .. 4) \cup (10 .. 25), off26 |-> 0 .. 25]
LoongClass ==
  [rd |-> "x", rj |-> "x", rk |-> "x", fd |-> "f", fj |-> "f", fk |-> "f", fa |-> "f",
   cd |-> "fcc", cj |-> "fcc", ca |-> "fcc", fcsrd |-> "fcsr", fcsrj |-> "fcsr"]
LoongBranchRoles == {"off16", "off21", "off26"}

LoongOperand(w, role) ==
  LET low == Min(LoongBits[role])
      size == Cardinality(LoongBits[role])
  IN
  CASE role \in DOMAIN LoongClass -> Reg(LoongClass[role], Get(w, low, size))
    [] role = "off16" -> Num(SGet(w, 10, 16) * 4)
    [] role = "off21" -> Num(Sext(Piece(w, 0, 22, 18) + Piece(w, 10, 17, 2), 23))
    [] role = "off26" -> Num(Sext(Piece(w, 0, 27, 18) + Piece(w, 10, 17, 2), 28))
    [] role = "si14" -> Num(SGet(w, 10, 14) * 4)
    [] role \in {"si12", "si16", "si20"} -> Num(SGet(w, low, size))
    [] role = "sa2less1" -> Num(Get(w, 15, 2) + 1)
    [] OTHER -> Num(Get(w, low, size))

\* The bits of the fields, with those between a flag and the register before.
LoongOperandBits(w) == UNION {LoongBits[role] : role \in ToSet(LoongFormat(w))}

-----------------------------------------------------------------------------
(* Aliases                                                                  *)

NoReg == X(0)
LoongSwapped ==
  [bgt |-> "blt", ble |-> "bge", bgtu |-> "bltu", bleu |-> "bgeu"]
Counter == ("rdcntvl.w" :> "rdtimel.w") @@ ("rdcntvh.w" :> "rdtimeh.w")
FcmpSwapped ==
  ("fcmp.sgt.s" :> "fcmp.slt.s") @@ ("fcmp.sge.s" :> "fcmp.sle.s")
  @@ ("fcmp.cugt.s" :> "fcmp.cult.s") @@ ("fcmp.cuge.s" :> "fcmp.cule.s")
  @@ ("fcmp.sgt.d" :> "fcmp.slt.d") @@ ("fcmp.sge.d" :> "fcmp.sle.d")
  @@ ("fcmp.cugt.d" :> "fcmp.cult.d") @@ ("fcmp.cuge.d" :> "fcmp.cule.d")
LoongAliases ==
  {"nop", "ret", "move", "jr", "ud", "rdcntid.w", "bltz", "bgez", "bgtz", "blez", "la.local",
   "la.pcrel", "call36", "call", "tail36", "tail"}
  \cup DOMAIN LoongSwapped \cup DOMAIN Counter \cup DOMAIN FcmpSwapped
LoongScratch == {"st.b", "st.h", "st.w", "st.d"}
LoongFloatAccesses == {"fld.s", "fst.s", "fld.d", "fst.d"}
LoongLoads == {"ld.b", "ld.h", "ld.w", "ld.d", "ld.bu", "ld.hu", "ld.wu"}

\* A label in place of base and offset: the page of the label in a register
\* that keeps it, and is not the one stored.
LoongFar(name, o) ==
  LET n == Len(o)
      keeps(r) == r.kind = "x" /\ r # NoReg
  IN
  CASE name \in LoongLoads /\ n = 2 /\ IsLabel(o[2]) /\ keeps(o[1]) ->
         FarInst(name, <<o[1], o[1], Num(0)>>)
    [] name \in LoongScratch /\ n = 3 /\ IsLabel(o[2]) /\ keeps(o[3]) /\ o[1] # o[3] ->
         FarInst(name, <<o[1], o[3], Num(0)>>)
    [] name \in LoongFloatAccesses /\ n = 3 /\ IsLabel(o[2]) /\ keeps(o[3]) ->
         FarInst(name, <<o[1], o[3], Num(0)>>)
    [] name \in {"la.local", "la.pcrel"} /\ n = 2 /\ IsLabel(o[2]) ->
         FarInst("addi.d", <<o[1], o[1], Num(0)>>)
    [] name \in {"call36", "call"} /\ n = 1 /\ IsLabel(o[1]) ->
         FarInst("jirl", <<X(1), X(1), Num(0)>>)
    [] name \in {"tail36", "tail"} /\ n = 2 /\ IsLabel(o[2]) /\ keeps(o[1]) ->
         FarInst("jirl", <<NoReg, o[1], Num(0)>>)
    [] OTHER -> Inst(name, o)

\* In an access a memory operand stands for the base and the offset, or for
\* the base and the index.
SpreadOut(w, o) ==
  IF Len(o) # 2 THEN o
  ELSE LET m == o[2] IN
       CASE From(w, \h2000, \h2bff) /\ m.kind = "mem" -> <<o[1], X(m.base), Num(m.disp)>>
         [] From(w, \h3800, \h383f) /\ m.kind = "indexed" -> <<o[1], X(m.base), X(m.index)>>
         [] OTHER -> o
\* Where the base stands alone, a memory operand without an offset does.
BareBase(name, o, i) ==
  IF Len(o) = 3 /\ o[i].kind = "mem" /\ o[i].disp = 0
  THEN Inst(name, [o EXCEPT ![i] = X(@.base)]) ELSE Inst(name, o)

LoongAlias(name, o) ==
  LET n == Len(o) IN
  CASE name = "nop" /\ n = 0 -> Inst("andi", <<NoReg, NoReg, Num(0)>>)
    [] name = "ret" /\ n = 0 -> Inst("jirl", <<NoReg, X(1), Num(0)>>)
    [] name = "move" /\ n = 2 -> Inst("or", <<o[1], o[2], NoReg>>)
    [] name = "jr" /\ n = 1 -> Inst("jirl", <<NoReg, o[1], Num(0)>>)
    [] name = "ud" /\ n = 1 /\ o[1].kind = "int" /\ Inside(o[1].value, 0, 31) ->
         Inst("amswap.w", <<X(o[1].value), X(1), X(o[1].value)>>)
    [] name \in DOMAIN Counter /\ n = 1 -> Inst(Counter[name], <<o[1], NoReg>>)
    [] name = "rdcntid.w" /\ n = 1 -> Inst("rdtimel.w", <<NoReg, o[1]>>)
    [] name \in DOMAIN LoongSwapped /\ n = 3 -> Inst(LoongSwapped[name], <<o[2], o[1], o[3]>>)
    [] name \in {"bltz", "bgez"} /\ n = 2 ->
         Inst(IF name = "bltz" THEN "blt" ELSE "bge", <<o[1], NoReg, o[2]>>)
    [] name \in {"bgtz", "blez"} /\ n = 2 ->
         Inst(IF name = "bgtz" THEN "blt" ELSE "bge", <<NoReg, o[1], o[2]>>)
    [] name \in DOMAIN FcmpSwapped /\ n = 3 -> Inst(FcmpSwapped[name], <<o[1], o[3], o[2]>>)
    [] OTHER -> LoongFar(name, o)

\* The instructions of the machine.
LoongMachine ==
  {r \in Plain : r[1] \notin LoongAliases /\ r[2].word \cap LoongOperandBits(r[2].word) = {}}
LoongWordOf == WordsOf(LoongMachine)
LoongNamesOf == NamesOf(LoongWordOf)

-----------------------------------------------------------------------------
(* What was asked for and what the processor reads                          *)

\* The bytes of an access: from the bits that tell its width.
LoongSize(w) ==
  CASE From(w, \h2800, \h2abf) -> 2^Get(w, 22, 2)
    [] From(w, \h2b00, \h2bff) -> IF 23 \in w THEN 8 ELSE 4
    [] From(w, \h3830, \h383f) -> IF 18 \in w THEN 8 ELSE 4
    [] From(w, \h3800, \h382b) -> 2^Get(w, 18, 2)
    [] From(w, \h2000, \h27ff) -> IF 25 \in w THEN 8 ELSE 4
    [] From(w, \h3874, \h3877) \/ From(w, \h3860, \h3871) -> IF 15 \in w THEN 8 ELSE 4
    [] From(w, \h3878, \h387f) -> 2^Get(w, 15, 2)
    [] OTHER -> 0
LoongSizesMatch(w, ops) ==
  \A i \in DOMAIN ops :
    ops[i].kind \in {"mem", "indexed"} => ops[i].size = 0 \/ LoongSize(w) \in {0, ops[i].size}

LoongAsRead(role, q) ==
  IF IsLabel(q) THEN (IF role \in LoongBranchRoles \cup {"si20"} THEN Num(0) ELSE Missing) ELSE q
LoongHolds(role, q) ==
  LET n == Cardinality(LoongBits[role]) IN
  CASE role \in DOMAIN LoongClass -> q.kind = LoongClass[role]
    [] role \in {"si12", "si16", "si20"} -> q.kind = "int" /\ Inside(q.value, -(2^(n - 1)), 2^(n - 1) - 1)
    [] role \in LoongBranchRoles \cup {"si14"} ->
         q.kind = "int" /\ q.value % 4 = 0 /\ Inside(q.value, -(2^(n + 1)), 2^(n + 1) - 1)
    [] role = "sa2less1" -> q.kind = "int" /\ Inside(q.value, 1, 4)
    [] OTHER -> q.kind = "int" /\ InField(q.value, n)

\* The manual leaves these undefined: an atomic whose old value goes to a
\* register it reads, and a field whose lowest bit is above its highest.
IsUndefined(name, format, ops) ==
  \/ format = <<"rd", "rk", "rj">> /\ name # "amswap.w"
     /\ ops[1] # NoReg /\ ops[1] \in {ops[2], ops[3]}
  \/ format # <<>> /\ Last(format) \in {"lsb5", "lsb6"} /\ ops[3].value < ops[4].value

\* The operands of the machine's instruction, whose word is w.
LoongOpsOf(name, w, o) ==
  CASE LoongFormat(w) = <<"rd", "rk", "rj">> -> BareBase(name, o, 3)
    [] Inside(Upper(w), \h3874, \h387f) -> BareBase(name, o, 2)
    [] OTHER -> Inst(name, SpreadOut(w, o))
LoongInst(a, inst, far, w, format) ==
  LET labels == {i \in DOMAIN inst.ops : IsLabel(inst.ops[i])}
      read == [i \in DOMAIN inst.ops |-> LoongAsRead(format[i], inst.ops[i])]
      \* Only branches and pcaddi count from a label; others take the number.
      jumps == From(w, \h4000, \h4bff) \/ From(w, \h5000, \h6fff)
      offset == IF inst.name = "pcaddi" THEN a.to \div 4 ELSE a.to
  IN
  IF /\ Len(inst.ops) = Len(format)
     /\ labels # {} => jumps \/ inst.name = "pcaddi"
     /\ jumps => labels # {}
     /\ \A i \in DOMAIN format : LoongHolds(format[i], read[i])
     /\ ~IsUndefined(inst.name, format, read)
     /\ LoongSizesMatch(w, a.ops)
  THEN [name |-> inst.name, far |-> far,
        ops |-> IF labels # {} THEN LastMoved(read, offset)
                ELSE IF far THEN LastMoved(read, a.to) ELSE read]
  ELSE NoWords
LoongWithWord(a, alias, w) ==
  LoongInst(a, LoongOpsOf(alias.name, w, alias.ops), alias.far, w, LoongFormat(w))
LoongUnaliased(a, alias) ==
  IF alias.name \notin DOMAIN LoongWordOf THEN NoWords
  ELSE LoongWithWord(a, alias, LoongWordOf[alias.name])
LoongMeaning(a) == LoongUnaliased(a, LoongAlias(a.name, a.ops))

LoongReads(w) ==
  LET format == LoongFormat(w)
  IN  [names |-> Lookup(LoongNamesOf, w \ LoongOperandBits(w)),
       ops |-> [i \in DOMAIN format |-> LoongOperand(w, format[i])]]
\* pcalau12i clears the low part of the place, pcaddu18i does not.
LoongReadsFar(words) ==
  LET second == LoongReads(words[2])
      high == SGet(words[1], 5, 20)
  IN  IF LoongReads(words[1]).names = {"pcaddu18i"}
      THEN [second EXCEPT !.ops = LastMoved(@, high * 262144)]
      ELSE [second EXCEPT !.ops = LastMoved(@, (high * 4096) - (Place % 4096))]
BuildsAddress(word, name, base) ==
  /\ LoongReads(word).names = {IF name = "jirl" THEN "pcaddu18i" ELSE "pcalau12i"}
  /\ LoongOperand(word, "rd") = base

LoongReadAs(words, m) ==
  /\ Len(words) = IF m.far THEN 2 ELSE 1
  /\ m.far => BuildsAddress(words[1], m.name, m.ops[2])
  /\ (IF m.far THEN LoongReadsFar(words) ELSE LoongReads(words[1]))
       = [names |-> {m.name}, ops |-> m.ops]
LoongAgrees(m) ==
  /\ (emitted = NoWords) <=> (m = NoWords)
  /\ emitted # NoWords =>
       /\ emitted.names = LabelNames(asked.ops)
       /\ emitted.patch \in {"none", "linked"} => LoongReadAs(emitted.words, m)

\* As for riscv64: what is encoded is what the processor reads, a mnemonic
\* with its memory operands spread out, and what is refused has no encoding
\* or no defined meaning.  A memory operand reaches only the instructions that
\* have its offset or its index, and of its size.
LoongRead ==
  asked # Nothing /\ asked.arch = "loongarch64" /\ emitted # Nothing =>
    LoongAgrees(LoongMeaning(asked))
=============================================================================
