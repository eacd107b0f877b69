--------------------------- MODULE Riscv64Decode ----------------------------
(***************************************************************************)
(* How a riscv64 processor reads the words of module Riscv64: the formats of *)
(* the major opcodes, where a format has its registers and the pieces of its *)
(* immediates, and what the manual's pseudo instructions stand for.          *)
(***************************************************************************)
EXTENDS Riscv64

-----------------------------------------------------------------------------
(* Formats                                                                  *)

\* The operands of word w, in the order in which assembly writes them.
FpFormat(w) ==
  LET funct5 == Get(w, 27, 5) IN
  CASE funct5 \in {0, 1, 2, 3} -> <<"frd", "frs1", "frs2", "rm">>
    [] funct5 \in {4, 5} -> <<"frd", "frs1", "frs2">>
    [] funct5 \in {8, 11} -> <<"frd", "frs1", "rm">>
    [] funct5 = 20 -> <<"rd", "frs1", "frs2">>
    [] funct5 = 24 -> <<"rd", "frs1", "rm">>
    [] funct5 = 26 -> <<"frd", "rs1", "rm">>
    [] funct5 = 28 -> <<"rd", "frs1">>
    [] funct5 = 30 -> <<"frd", "rs1">>
\* Shifts, by an amount of 6 bits or, of words, of 5, and the bit
\* manipulations that have no second operand.
ShiftFormat(w) ==
  LET unary == \/ Get(w, 12, 3) = 1 /\ Get(w, 25, 7) = \h30
               \/ Get(w, 12, 3) = 5 /\ Get(w, 20, 12) \in {\h287, \h6b8}
  IN  IF unary THEN <<"rd", "rs1">>
      ELSE IF Get(w, 0, 7) = \h13 \/ Get(w, 26, 6) = 2 THEN <<"rd", "rs1", "shamt6">>
      ELSE <<"rd", "rs1", "shamt5">>
RiscvFormat(w) ==
  LET opcode == Get(w, 0, 7)
      funct3 == Get(w, 12, 3)
  IN
  CASE opcode = \h03 -> <<"rd", "mem">>
    [] opcode = \h07 -> <<"frd", "mem">>
    [] opcode = \h23 -> <<"rs2", "smem">>
    [] opcode = \h27 -> <<"frs2", "smem">>
    [] opcode = \h13 /\ funct3 \notin {1, 5} -> <<"rd", "rs1", "imm">>
    [] opcode = \h1b /\ funct3 = 0 -> <<"rd", "rs1", "imm">>
    [] opcode \in {\h13, \h1b} /\ funct3 \in {1, 5} -> ShiftFormat(w)
    [] opcode \in {\h33, \h3b} ->
         IF opcode = \h3b /\ Get(w, 25, 7) = 4 /\ funct3 = 4 THEN <<"rd", "rs1">>
         ELSE <<"rd", "rs1", "rs2">>
    [] opcode \in {\h37, \h17} -> <<"rd", "upper">>
    [] opcode = \h6f -> <<"rd", "joffset">>
    [] opcode = \h67 -> <<"rd", "rs1", "imm">>
    [] opcode = \h63 -> <<"rs1", "rs2", "boffset">>
    [] opcode = \h73 -> IF funct3 = 0 THEN <<>>
                        ELSE <<"rd", "csr", IF funct3 < 4 THEN "rs1" ELSE "zimm">>
    [] opcode = \h0f -> IF funct3 = 0 /\ Get(w, 28, 4) = 0 THEN <<"pred", "succ">> ELSE <<>>
    [] opcode = \h2f -> IF Get(w, 27, 5) = 2 THEN <<"rd", "amem">> ELSE <<"rd", "rs2", "amem">>
    [] opcode = \h53 -> FpFormat(w)
    [] opcode \in {\h43, \h47, \h4b, \h4f} -> <<"frd", "frs1", "frs2", "frs3", "rm">>

\* The bits of an operand.
RiscvBits ==
  [rd |-> 7 .. 11, rs1 |-> 15 .. 19, rs2 |-> 20 .. 24, frd |-> 7 .. 11, frs1 |-> 15 .. 19,
   frs2 |-> 20 .. 24, frs3 |-> 27 .. 31, imm |-> 20 .. 31, mem |-> 15 .. 31,
   smem |-> (7 .. 11) \cup (15 .. 19) \cup (25 .. 31), amem |-> 15 .. 19,
   shamt6 |-> 20 .. 25, shamt5 |-> 20 .. 24, upper |-> 12 .. 31, joffset |-> 12 .. 31,
   boffset |-> (7 .. 11) \cup (25 .. 31), csr |-> 20 .. 31, zimm |-> 15 .. 19,
   pred |-> 24 .. 27, succ |-> 20 .. 23, rm |-> 12 .. 14]
IntRoles == {"rd", "rs1", "rs2"}
FloatRoles == {"frd", "frs1", "frs2", "frs3"}

RiscvOperand(w, role) ==
  CASE role \in IntRoles -> X(Get(w, Min(RiscvBits[role]), 5))
    [] role \in FloatRoles -> F(Get(w, Min(RiscvBits[role]), 5))
    [] role = "imm" -> Num(SGet(w, 20, 12))
    [] role = "mem" -> MemAt(Get(w, 15, 5), SGet(w, 20, 12), 0)
    [] role = "smem" ->
         MemAt(Get(w, 15, 5), Sext(Piece(w, 25, 11, 5) + Piece(w, 7, 4, 0), 12), 0)
    [] role = "amem" -> MemAt(Get(w, 15, 5), 0, 0)
    [] role = "boffset" ->
         Num(Sext(Piece(w, 31, 12, 12) + Piece(w, 7, 11, 11) + Piece(w, 25, 10, 5)
                  + Piece(w, 8, 4, 1), 13))
    [] role = "joffset" ->
         Num(Sext(Piece(w, 31, 20, 20) + Piece(w, 12, 19, 12) + Piece(w, 20, 11, 11)
                  + Piece(w, 21, 10, 1), 21))
    [] OTHER -> Num(Get(w, Min(RiscvBits[role]), Cardinality(RiscvBits[role])))

RiscvOperandBits(w) == UNION {RiscvBits[role] : role \in ToSet(RiscvFormat(w))}

-----------------------------------------------------------------------------
(* Pseudo instructions: a name and operands of the machine                  *)

Zero == X(0)
Ra == X(1)
WithZero == ("seqz" :> "sltiu") @@ ("mv" :> "addi") @@ ("sext.w" :> "addiw")
            @@ ("not" :> "xori") @@ ("zext.b" :> "andi")
UnaryImm == [mv |-> 0, seqz |-> 1, not |-> -1] @@ ("sext.w" :> 0) @@ ("zext.b" :> 255)
FromZero == [neg |-> "sub", negw |-> "subw", snez |-> "sltu", sgtz |-> "slt"]
RiscvSwapped == [bgt |-> "blt", ble |-> "bge", bgtu |-> "bltu", bleu |-> "bgeu"]
Compared == [sgt |-> "slt", sgtu |-> "sltu"] @@ ("fgt.s" :> "flt.s") @@ ("fgt.d" :> "flt.d")
            @@ ("fge.s" :> "fle.s") @@ ("fge.d" :> "fle.d")
ToZero == [beqz |-> "beq", bnez |-> "bne", bltz |-> "blt", bgez |-> "bge"]
FromZeroTo == [bgtz |-> "blt", blez |-> "bge"]
SignCopy == ("fmv.s" :> "fsgnj.s") @@ ("fmv.d" :> "fsgnj.d") @@ ("fneg.s" :> "fsgnjn.s")
            @@ ("fneg.d" :> "fsgnjn.d") @@ ("fabs.s" :> "fsgnjx.s") @@ ("fabs.d" :> "fsgnjx.d")
CsrRead == [frcsr |-> 3, frrm |-> 2, frflags |-> 1,
            rdcycle |-> \hc00, rdtime |-> \hc01, rdinstret |-> \hc02]
CsrSwap == [fscsr |-> 3, fsrm |-> 2, fsflags |-> 1]
CsrSwapImm == [fsrmi |-> 2, fsflagsi |-> 1]
CsrWrite == [csrw |-> "csrrw", csrs |-> "csrrs", csrc |-> "csrrc",
             csrwi |-> "csrrwi", csrsi |-> "csrrsi", csrci |-> "csrrci"]
Renamed == ("fmv.x.s" :> "fmv.x.w") @@ ("fmv.s.x" :> "fmv.w.x")
RiscvConstant ==
  [nop |-> Inst("addi", <<Zero, Zero, Num(0)>>), ret |-> Inst("jalr", <<Zero, Ra, Num(0)>>),
   fence |-> Inst("fence", <<Num(15), Num(15)>>),
   unimp |-> Inst("csrrw", <<Zero, Num(\hc00), Zero>>)]
IntLoads == {"lb", "lh", "lw", "ld", "lbu", "lhu", "lwu"}
ScratchAccesses == {"sb", "sh", "sw", "sd", "flw", "fld", "fsw", "fsd"}

Jump(name, o) ==
  LET n == Len(o) IN
  CASE name = "j" /\ n = 1 -> Inst("jal", <<Zero, o[1]>>)
    [] name = "jal" /\ n = 1 -> Inst("jal", <<Ra, o[1]>>)
    [] name = "jr" /\ n = 1 -> Inst("jalr", <<Zero, o[1], Num(0)>>)
    [] name = "jr" /\ n = 2 -> Inst("jalr", <<Zero, o[1], o[2]>>)
    [] name = "jalr" /\ n = 1 -> Inst("jalr", <<Ra, o[1], Num(0)>>)
    [] name = "jalr" /\ n = 2 ->
         IF o[2].kind = "int" THEN Inst("jalr", <<Ra, o[1], o[2]>>)
         ELSE IF o[2].kind = "mem" /\ o[2].size = 0
         THEN Inst("jalr", <<o[1], X(o[2].base), Num(o[2].disp)>>)
         ELSE Inst("jalr", <<o[1], o[2], Num(0)>>)
    [] OTHER -> Inst(name, o)

\* A label in place of memory: the address needs a register that keeps it,
\* for a store another than the one stored.
RiscvFar(name, o) ==
  LET n == Len(o)
      holds(r) == r.kind = "x" /\ r # Zero
  IN
  CASE name \in IntLoads /\ n = 2 /\ IsLabel(o[2]) /\ holds(o[1]) ->
         FarInst(name, <<o[1], MemAt(o[1].code, 0, 0)>>)
    [] name \in ScratchAccesses /\ n = 3 /\ IsLabel(o[2]) /\ holds(o[3]) /\ o[3] # o[1] ->
         FarInst(name, <<o[1], MemAt(o[3].code, 0, 0)>>)
    [] name = "la" /\ n = 2 /\ IsLabel(o[2]) /\ holds(o[1]) ->
         FarInst("addi", <<o[1], o[1], Num(0)>>)
    [] name = "lla" /\ n = 2 /\ IsLabel(o[2]) -> FarInst("addi", <<o[1], o[1], Num(0)>>)
    [] name = "call" /\ n = 1 /\ IsLabel(o[1]) -> FarInst("jalr", <<Ra, Ra, Num(0)>>)
    [] name = "tail" /\ n = 1 /\ IsLabel(o[1]) -> FarInst("jalr", <<Zero, X(6), Num(0)>>)
    [] OTHER -> Inst(name, o)

RiscvPseudo(name, o) ==
  LET n == Len(o) IN
  CASE name \in DOMAIN RiscvConstant /\ n = 0 -> RiscvConstant[name]
    [] name \in DOMAIN WithZero /\ n = 2 -> Inst(WithZero[name], <<o[1], o[2], Num(UnaryImm[name])>>)
    [] name = "zext.w" /\ n = 2 -> Inst("add.uw", <<o[1], o[2], Zero>>)
    [] name = "sltz" /\ n = 2 -> Inst("slt", <<o[1], o[2], Zero>>)
    [] name \in DOMAIN FromZero /\ n = 2 -> Inst(FromZero[name], <<o[1], Zero, o[2]>>)
    [] name \in DOMAIN Compared /\ n = 3 -> Inst(Compared[name], <<o[1], o[3], o[2]>>)
    [] name \in DOMAIN RiscvSwapped /\ n = 3 -> Inst(RiscvSwapped[name], <<o[2], o[1], o[3]>>)
    [] name \in DOMAIN ToZero /\ n = 2 -> Inst(ToZero[name], <<o[1], Zero, o[2]>>)
    [] name \in DOMAIN FromZeroTo /\ n = 2 -> Inst(FromZeroTo[name], <<Zero, o[1], o[2]>>)
    [] name \in DOMAIN SignCopy /\ n = 2 -> Inst(SignCopy[name], <<o[1], o[2], o[2]>>)
    [] name \in DOMAIN CsrRead /\ n = 1 -> Inst("csrrs", <<o[1], Num(CsrRead[name]), Zero>>)
    [] name = "csrr" /\ n = 2 -> Inst("csrrs", <<o[1], o[2], Zero>>)
    [] name \in DOMAIN CsrSwap /\ n \in {1, 2} ->
         Inst("csrrw", <<IF n = 2 THEN o[1] ELSE Zero, Num(CsrSwap[name]), Last(o)>>)
    [] name \in DOMAIN CsrSwapImm /\ n \in {1, 2} ->
         Inst("csrrwi", <<IF n = 2 THEN o[1] ELSE Zero, Num(CsrSwapImm[name]), Last(o)>>)
    [] name \in DOMAIN CsrWrite /\ n = 2 -> Inst(CsrWrite[name], <<Zero, o[1], o[2]>>)
    [] name \in DOMAIN Renamed -> Inst(Renamed[name], o)
    [] name \in {"j", "jal", "jr", "jalr"} -> Jump(name, o)
    [] OTHER -> RiscvFar(name, o)

\* The machine's own instructions: the others stand for one with operands.
RiscvPseudoNames ==
  UNION {DOMAIN WithZero, DOMAIN FromZero, DOMAIN Compared, DOMAIN RiscvSwapped, DOMAIN ToZero,
         DOMAIN FromZeroTo, DOMAIN SignCopy, DOMAIN CsrRead, DOMAIN CsrSwap, DOMAIN CsrSwapImm,
         DOMAIN CsrWrite, DOMAIN Renamed}
  \cup {"nop", "ret", "unimp", "zext.w", "sltz", "csrr", "j", "jr", "la", "lla", "call", "tail"}
RiscvMachineRows ==
  {r \in RiscvMapOp \cup {<<"jalr", Jalr2[1]>>} :
     r[1] \notin RiscvPseudoNames /\ r[2].word \cap RiscvOperandBits(r[2].word) = {}}
RiscvWordOf == WordsOf(RiscvMachineRows)
RiscvNamesOf == NamesOf(RiscvWordOf)

-----------------------------------------------------------------------------
(* What was asked for and what the processor reads                          *)

\* An operand as the processor reads it, if the field of its role holds it.
RiscvAsRead(role, q) ==
  IF role \in {"boffset", "joffset"} THEN IF IsLabel(q) THEN Num(0) ELSE Missing
  ELSE IF role = "csr" /\ q.kind = "str" /\ q.text \in DOMAIN MapCsr THEN Num(MapCsr[q.text])
  ELSE IF role \in {"pred", "succ"} /\ \E f \in FenceSets : q.kind = "str" /\ f[1] = q.text
  THEN Num((CHOOSE f \in FenceSets : f[1] = q.text)[2])
  ELSE IF role = "upper" /\ q.kind = "int" /\ Inside(q.value, -(2^19), -1) THEN Num(q.value + 2^20)
  ELSE IF q.kind = "mem" THEN [q EXCEPT !.size = 0]
  ELSE q
RiscvHolds(role, q) ==
  CASE role \in IntRoles -> q.kind = "x"
    [] role \in FloatRoles -> q.kind = "f"
    [] role \in {"mem", "smem"} -> q.kind = "mem" /\ Inside(q.disp, -2048, 2047)
    [] role = "amem" -> q.kind = "mem" /\ q.disp = 0
    [] role = "imm" -> q.kind = "int" /\ Inside(q.value, -2048, 2047)
    [] role \in {"boffset", "joffset"} -> q = Num(0)
    [] OTHER -> q.kind = "int" /\ InField(q.value, Cardinality(RiscvBits[role]))

\* The bytes an access reads or writes.
AccessSize ==
  ("lb" :> 1) @@ ("lbu" :> 1) @@ ("sb" :> 1) @@ ("lh" :> 2) @@ ("lhu" :> 2) @@ ("sh" :> 2)
  @@ ("lw" :> 4) @@ ("lwu" :> 4) @@ ("sw" :> 4) @@ ("flw" :> 4) @@ ("fsw" :> 4)
  @@ ("ld" :> 8) @@ ("sd" :> 8) @@ ("fld" :> 8) @@ ("fsd" :> 8)
  @@ [name \in {r[1] : r \in {s \in Atomics : Bit(Get(s[2].word, 12, 3), 0) = 0}} |-> 4]
  @@ [name \in {r[1] : r \in {s \in Atomics : Bit(Get(s[2].word, 12, 3), 0) = 1}} |-> 8]
RiscvSizes(name, ops) ==
  \A i \in DOMAIN ops :
    /\ ops[i].kind = "mem"
    /\ ops[i].size # 0
    => name \in DOMAIN AccessSize /\ ops[i].size = AccessSize[name]

RoundingMode(a) == Num(MapRm[IF a.rm = "none" THEN "dyn" ELSE a.rm])
\* The operands of the machine's instruction, with a rounding mode where its
\* format has one; and the instruction, if its fields hold them.
RiscvOpsOf(a, inst, roles) ==
  LET rounds == "rm" \in ToSet(roles) /\ a.name \in RoundingMnemonics
      exact == "rm" \in ToSet(roles) /\ a.name \notin RoundingMnemonics
  IN  IF rounds /\ (a.rm = "none" \/ a.rm \in DOMAIN MapRm)
      THEN Append(inst.ops, RoundingMode(a))
      ELSE IF exact THEN Append(inst.ops, Num(0)) ELSE inst.ops
RiscvInst(a, inst, roles, ops) ==
  LET read == [i \in DOMAIN ops |-> RiscvAsRead(roles[i], ops[i])]
      labelled == inst.far \/ \E i \in DOMAIN roles : roles[i] \in {"boffset", "joffset"}
  IN
  IF /\ Len(ops) = Len(roles)
     /\ (a.rm = "none" \/ a.name \in RoundingMnemonics)
     /\ \A i \in DOMAIN ops : RiscvHolds(roles[i], read[i])
     /\ RiscvSizes(inst.name, a.ops)
  THEN [name |-> inst.name, far |-> inst.far,
        ops |-> IF labelled THEN LastMoved(read, a.to) ELSE read]
  ELSE NoWords
RiscvTyped(a, inst, roles) == RiscvInst(a, inst, roles, RiscvOpsOf(a, inst, roles))
RiscvExpanded(a, inst) ==
  IF inst.name \notin DOMAIN RiscvWordOf THEN NoWords
  ELSE RiscvTyped(a, inst, RiscvFormat(RiscvWordOf[inst.name]))
\* The instruction that was asked for, as the processor reads it; NoWords if
\* there is none.
RiscvMeaning(a) == RiscvExpanded(a, RiscvPseudo(a.name, a.ops))

\* The processor's reading of one word, and of auipc and the word after it.
RiscvReads(w) ==
  LET roles == RiscvFormat(w)
  IN  [names |-> Lookup(RiscvNamesOf, w \ RiscvOperandBits(w)),
       ops |-> [i \in DOMAIN roles |-> RiscvOperand(w, roles[i])]]
RiscvReadsFar(words) ==
  LET second == RiscvReads(words[2])
  IN  [second EXCEPT !.ops = LastMoved(@, SGet(words[1], 12, 20) * 4096)]
AddressRegister(m) == IF Last(m.ops).kind = "mem" THEN Last(m.ops).base ELSE m.ops[2].code
IsAuipc(w, rd) == RiscvReads(w).names = {"auipc"} /\ RiscvOperand(w, "rd") = X(rd)

RiscvReadAs(words, m) ==
  /\ Len(words) = IF m.far THEN 2 ELSE 1
  /\ m.far => IsAuipc(words[1], AddressRegister(m))
  /\ (IF m.far THEN RiscvReadsFar(words) ELSE RiscvReads(words[1]))
       = [names |-> {m.name}, ops |-> m.ops]
RiscvAgrees(m) ==
  /\ (emitted = NoWords) <=> (m = NoWords)
  /\ emitted # NoWords =>
       /\ emitted.names = LabelNames(asked.ops) \ (DOMAIN MapCsr \cup {f[1] : f \in FenceSets})
       /\ emitted.patch \in {"none", "linked"} => RiscvReadAs(emitted.words, m)

\* An instruction that has an encoding is encoded, and the processor reads
\* from the words, once its label is linked, the very instruction that was
\* asked for: no two mnemonics share an encoding, an alternative that is tried
\* first takes no operands meant for a later one, a pseudo instruction puts its
\* registers where its expansion has them, a pair builds the address in a
\* register that keeps it, and the pieces of an offset are stored where the
\* format has them.  One that has none is refused, and a label is made for a
\* name only where it is a label operand.
RiscvRead ==
  asked # Nothing /\ asked.arch = "riscv64" /\ emitted # Nothing => RiscvAgrees(RiscvMeaning(asked))
=============================================================================
