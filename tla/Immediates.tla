----------------------------- MODULE Immediates -----------------------------
(***************************************************************************)
(* Constants in instructions: the words that riscv64's and loongarch64's li *)
(* expand to, and aarch64's logical immediates (li_words and imm13 of the   *)
(* encoders).  The widths of the registers and of the parts are parameters; *)
(* a word is its operation and its immediate, the registers are left out.   *)
(***************************************************************************)
EXTENDS Words, Sequences, FiniteSets

CONSTANTS
  LowBits, WordBits, RegBits,  \* riscv64: 12, 32, 64
  Parts,                       \* loongarch64: <<12, 20, 20, 12>>, low to high
  MaskBits,                    \* aarch64: 64, a power of two
  LogMaskBits,                 \* its logarithm, 6
  NoOperand, NotDone,
  NoCode                       \* EncodeError

ASSUME ImmediateAssumption ==
  /\ {LowBits, WordBits, RegBits} \subseteq Nat
  /\ 0 < LowBits /\ LowBits < WordBits /\ WordBits < RegBits
  /\ Len(Parts) = 4 /\ \A i \in 1 .. 4 : Parts[i] \in Nat /\ Parts[i] > 1
  /\ {RegBits, Parts[1] + Parts[2] + Parts[3] + Parts[4], MaskBits} \subseteq 0 .. Widest
  /\ LogMaskBits \in Nat /\ 1 < LogMaskBits
  /\ MaskBits \in Nat /\ LogMaskBits < MaskBits /\ MaskBits = 2^LogMaskBits
  /\ NoCode \notin [n : {0, 1}, immr : Nat, imms : Nat]

\* loongarch64: the width of a word, of a register, and what is below part k.
LowHalf == Parts[1] + Parts[2]
FullWidth == LowHalf + Parts[3] + Parts[4]
Above(k) == IF k = 1 THEN 0 ELSE IF k = 2 THEN Parts[1]
            ELSE IF k = 3 THEN LowHalf ELSE LowHalf + Parts[3]

VARIABLES
  operand,     \* what is encoded
  code         \* the words or fields, NoCode, or NotDone

immVars == <<operand, code>>

Word(op, imm) == [op |-> op, imm |-> imm]

-----------------------------------------------------------------------------
(* riscv64                                                                  *)

\* The low part, which the next instruction adds sign extended.
\* Faulty: zero extended.
LowerUnsigned(v) == Low(v, LowBits)
Lower(v) == Sext(v, LowBits)

Addi(n) == Word("addi", Low(n, LowBits))

\* What is left above it, and whether v is the sign extension of a word.
Upper(v) == v - Lower(v)
RegisterValues == -(2^(RegBits - 1)) .. 2^(RegBits - 1) - 1
InWord(v) == -(2^(WordBits - 1)) <= v /\ v < 2^(WordBits - 1)

LoadWord(v) ==
  (IF Upper(v) # 0 THEN <<Word("lui", Low(Upper(v) \div 2^LowBits, WordBits - LowBits))>>
                   ELSE <<>>)
  \o (IF Lower(v) # 0 \/ Upper(v) = 0 THEN <<Word("addiw", Low(Lower(v), LowBits))>> ELSE <<>>)

\* Beyond the word the constant above the low part is loaded without its
\* trailing zeros and shifted left.
WrappedUpper(v) == Sext(Upper(v), RegBits)
ShiftCount(u) == CHOOSE s \in LowBits .. RegBits - 1 :
              Bit(u, s) = 1 /\ \A r \in LowBits .. s - 1 : Bit(u, r) = 0
LoadConst[v \in RegisterValues] ==
  IF InWord(v) THEN LoadWord(v)
  ELSE LoadConst[WrappedUpper(v) \div 2^ShiftCount(WrappedUpper(v))]
       \o <<Word("slli", ShiftCount(WrappedUpper(v)))>>
       \o (IF Lower(v) # 0 THEN <<Addi(Lower(v))>> ELSE <<>>)

LiRiscv(value) ==
  LET v == Sext(value, RegBits)
  IN  IF -(2^(LowBits - 1)) <= v /\ v < 2^(LowBits - 1) THEN <<Addi(v)>> ELSE LoadConst[v]

-----------------------------------------------------------------------------
(* loongarch64                                                              *)

\* li.d, or li.w of the lower half sign extended.
Split(value, narrow) ==
  LET v == IF narrow THEN Sext(value, LowHalf) ELSE value
  IN  [k \in 1 .. 4 |-> Low(v \div 2^Above(k), Parts[k])]

\* Part k is the sign extension of the part below it.
\* Faulty: zero is always taken to be.
ExtendsZero(p, k) == p[k] = 0
Extends(p, k) ==
  LET negative == k > 1 /\ p[k - 1] >= 2^(Parts[k - 1] - 1)
  IN  p[k] = IF negative THEN 2^Parts[k] - 1 ELSE 0

\* The words that load the lower half, sign extended.
LowerWords(p) ==
  IF p[2] = 0 /\ p[1] # 0 THEN <<Word("ori_zero", p[1])>>
  ELSE IF Extends(p, 2) /\ Extends(p, 1) THEN <<Word("or_zero", 0)>>
  ELSE IF Extends(p, 2) THEN <<Word("addi_w", p[1])>>
  ELSE IF Extends(p, 1) THEN <<Word("lu12i_w", p[2])>>
  ELSE <<Word("lu12i_w", p[2]), Word("ori", p[1])>>

LiLoongarch(value, narrow) ==
  LET p == Split(value, narrow) IN
  IF Extends(p, 1) /\ Extends(p, 2) /\ Extends(p, 3) /\ ~Extends(p, 4)
  THEN <<Word("lu52i_d_zero", p[4])>>
  ELSE LowerWords(p) \o (IF Extends(p, 3) THEN <<>> ELSE <<Word("lu32i_d", p[3])>>)
                     \o (IF Extends(p, 4) THEN <<>> ELSE <<Word("lu52i_d", p[4])>>)

-----------------------------------------------------------------------------
(* aarch64: a repeated element of e bits, of which k adjacent ones, rotated *)

Repeat(elt, e) == elt * ((2^MaskBits - 1) \div (2^e - 1))
RotateRight(x, r, e) == (x \div 2^r) + (x % 2^r) * 2^(e - r)
Ones(x) == Cardinality({i \in 0 .. MaskBits - 1 : Bit(x, i) = 1})

\* The pattern of n, with the lower half twice for a w register.
MaskPattern(n, r64) ==
  IF r64 THEN Low(n, MaskBits) ELSE Repeat(Low(n, MaskBits \div 2), MaskBits \div 2)
MaskInRange(n, r64) ==
  LET b == IF r64 THEN MaskBits ELSE MaskBits \div 2 IN -(2^(b - 1)) <= n /\ n < 2^b

\* The element is as short as possible.
\* Faulty: no shorter than a nibble.
ElementFromNibble(v) ==
  CHOOSE e \in {2^i : i \in 2 .. LogMaskBits} :
    /\ Repeat(Low(v, e), e) = v
    /\ \A i \in 2 .. LogMaskBits : 2^i < e => Repeat(Low(v, 2^i), 2^i) # v
ElementOf(v) ==
  CHOOSE e \in {2^i : i \in 1 .. LogMaskBits} :
    /\ Repeat(Low(v, e), e) = v
    /\ \A i \in 1 .. LogMaskBits : 2^i < e => Repeat(Low(v, 2^i), 2^i) # v

Imm13(n, r64) ==
  LET v == MaskPattern(n, r64)
      e == ElementOf(v)
      elt == Low(v, e)
      k == Ones(elt)
      turns == {r \in 0 .. e - 1 : RotateRight(2^k - 1, r, e) = elt}
  IN
  IF ~MaskInRange(n, r64) \/ v \in {0, 2^MaskBits - 1} \/ turns = {} THEN NoCode
  ELSE [n |-> IF e = MaskBits THEN 1 ELSE 0,
        immr |-> CHOOSE r \in turns : \A s \in turns : r <= s,
        imms |-> Low(-2 * e, LogMaskBits) + k - 1]

-----------------------------------------------------------------------------
Operands ==
  [isa : {"riscv64"}, value : -(2^(RegBits - 1)) .. 2^RegBits - 1]
  \cup [isa : {"loongarch64"}, value : -(2^(FullWidth - 1)) .. 2^FullWidth - 1,
        narrow : {FALSE}]
  \cup [isa : {"loongarch64"}, value : -(2^(LowHalf - 1)) .. 2^LowHalf - 1,
        narrow : {TRUE}]
  \cup [isa : {"aarch64"}, value : -(2^MaskBits) .. 2^MaskBits, r64 : BOOLEAN]

ImmInit == operand \in Operands /\ code = NotDone

EncodeLi ==
  /\ operand # NoOperand /\ code = NotDone
  /\ \/ operand.isa = "riscv64" /\ code' = LiRiscv(operand.value)
     \/ operand.isa = "loongarch64" /\ code' = LiLoongarch(operand.value, operand.narrow)
  /\ UNCHANGED operand

EncodeMask ==
  /\ operand # NoOperand /\ code = NotDone
  /\ operand.isa = "aarch64"
  /\ code' = Imm13(operand.value, operand.r64)
  /\ UNCHANGED operand

ImmNext == EncodeLi \/ EncodeMask
ImmSpec == ImmInit /\ [][ImmNext]_immVars

-----------------------------------------------------------------------------
(* Correctness: what the processor makes of the code                        *)

\* The register after word w, x being the register before.
StepRiscv(x, w) ==
  CASE w.op = "addi" -> Sext(x + Sext(w.imm, LowBits), RegBits)
    [] w.op = "addiw" -> Sext(x + Sext(w.imm, LowBits), WordBits)
    [] w.op = "lui" -> Sext(w.imm * 2^LowBits, WordBits)
    [] w.op = "slli" -> Sext(x * 2^w.imm, RegBits)

\* The lowest b bits of x below imm.
Insert(imm, x, b) == imm * 2^b + Low(x, b)
StepLoongarch(x, w) ==
  CASE w.op = "ori_zero" -> w.imm
    [] w.op = "or_zero" -> 0
    [] w.op = "addi_w" -> Sext(Sext(w.imm, Parts[1]), LowHalf)
    [] w.op = "lu12i_w" -> Sext(w.imm * 2^Parts[1], LowHalf)
    [] w.op = "ori" -> Insert(x \div 2^Parts[1], w.imm, Parts[1])
    [] w.op = "lu32i_d" -> Insert(Sext(w.imm, Parts[3]), x, LowHalf)
    [] w.op = "lu52i_d" -> Sext(Insert(w.imm, x, LowHalf + Parts[3]), FullWidth)
    [] w.op = "lu52i_d_zero" -> Sext(Insert(w.imm, 0, LowHalf + Parts[3]), FullWidth)

\* What the words leave in a register that was zero.
RegisterAfter(isa, words) ==
  LET after[k \in 0 .. Len(words)] ==
        IF k = 0 THEN 0
        ELSE IF isa = "riscv64" THEN StepRiscv(after[k - 1], words[k])
             ELSE StepLoongarch(after[k - 1], words[k])
  IN  after[Len(words)]

\* The words of li leave the value in the register, every pattern of it,
\* signed or unsigned: each low part is sign extended by the instruction
\* that adds it, and the parts above it make up for that.  A shift is never
\* of the register's width.
LiLoadsValue ==
  operand # NoOperand /\ code # NotDone =>
    /\ operand.isa = "riscv64" =>
         /\ RegisterAfter("riscv64", code) = Sext(operand.value, RegBits)
         /\ \A i \in DOMAIN code : code[i].op = "slli" => code[i].imm \in 1 .. RegBits - 1
    /\ operand.isa = "loongarch64" =>
         RegisterAfter("loongarch64", code) =
           Sext(operand.value, IF operand.narrow THEN LowHalf ELSE FullWidth)

\* What the architecture decodes from N, immr and imms: the highest one of
\* N:NOT(imms) gives the element.
NotImms(i) == MaskBits - 1 - i.imms + i.n * MaskBits
MaskOf(i) ==
  LET len == CHOOSE l \in 0 .. LogMaskBits : 2^l <= NotImms(i) /\ NotImms(i) < 2^(l + 1)
      e == 2^len
  IN  Repeat(RotateRight(2^((i.imms % e) + 1) - 1, i.immr % e, e), e)
Reserved(i) ==
  \/ NotImms(i) < 2
  \/ \E l \in 1 .. LogMaskBits :
       2^l <= NotImms(i) /\ NotImms(i) < 2^(l + 1) /\ i.imms % 2^l = 2^l - 1

MaskFields == [n : {0, 1}, immr : 0 .. MaskBits - 1, imms : 0 .. MaskBits - 1]
Decodable == {MaskOf(i) : i \in {j \in MaskFields : ~Reserved(j)}}

\* A logical immediate that is accepted decodes to what was written; one is
\* refused only if no encoding decodes to it, or it does not fit the register.
MaskDecodes ==
  operand # NoOperand /\ code # NotDone /\ operand.isa = "aarch64" =>
    LET v == MaskPattern(operand.value, operand.r64) IN
    IF code = NoCode
    THEN MaskInRange(operand.value, operand.r64) => v \notin Decodable
    ELSE /\ MaskInRange(operand.value, operand.r64)
         /\ code \in MaskFields /\ ~Reserved(code) /\ MaskOf(code) = v
         /\ ~operand.r64 => code.n = 0
=============================================================================
