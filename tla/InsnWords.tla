----------------------------- MODULE InsnWords ------------------------------
(***************************************************************************)
(* Instructions of the machines whose instructions are 32 bit words, as the *)
(* encoders of riscv64, loongarch64 and aarch64 are given them, and the     *)
(* words.  A word is the set of its bits that are one, so the `op |= field` *)
(* of the encoders is a union.                                              *)
(***************************************************************************)
EXTENDS Words, Sequences, FiniteSets, SequencesExt, FiniteSetsExt

CONSTANTS Nothing,    \* before anything was asked, or encoded
          NoWords,    \* EncodeError
  Place       \* the address of the instruction, which pages are counted from

\* The bits of v, which has at most 20, from bit s on.
Field(v, s) == {s + i : i \in {j \in 0 .. 19 : Bit(v, j) = 1}}
\* Eight hex digits, as two halves.
W(hi, lo) == Field(hi, 16) \cup Field(lo, 0)
\* The number in bits s .. s + n - 1.
Get(w, s, n) == MapThenSumSet(LAMBDA i : 2^(i - s), w \cap (s .. s + n - 1))

-----------------------------------------------------------------------------
(* Operands                                                                 *)

Reg(class, code) == [kind |-> class, code |-> code]
X(code) == Reg("x", code)
F(code) == Reg("f", code)
Num(n) == [kind |-> "int", value |-> n]
Text(s) == [kind |-> "str", text |-> s]
Lbl == [kind |-> "label"]
Addr(b) == [kind |-> "addr", base |-> b]     \* an address that is no operand
\* `size` bytes are at the address if it is a field of a structure, else 0.
Indexed(b, i, size) == [kind |-> "indexed", base |-> b, index |-> i, size |-> size]
MemAt(b, disp, size) == [kind |-> "mem", base |-> b, disp |-> disp, size |-> size]
Missing == [kind |-> "missing"]

IsLabel(q) == q.kind \in {"label", "str"}
Inside(n, lo, hi) == lo <= n /\ n <= hi

\* What is asked for: ops as written, `rm` the rounding mode keyword, and how
\* far from the instruction the label is that its operand names.
Ask(arch, name, ops, rm, to) ==
  [arch |-> arch, name |-> name, ops |-> ops, rm |-> rm, to |-> to]

-----------------------------------------------------------------------------
(* Templates                                                                *)

\* One alternative: the fixed bits and the operand actions.
Template(word, acts) == [word |-> word, acts |-> acts]

\* The templates among rows, those of one group of the table after another.
InOrder(rows, groups) ==
  FlattenSeq([i \in DOMAIN groups |-> SetToSeq({r[2] : r \in rows \cap groups[i]})])

\* The state in which an alternative is parsed: the word so far, the operand
\* it is at, the kind of its label, and the names it asked the assembler for.
Parsing(t) == [word |-> t.word, n |-> 1, ok |-> TRUE, patch |-> "none", names |-> {},
               sized |-> "none", spOk |-> {}]

Reject(alt) == [alt EXCEPT !.ok = FALSE]
Take(alt, bits) == [alt EXCEPT !.word = @ \cup bits, !.n = @ + 1]
OperandAt(alt, ops) == IF alt.n <= Len(ops) THEN ops[alt.n] ELSE Missing

TakeReg(alt, q, class, s) ==
  IF q.kind = class THEN Take(alt, Field(q.code, s)) ELSE Reject(alt)
\* A number is never cut down to its field.
TakeInt(alt, q, lo, hi, n, s) ==
  IF q.kind = "int" /\ Inside(q.value, lo, hi) THEN Take(alt, Field(q.value % 2^n, s))
  ELSE Reject(alt)
TakeSigned(alt, q, n, s) == TakeInt(alt, q, -(2^(n - 1)), 2^(n - 1) - 1, n, s)
TakeUnsigned(alt, q, n, s) == TakeInt(alt, q, 0, 2^n - 1, n, s)

\* The register whose number is at bit s, at bit t too.
Copied(w, s, t) == {b - s + t : b \in w \cap (s .. s + 4)}

\* A label operand: a name becomes a label of the assembler at once.
TakeLabel(alt, q, patch) ==
  IF ~IsLabel(q) THEN Reject(alt)
  ELSE [Take(alt, {}) EXCEPT !.patch = patch,
          !.names = IF q.kind = "str" THEN @ \cup {q.text} ELSE @]
AllTaken(alt, ops) == IF alt.n > Len(ops) THEN alt ELSE Reject(alt)

VARIABLES
  asked,    \* the instruction asked for
  emitted   \* the words, the patch over them and the names made; or NoWords

fixedVars == <<asked, emitted>>

\* The first alternative that accepts the operands is emitted; the names that
\* the ones before it made stay.
Won(parsed) == {k \in DOMAIN parsed : parsed[k].ok}
Emitted(parsed, words) ==
  LET k == Min(Won(parsed)) IN
  IF Won(parsed) = {} THEN NoWords
  ELSE [words |-> words[k], patch |-> parsed[k].patch,
        names |-> UNION {parsed[i].names : i \in 1 .. k}]

-----------------------------------------------------------------------------
(* The processor's side                                                     *)

\* A field of n bits from bit s, read as a signed number, and bits hi .. lo of
\* an offset that are at bit s.
SGet(w, s, n) == Sext(Get(w, s, n), n)
Piece(w, s, hi, lo) == Get(w, s, hi - lo + 1) * 2^lo
InField(v, n) == 0 <= v /\ v < 2^n

\* A name and operands of the machine, for what stands for them.  Far: of the
\* second of a pair, whose first builds the high part of an address.
Inst(name, ops) == [name |-> name, ops |-> ops, far |-> FALSE]
FarInst(name, ops) == [name |-> name, ops |-> ops, far |-> TRUE]

\* The distance to a label is added to the offset, which is 0 until then.
Moved(q, d) == IF q.kind = "mem" THEN [q EXCEPT !.disp = @ + d] ELSE Num(q.value + d)
LastMoved(ops, d) == [ops EXCEPT ![Len(ops)] = Moved(@, d)]

\* The word of each mnemonic of a set of rows, and the mnemonics of each word.
WordsOf(rows) ==
  [name \in {r[1] : r \in rows} |-> (CHOOSE r \in rows : r[1] = name)[2].word]
NamesOf(wordOf) ==
  [w \in {wordOf[n] : n \in DOMAIN wordOf} |-> {n \in DOMAIN wordOf : wordOf[n] = w}]
Lookup(table, key) == IF key \in DOMAIN table THEN table[key] ELSE {}

LabelNames(ops) == {ops[i].text : i \in {j \in DOMAIN ops : ops[j].kind = "str"}}
=============================================================================
