----------------------------- MODULE PatchKinds -----------------------------
(***************************************************************************)
(* Patch kinds: how the address of a target is written into a field of an   *)
(* instruction or of data, and when it is refused (jita/core/patch.py and   *)
(* the patch.py of aarch64, riscv64 and loongarch64).                       *)
(*                                                                          *)
(* A field is the number it holds, not its bits, and a number of n bits is  *)
(* one of `values` = 2^n; pages are in bytes.  The widths are parameters of *)
(* the kinds, the arithmetic does not depend on them.                       *)
(***************************************************************************)
EXTENDS Integers

CONSTANTS
  Kinds,       \* a set of the kinds below
  Places,      \* addresses of fields
  Addresses,   \* addresses of targets
  NoPatch, NotYet,
  Refused      \* LinkError

\* The widths the arithmetic needs: fields and pages of an even number of
\* values, and pages of whole units.
Positive == Nat \ {0}
Even == {n \in Positive : n % 2 = 0}
ASSUME KindAssumption ==
  /\ Kinds \subseteq
       [form : {"abs"}, size : Nat, values : Even]
       \cup [form : {"rel"}, size : Nat, values : Even, after : Nat]
       \cup [form : {"branch"}, unit : Positive, values : Even]
       \cup [form : {"adr"}, page : Positive, values : Even]
       \cup [form : {"pcrel", "pcala"}, page : Even, values : Even]
       \cup [form : {"call36"}, page : Even, values : Even, unit : Positive]
  /\ \A k \in Kinds : k.form = "call36" => k.page % (2 * k.unit) = 0
  /\ Places \subseteq Int /\ Addresses \subseteq Int
  /\ Refused \notin Int \cup [hi : Int, lo : Int]
  /\ NotYet \notin {Refused} \cup Int \cup [hi : Int, lo : Int]

VARIABLES
  patch,       \* the patch that link applies
  field        \* what it wrote, Refused, or NotYet

patchVars == <<patch, field>>

\* The number that the n-valued pattern v is when it is read as signed.
Signed(v, n) == IF 2 * v >= n THEN v - n ELSE v
FitsSigned(v, n) == -(n \div 2) <= v /\ v < n \div 2

-----------------------------------------------------------------------------
(* The kinds                                                                *)

AbsKind(size, bits) == [form |-> "abs", size |-> size, values |-> 2^bits]
\* `after` bytes of the instruction follow the field.
RelKind(size, bits, after) ==
  [form |-> "rel", size |-> size, values |-> 2^bits, after |-> after]
\* A branch offset counts units: words on aarch64 and loongarch64, half words
\* on riscv64, whose `bits` include the bit that is not stored.
Aarch64Branch(bits) == [form |-> "branch", unit |-> 4, values |-> 2^bits]
LoongarchBranch(bits) == [form |-> "branch", unit |-> 4, values |-> 2^bits]
RiscvBranch(bits) == [form |-> "branch", unit |-> 2, values |-> 2^(bits - 1)]
\* adr is adrp with pages of one byte.
AdrKind(page, bits) == [form |-> "adr", page |-> page, values |-> 2^bits]
PcrelKind(page, bits) == [form |-> "pcrel", page |-> page, values |-> 2^bits]
PcalaKind(page, bits) == [form |-> "pcala", page |-> page, values |-> 2^bits]
Call36Kind(page, bits) ==
  [form |-> "call36", page |-> page, values |-> 2^bits, unit |-> 4]

-----------------------------------------------------------------------------
(* apply(target, place)                                                     *)

\* Either reading of the field, signed or unsigned, is accepted.
AbsField(k, target) ==
  IF -(k.values \div 2) <= target /\ target < k.values
  THEN target % k.values ELSE Refused

RelField(k, target, place) ==
  LET n == target - (place + k.size)
  IN  IF FitsSigned(n, k.values) THEN n % k.values ELSE Refused

\* Faulty: the reach is counted in bytes.
BranchReachesBytes(k, n) == FitsSigned(n, k.values)
BranchReaches(k, n) == FitsSigned(n, k.values * k.unit)
BranchField(k, target, place) ==
  LET n == target - place
  IN  IF n % k.unit = 0 /\ BranchReaches(k, n)
      THEN (n \div k.unit) % k.values ELSE Refused

AdrField(k, target, place) ==
  LET n == (target \div k.page) - (place \div k.page)
  IN  IF FitsSigned(n, k.values) THEN n % k.values ELSE Refused

\* The number of pages in n, such that the rest is a signed part of a page.
\* Faulty: rounded down.
RoundedDown(n, page) == n \div page
Rounded(n, page) == (n + page \div 2) \div page

\* auipc and the signed low part that the next instruction adds.
SplitPcrel(k, n) ==
  LET hi == Rounded(n, k.page) IN [hi |-> hi, lo |-> n - hi * k.page]
PcrelField(k, target, place) ==
  LET s == SplitPcrel(k, target - place)
  IN  IF FitsSigned(s.hi, k.values)
      THEN [hi |-> s.hi % k.values, lo |-> s.lo % k.page] ELSE Refused

\* pcalau12i clears the low part of the pc.
SplitPcala(k, target, place) ==
  [hi |-> Rounded(target, k.page) - place \div k.page,
   lo |-> Signed(target % k.page, k.page)]
PcalaField(k, target, place) ==
  LET s == SplitPcala(k, target, place)
  IN  IF FitsSigned(s.hi, k.values)
      THEN [hi |-> s.hi % k.values, lo |-> s.lo % k.page] ELSE Refused

SplitCall36(k, n) ==
  LET hi == Rounded(n, k.page) IN [hi |-> hi, lo |-> (n - hi * k.page) \div k.unit]
Call36Field(k, target, place) ==
  LET n == target - place
      s == SplitCall36(k, n)
  IN  IF n % k.unit = 0 /\ FitsSigned(s.hi, k.values)
      THEN [hi |-> s.hi % k.values, lo |-> s.lo % (k.page \div k.unit)] ELSE Refused

\* What the x64 encoder adds to the target: rip is the end of the instruction.
\* Faulty: the bytes after the field are forgotten.
NoAddend(k) == 0
Addend(k) == IF k.form = "rel" THEN -k.after ELSE 0

Written(k, target, place) ==
  CASE k.form = "abs" -> AbsField(k, target)
    [] k.form = "rel" -> RelField(k, target + Addend(k), place)
    [] k.form = "branch" -> BranchField(k, target, place)
    [] k.form = "adr" -> AdrField(k, target, place)
    [] k.form = "pcrel" -> PcrelField(k, target, place)
    [] k.form = "pcala" -> PcalaField(k, target, place)
    [] k.form = "call36" -> Call36Field(k, target, place)

PatchInit ==
  /\ patch \in [kind : Kinds, target : Addresses, place : Places]
  /\ field = NotYet

Apply ==
  /\ patch # NoPatch /\ field = NotYet
  /\ field' = Written(patch.kind, patch.target, patch.place)
  /\ UNCHANGED patch

PatchSpec == PatchInit /\ [][Apply]_patchVars

-----------------------------------------------------------------------------
(* Correctness: what the processor makes of a field                         *)

\* The addresses that field f of an instruction at `place` may stand for.
Meanings(k, f, place) ==
  LET hi == Signed(f.hi, k.values)
      lo == Signed(f.lo, k.page)
  IN
  CASE k.form = "abs" -> {f, Signed(f, k.values)}
    [] k.form = "rel" -> {place + k.size + k.after + Signed(f, k.values)}
    [] k.form = "branch" -> {place + Signed(f, k.values) * k.unit}
    [] k.form = "adr" -> {(place \div k.page + Signed(f, k.values)) * k.page}
    [] k.form = "pcrel" -> {place + hi * k.page + lo}
    [] k.form = "pcala" -> {(place \div k.page + hi) * k.page + lo}
    [] k.form = "call36" ->
         {place + hi * k.page + Signed(f.lo, k.page \div k.unit) * k.unit}

\* adrp addresses a page.
Wanted(k, target) ==
  IF k.form = "adr" THEN (target \div k.page) * k.page ELSE target

FieldValues(k) ==
  LET low == IF k.form = "call36" THEN k.page \div k.unit ELSE k.page
  IN  IF k.form \in {"pcrel", "pcala", "call36"}
      THEN [hi : 0 .. k.values - 1, lo : 0 .. low - 1]
      ELSE 0 .. k.values - 1

\* A field that link wrote leads the processor to the target, at every
\* rounding and range boundary, and fits the bits it is written to.
FieldReaches ==
  patch # NoPatch /\ field \notin {NotYet, Refused} =>
    /\ field \in FieldValues(patch.kind)
    /\ Wanted(patch.kind, patch.target) \in Meanings(patch.kind, field, patch.place)

\* link refuses a target only if no value of the field leads there: "Raise
\* LinkError on range overflow" and on nothing else.
RefusedOnlyUnreachable ==
  patch # NoPatch /\ field = Refused =>
    \A f \in FieldValues(patch.kind) :
      Wanted(patch.kind, patch.target) \notin Meanings(patch.kind, f, patch.place)

\* apply of every kind is exact: it writes what leads to the target, and
\* refuses only what no field of the kind could lead to.
AppliedRightly == FieldReaches /\ RefusedOnlyUnreachable
=============================================================================
