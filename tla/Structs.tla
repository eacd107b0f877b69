------------------------------ MODULE Structs -------------------------------
(***************************************************************************)
(* typed(): the memory at an address seen as a ctypes type, whose fields     *)
(* and elements become memory operands (jita/core/structs.py and the         *)
(* structs.py of the architectures).  The layout of the types is ctypes's.   *)
(*                                                                           *)
(* A behaviour makes one view and goes down one path of fields and elements, *)
(* to an operand or an EncodeError.  AddressRegs have RegBits bits, the lower  *)
(* half of one is what a w index of aarch64 names.                           *)
(***************************************************************************)
EXTENDS Integers, Sequences

CONSTANTS
  Ctypes,       \* name -> [kind, size, plain, elem, length, fields]
  RegFiles,     \* contents of the registers under which addresses are compared
  RegBits,
  Given,        \* [arch] -> the bases given to typed()
  IndexRegs,    \* [arch] -> the registers, plain or modified, given as an index
  Absent,       \* None
  Refused,      \* EncodeError
  MaxPath       \* bound: fields and elements of a path

Arches == {"x64", "aarch64", "riscv64", "loongarch64"}
ScalarSizes == {1, 2, 4, 8}

VARIABLES
  view,       \* a view, an operand, Refused, or Absent before typed()
  steps,      \* how many fields and elements were asked for
  hint,       \* code a refusal tells the user to write, or Absent
  denoted,    \* history: where the path leads, Absent if nowhere
  candidate   \* history: the address it was refused at

structVars == <<view, steps, hint, denoted, candidate>>

-----------------------------------------------------------------------------
(* Addresses: base + scale * index + disp                                   *)

Modulus == 2^RegBits
HalfModulus == 2^(RegBits \div 2)
\* What a register shifted by n is multiplied by: 2^n.
TimesOf(n) == CASE n = 0 -> 1 [] n = 1 -> 2 [] n = 2 -> 4 [] n = 3 -> 8 [] n = 4 -> 16
Log2(n) == CHOOSE k \in 0 .. 4 : TimesOf(k) = n
SignedIn(v, m) == IF v % m >= m \div 2 THEN (v % m) - m ELSE v % m

IndexValue(how, v) ==
  CASE how = "uxtw" -> v % HalfModulus
    [] how = "sxtw" -> SignedIn(v, HalfModulus)
    [] OTHER -> v

Held(rf, r) == IF r = Absent THEN 0 ELSE rf[r]
Points(a, rf) ==
  Held(rf, a.base) + a.scale * IndexValue(a.how, Held(rf, a.index)) + a.disp
Congruent(m, n) == m % Modulus = n % Modulus

\* An unsized address over a base.
BaseAt(base, disp) == [base |-> base, index |-> Absent, how |-> "none", scale |-> 1, disp |-> disp]
AtIndex(base, index, how, scale) ==
  [base |-> base, index |-> index, how |-> how, scale |-> scale, disp |-> 0]

\* What the addresses of each machine can be; size is that of the access, or
\* Absent while it is not known.  rsp is no index, rip has none.
AddressOf(arch, a, size) ==
  /\ a.scale \in ScalarSizes
  /\ CASE arch = "x64" -> /\ a.index # "rsp"
                          /\ a.base = "rip" => a.index = Absent
       [] arch = "aarch64" -> /\ a.index # Absent => a.disp = 0
                              /\ size # Absent => a.scale \in {1, size}
       [] arch = "riscv64" -> a.index = Absent
       [] arch = "loongarch64" -> a.index # Absent => a.disp = 0 /\ a.scale = 1

\* What typed() is given; an index of x64, riscv64 and loongarch64 is a plain
\* register of 64 bits, or one that is none.
AddressRegs == {"t0", "t1", "t2", "rsp", "rip"}
Hows == {"none", "lsl", "uxtw", "sxtw", "sxtx"}
Addresses ==
  [base : AddressRegs \cup {Absent}, index : AddressRegs \cup {Absent}, how : Hows,
   scale : ScalarSizes, disp : Int]
AddrOK(arch, a) ==
  /\ a \in Addresses
  /\ a.index = Absent => a.how = "none" /\ a.scale = 1
  /\ arch \in {"riscv64", "loongarch64"} => a.base # Absent
  /\ AddressOf(arch, a, Absent)
IndexOK(arch, index) ==
  /\ index.reg \in AddressRegs /\ index.part \in {"x", "w", "f"} /\ index.how \in Hows
  /\ index.amount \in {Absent} \cup 0 .. 4
  /\ arch # "aarch64" => index.part \in {"x", "f"} /\ index.how = "none" /\ index.amount = Absent

CtypeOK(c) ==
  /\ c.kind \in {"scalar", "struct", "array"} /\ c.size \in Nat
  /\ c.kind = "array" =>
       c.elem \in DOMAIN Ctypes /\ c.length \in Nat /\ c.size = c.length * Ctypes[c.elem].size
  /\ \A f \in DOMAIN c.fields :
       /\ c.fields[f].ctype \in DOMAIN Ctypes /\ c.fields[f].at \in Nat
       /\ c.fields[f].at + Ctypes[c.fields[f].ctype].size <= c.size

\* r holds 1, the other registers 0.
OneAt(r) == [q \in AddressRegs |-> IF q = r THEN 1 ELSE 0]

ASSUME StructsAssumption ==
  /\ RegBits \in Nat \ {0} /\ RegBits % 2 = 0
  /\ HalfModulus \in Nat /\ HalfModulus >= 4 /\ Modulus \in Nat /\ Modulus >= 16
  /\ MaxPath \in Nat
  /\ RegFiles \subseteq [AddressRegs -> Nat]
  /\ \A r \in AddressRegs \cup {Absent} : OneAt(r) \in RegFiles
  /\ Absent \notin AddressRegs \cup Int /\ Absent \notin [RegFiles -> Int]
  /\ Refused \notin Addresses
  /\ Refused \notin [arch : Arches, addr : Addresses, ctype : DOMAIN Ctypes,
                     size : Int \cup {Absent}, extent : Int \cup {Absent}]
  /\ \A t \in DOMAIN Ctypes : CtypeOK(Ctypes[t]) /\ 3 * Ctypes[t].size < Modulus
  /\ \A arch \in Arches :
       /\ \A base \in Given[arch] : base.size = Absent => AddrOK(arch, base.addr)
       /\ \A index \in IndexRegs[arch] : IndexOK(arch, index)

-----------------------------------------------------------------------------
(* core/structs.py                                                          *)

\* scalar_size: no long double, nothing big endian.
HasSize(t) == Ctypes[t].plain /\ Ctypes[t].size \in ScalarSizes

\* get_field: a field that is no bit field.
HasField(t, f) == f \in DOMAIN Ctypes[t].fields /\ ~Ctypes[t].fields[f].bits

\* element_offset: an array without a length is not bounds checked.
InBounds(t, i) == Ctypes[t].length = 0 \/ i \in 0 .. Ctypes[t].length - 1
ElementOffset(t, i) == i * Ctypes[Ctypes[t].elem].size

-----------------------------------------------------------------------------
(* _view, _scalar and _offset                                               *)

\* _scalar of aarch64: an index is scaled by the access or not at all.
ScalesAccess(arch, a, t) ==
  arch = "aarch64" /\ a.index # Absent => a.scale \in {1, Ctypes[t].size}

\* Only an operand has a size, and only one of aarch64 an extent, the bytes
\* that a pair may touch.
View(arch, a, t, extent) ==
  IF Ctypes[t].kind # "scalar"
  THEN [arch |-> arch, addr |-> a, ctype |-> t, size |-> Absent, extent |-> Absent]
  ELSE IF HasSize(t) /\ ScalesAccess(arch, a, t)
  THEN [arch |-> arch, addr |-> a, ctype |-> t, size |-> Ctypes[t].size,
        extent |-> IF arch = "aarch64" THEN extent ELSE Absent]
  ELSE Refused

\* The address n bytes further, or Refused: on aarch64 and loongarch64 not
\* beside an index.
Along(arch, a, n) ==
  IF n # 0 /\ a.index # Absent /\ arch \in {"aarch64", "loongarch64"} THEN Refused
  ELSE [a EXCEPT !.disp = @ + n]

-----------------------------------------------------------------------------
(* An element at a register: index is [reg, part, how, amount]              *)

\* MemExpr of x64: rsp without a scale becomes the base.
Swapped(base, index, scale, disp) ==
  LET swap == index = "rsp" /\ scale = 1 /\ base \notin {"rsp", "rip"} IN
  [base |-> IF swap THEN index ELSE base, index |-> IF swap THEN base ELSE index,
   how |-> "none", scale |-> scale, disp |-> disp]

IndexX64(a, index, esize) ==
  IF esize \notin ScalarSizes \/ a.index # Absent \/ index.part = "f" THEN Refused
  ELSE LET m == Swapped(a.base, index.reg, esize, a.disp) IN
       IF AddressOf("x64", m, Absent) THEN m ELSE Refused

\* _index: an x register is plain, lsl or sxtx, a w register extended; an
\* amount that is written is the element's.
IndexFits(index, esize) ==
  /\ index.how \in (IF index.part = "x" THEN {"none", "lsl", "sxtx"}
                    ELSE IF index.part = "w" THEN {"uxtw", "sxtw"} ELSE {})
  /\ index.amount \in {Absent, Log2(esize)}

IndexAarch64(a, index, esize) ==
  IF esize \notin ScalarSizes \/ a.index # Absent \/ a.disp # 0 THEN Refused
  ELSE IF ~IndexFits(index, esize) THEN Refused
  ELSE AtIndex(a.base, index.reg, index.how, esize)

IndexLoong(a, index, esize) ==
  IF index.part = "f" \/ a.index # Absent \/ esize # 1 \/ a.disp # 0 THEN Refused
  ELSE AtIndex(a.base, index.reg, "none", 1)

AtRegister(arch, a, index, esize) ==
  CASE arch = "x64" -> IndexX64(a, index, esize)
    [] arch = "aarch64" -> IndexAarch64(a, index, esize)
    [] arch = "riscv64" -> Refused
    [] arch = "loongarch64" -> IndexLoong(a, index, esize)

-----------------------------------------------------------------------------
(* The code that a refused element comes with                               *)

Instr(op, rd, rs, rt, imm) == [op |-> op, rd |-> rd, rs |-> rs, rt |-> rt, imm |-> imm]

\* The first temporary that is neither base nor index.
Temporaries == <<"t0", "t1", "t2">>
Temporary(base, index) ==
  LET free == {k \in DOMAIN Temporaries : Temporaries[k] \notin {base, index}}
  IN  Temporaries[CHOOSE k \in free : \A j \in free : k <= j]

\* The ways to compute the address of an element into the temporary.  What
\* shifts and adds ("shadd": sh1add, alsl.d) shifts rs.
Ways(arch, base, index, esize) ==
  LET t == Temporary(base, index)
      sum == Instr("add", t, base, index, 0)
      shiftAdd == Instr("shadd", t, index, base, Log2(esize))
      multiply == <<Instr("li", t, t, t, esize), Instr("mul", t, index, t, 0),
                    Instr("add", t, base, t, 0)>>
  IN
  CASE esize = 1 -> {<<sum>>}
    [] arch = "loongarch64" /\ esize \in {2, 4, 8, 16} -> {<<shiftAdd>>}
    [] arch = "riscv64" /\ esize \in {2, 4, 8} ->
         {<<shiftAdd>>, <<Instr("slli", t, index, index, Log2(esize)), Instr("add", t, base, t, 0)>>}
    [] OTHER -> {multiply}

\* The hint at element a[index]: run one of ways, then view at + disp.  The
\* elements of no size are all at the start.
Hint(arch, a, index, esize) ==
  IF esize = 0 THEN [ways |-> {<<>>}, at |-> a.base, disp |-> a.disp]
  ELSE [ways |-> Ways(arch, a.base, index, esize), at |-> Temporary(a.base, index),
        disp |-> a.disp]

HintFor(arch, a, index, esize) ==
  IF index.part # "f" /\ (arch = "riscv64" \/ (arch = "loongarch64" /\ a.index = Absent))
  THEN Hint(arch, a, index.reg, esize) ELSE Absent

-----------------------------------------------------------------------------
(* Where a path leads: for each register file the address, and the address   *)
(* where the innermost array (or else field) around it ends, if it does      *)

Spot(where, ctype, end) == [where |-> where, ctype |-> ctype, end |-> end]
Further(n, t, end) ==
  Spot([rf \in RegFiles |-> denoted.where[rf] + n], t, end)
EndOf(n) == [rf \in RegFiles |-> denoted.where[rf] + n]

\* What an index operand says: an element number, unless a w register is not
\* extended or an x register is, or an amount contradicts the element size.
Says(arch, index, esize) ==
  /\ index.part # "f"
  /\ arch # "aarch64" => index.part = "x" /\ index.how = "none" /\ index.amount = Absent
  /\ index.part = "x" => index.how \in {"none", "lsl", "sxtx"}
  /\ index.part = "w" => index.how \in {"uxtw", "sxtw"}
  /\ index.amount # Absent => TimesOf(index.amount) = esize

-----------------------------------------------------------------------------
(* Steps                                                                    *)

\* The step leads to v at the place p.
Reach(v, p, code) ==
  /\ view' = v
  /\ steps' = steps + 1
  /\ denoted' = p
  /\ candidate' = IF v = Refused /\ view # Absent THEN view ELSE Absent
  /\ hint' = IF v = Refused THEN code ELSE Absent

\* typed(base, ctype): a register or an unsized address without writeback.
Typed(arch, base, t) ==
  /\ view = Absent
  /\ LET ok == base.size = Absent /\ base.mode = "offset"
         start == [rf \in RegFiles |-> Points(base.addr, rf)]
     IN  Reach(IF ok THEN View(arch, base.addr, t, Ctypes[t].size) ELSE Refused,
               IF ok THEN Spot(start, t, [rf \in RegFiles |-> start[rf] + Ctypes[t].size])
               ELSE Absent,
               Absent)

OnView(kind) ==
  /\ view \notin {Absent, Refused}
  /\ steps <= MaxPath
  /\ Ctypes[view.ctype].kind = kind

\* view.f
GetField(f) ==
  /\ OnView("struct")
  /\ IF ~HasField(view.ctype, f) THEN Reach(Refused, Absent, Absent)
     ELSE LET x == Ctypes[view.ctype].fields[f]
              m == Along(view.arch, view.addr, x.at)
          IN  Reach(IF m = Refused THEN Refused
                    ELSE View(view.arch, m, x.ctype, Ctypes[x.ctype].size),
                    Further(x.at, x.ctype, EndOf(x.at + Ctypes[x.ctype].size)), Absent)

\* How far an element at a constant index may be read: to the end of the array.
\* Faulty: as far as the whole array is long.
RestWhole(t, offset) == IF Ctypes[t].length = 0 THEN Absent ELSE Ctypes[t].size
Rest(t, offset) == IF Ctypes[t].length = 0 THEN Absent ELSE Ctypes[t].size - offset

\* view[i]
Element(i) ==
  /\ OnView("array")
  /\ LET t == view.ctype
         elem == Ctypes[t].elem
         m == Along(view.arch, view.addr, ElementOffset(t, i))
     IN  IF ~InBounds(t, i) THEN Reach(Refused, Absent, Absent)
         ELSE Reach(IF m = Refused THEN Refused
                    ELSE View(view.arch, m, elem, Rest(t, ElementOffset(t, i))),
                    Further(ElementOffset(t, i), elem,
                          IF Ctypes[t].length = 0 THEN Absent ELSE EndOf(Ctypes[t].size)),
                    Absent)

\* view[reg]
ElementAt(index) ==
  /\ OnView("array")
  /\ LET t == view.ctype
         elem == Ctypes[t].elem
         esize == Ctypes[elem].size
         m == AtRegister(view.arch, view.addr, index, esize)
         where == [rf \in RegFiles |->
                     denoted.where[rf] + esize * IndexValue(index.how, rf[index.reg])]
     IN  Reach(IF m = Refused THEN Refused ELSE View(view.arch, m, elem, esize),
               IF Says(view.arch, index, esize)
               THEN Spot(where, elem, [rf \in RegFiles |-> where[rf] + esize])
               ELSE Absent,
               HintFor(view.arch, view.addr, index, esize))

StructsInit ==
  view = Absent /\ steps = 0 /\ hint = Absent /\ denoted = Absent /\ candidate = Absent

StructsNext ==
  \/ \E arch \in Arches : \E base \in Given[arch], t \in DOMAIN Ctypes : Typed(arch, base, t)
  \/ \E t \in DOMAIN Ctypes : \E f \in DOMAIN Ctypes[t].fields \cup {"missing"} : GetField(f)
  \/ \E i \in -1 .. 3 : Element(i)
  \/ view \notin {Absent, Refused} /\ \E index \in IndexRegs[view.arch] : ElementAt(index)
StructsSpec == StructsInit /\ [][StructsNext]_structVars

-----------------------------------------------------------------------------
(* Correctness                                                              *)

\* The code of a hint, run.
Result(r, i) ==
  CASE i.op = "li" -> i.imm
    [] i.op = "add" -> r[i.rs] + r[i.rt]
    [] i.op = "mul" -> r[i.rs] * r[i.rt]
    [] i.op = "slli" -> r[i.rs] * TimesOf(i.imm)
    [] i.op = "shadd" -> r[i.rs] * TimesOf(i.imm) + r[i.rt]
Run(way, rf) ==
  LET after[k \in 0 .. Len(way)] ==
        IF k = 0 THEN rf ELSE [after[k - 1] EXCEPT ![way[k].rd] = Result(after[k - 1], way[k])]
  IN  after[Len(way)]

\* The addresses over the same base that the machine could use instead.  One by
\* the index that there is leaves that as it is: two indexes by one register are
\* not added up.
Others(v) ==
  {a \in {[base |-> v.addr.base, index |-> r, how |-> h, scale |-> n, disp |-> d] :
            r \in {Absent, v.addr.index} \cup {i.reg : i \in IndexRegs[v.arch]},
            h \in {"none", "uxtw", "sxtw"},
            n \in ScalarSizes,
            d \in {v.addr.disp + k : k \in 0 .. Ctypes[v.ctype].size}} :
     /\ a.index = v.addr.index => a.scale = v.addr.scale
     /\ AddressOf(v.arch, a, IF Ctypes[denoted.ctype].kind = "scalar"
                             THEN Ctypes[denoted.ctype].size ELSE Absent)}

\* Whatever the registers hold, the operand at the end of a path of fields,
\* constant indexes and registers is the bytes the path denotes, its size is
\* the type's, and a pair over it stays within the array (of aarch64, and to
\* its last element).
ViewReaches ==
  view \notin {Absent, Refused} =>
    /\ \A rf \in RegFiles : Congruent(Points(view.addr, rf), denoted.where[rf])
    /\ view.ctype = denoted.ctype
    /\ AddressOf(view.arch, view.addr, view.size)
    /\ view.size # Absent =>
         /\ view.size = Ctypes[denoted.ctype].size
         /\ view.arch = "aarch64" =>
              IF denoted.end = Absent THEN view.extent = Absent
              ELSE \A rf \in RegFiles : view.extent = denoted.end[rf] - denoted.where[rf]

\* What is refused has no field or element there, is no scalar a load can
\* have, has no size, or is at no address the machine can form over the same
\* base.  Displacements are less than the address space.
RefusedForGood ==
  view = Refused /\ denoted # Absent /\ candidate # Absent
  /\ candidate.addr.disp \in 1 - Modulus .. Modulus - 1 =>
    \/ Ctypes[denoted.ctype].kind = "scalar" /\ ~HasSize(denoted.ctype)
    \/ Ctypes[denoted.ctype].size = 0
    \/ \A a \in Others(candidate) :
         \E rf \in RegFiles : ~Congruent(Points(a, rf), denoted.where[rf])

\* Where the refusal comes with code, every way it offers computes the address
\* of that element without destroying its operands.
HintsReach ==
  hint # Absent /\ denoted # Absent =>
    \A way \in hint.ways, rf \in RegFiles :
      Congruent(Run(way, rf)[hint.at] + hint.disp, denoted.where[rf])

\* A view, what it is refused and the hint at it are right.
TypedReaches == ViewReaches /\ RefusedForGood /\ HintsReach
=============================================================================
