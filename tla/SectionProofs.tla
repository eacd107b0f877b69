---------------------------- MODULE SectionProofs ----------------------------
(* Proofs that sections only grow, that patches lie over emitted bytes, that *)
(* instructions are apart from each other and from labels, and that the      *)
(* tables of an assembler say what they should about its labels: the pointer *)
(* slots of externs, and the names.                                          *)
EXTENDS AssemblerProofs
-----------------------------------------------------------------------------
(* One section, and one table of sections, seen from before a change.       *)

\* What was in section x is still in y.
Longer(x, y) ==
  /\ x.size <= y.size
  /\ Len(x.patches) <= Len(y.patches)
  /\ \A i \in 1 .. Len(x.patches) : y.patches[i] = x.patches[i]

\* The patches of a section lie over emitted bytes.
Inside(x) ==
  \A i \in 1 .. Len(x.patches) :
    /\ x.patches[i].off + x.patches[i].kind.size <= x.size
    /\ ~ x.patches[i].kind.slot

\* A slot may be put at any multiple of SlotSize.
Aligned(x) == x.align % SlotSize = 0

Follows(x, y) ==
  Longer(x, y) /\ (Inside(x) => Inside(y)) /\ (Aligned(x) => Aligned(y))

\* T is S with more emitted; C are the sections whose alignment matters.
Keeps(S, T, C) ==
  \A u \in SectionNames :
    /\ Follows(S[u], T[u])
    /\ u \in C => S[u].align <= T[u].align
    /\ T[u].insns = S[u].insns

LEMMA SectionFields ==
  ASSUME NEW x \in Section
  PROVE  /\ x.size \in Nat /\ x.align \in Nat \ {0}
         /\ x.patches \in Seq(Patch) /\ Len(x.patches) \in Nat
         /\ DOMAIN x.patches = 1 .. Len(x.patches)
         /\ x.insns \in Seq(Span)
         /\ \A i \in 1 .. Len(x.patches) :
              /\ x.patches[i] \in Patch
              /\ x.patches[i].off \in Nat /\ x.patches[i].kind.size \in Nat
<1>1. x.patches \in Seq(Patch) /\ x.size \in Nat /\ x.align \in Nat \ {0}
      /\ x.insns \in Seq(Span)
  BY DEF Section
<1>2. Len(x.patches) \in Nat /\ DOMAIN x.patches = 1 .. Len(x.patches)
      /\ \A i \in 1 .. Len(x.patches) : x.patches[i] \in Patch
  BY <1>1, ElementOfSeq
<1>3. \A p \in Patch : p.off \in Nat /\ p.kind.size \in Nat
  BY DEF Patch, Kind
<1>4. QED
  BY <1>1, <1>2, <1>3

\* A section with the same patches that is at least as long.
LEMMA SamePatches ==
  ASSUME NEW x \in Section, NEW y \in Section, x.size <= y.size,
         y.patches = x.patches, Aligned(x) => Aligned(y)
  PROVE  Follows(x, y)
<1>1. Longer(x, y)
  BY SectionFields DEF Longer
<1>2. ASSUME Inside(x), NEW i \in 1 .. Len(x.patches)
      PROVE  /\ x.patches[i].off + x.patches[i].kind.size <= y.size
             /\ ~ x.patches[i].kind.slot
  BY <1>2, SectionFields DEF Inside
<1>3. QED
  BY <1>1, <1>2 DEF Follows, Inside

LEMMA FollowsTrans ==
  ASSUME NEW x \in Section, NEW y \in Section, NEW z \in Section,
         Follows(x, y), Follows(y, z)
  PROVE  Follows(x, z)
<1>1. /\ x.size \in Nat /\ y.size \in Nat /\ z.size \in Nat
      /\ Len(x.patches) \in Nat /\ Len(y.patches) \in Nat /\ Len(z.patches) \in Nat
  BY SectionFields
<1>2. /\ x.size <= y.size /\ y.size <= z.size
      /\ Len(x.patches) <= Len(y.patches) /\ Len(y.patches) <= Len(z.patches)
  BY DEF Follows, Longer
<1>3. ASSUME NEW i \in 1 .. Len(x.patches)
      PROVE  z.patches[i] = x.patches[i]
  <2>1. i \in 1 .. Len(y.patches)
    BY <1>1, <1>2
  <2>2. QED
    BY <2>1 DEF Follows, Longer
<1>4. Longer(x, z)
  BY <1>1, <1>2, <1>3 DEF Longer
<1>5. QED
  BY <1>4 DEF Follows

LEMMA KeepsTrans ==
  ASSUME NEW S \in Table, NEW T \in Table, NEW U \in Table, NEW C,
         Keeps(S, T, C), Keeps(T, U, C)
  PROVE  Keeps(S, U, C)
<1> SUFFICES ASSUME NEW u \in SectionNames
             PROVE  /\ Follows(S[u], U[u])
                    /\ u \in C => S[u].align <= U[u].align
                    /\ U[u].insns = S[u].insns
  BY DEF Keeps
<1>1. S[u] \in Section /\ T[u] \in Section /\ U[u] \in Section
  BY DEF Table
<1>2. Follows(S[u], T[u]) /\ Follows(T[u], U[u])
  BY DEF Keeps
<1>3. Follows(S[u], U[u])
  BY <1>1, <1>2, FollowsTrans
<1>4. S[u].align \in Nat /\ T[u].align \in Nat /\ U[u].align \in Nat
  BY <1>1, SectionFields
<1>5. QED
  BY <1>3, <1>4 DEF Keeps

\* The shape of every operator on tables: one section is replaced.
LEMMA KeepsOne ==
  ASSUME NEW S \in Table, NEW s \in SectionNames, NEW y \in Section, NEW C,
         Follows(S[s], y), s \in C => S[s].align <= y.align,
         y.insns = S[s].insns
  PROVE  Keeps(S, [S EXCEPT ![s] = y], C)
<1> SUFFICES ASSUME NEW u \in SectionNames
             PROVE  /\ Follows(S[u], [S EXCEPT ![s] = y][u])
                    /\ u \in C => S[u].align <= [S EXCEPT ![s] = y][u].align
                    /\ [S EXCEPT ![s] = y][u].insns = S[u].insns
  BY DEF Keeps
<1>1. S[u] \in Section
  BY DEF Table
<1>2. S[u].size <= S[u].size /\ S[u].align <= S[u].align
  BY <1>1, SectionFields
<1>3. Follows(S[u], S[u])
  BY <1>1, <1>2, SamePatches
<1>4. CASE u = s
  BY <1>4 DEF Table
<1>5. CASE u # s
  BY <1>2, <1>3, <1>5 DEF Table
<1>6. QED
  BY <1>4, <1>5

LEMMA KeepsSame ==
  ASSUME NEW S \in Table, NEW C
  PROVE  Keeps(S, S, C)
<1>1. ASSUME NEW u \in SectionNames
      PROVE  Follows(S[u], S[u]) /\ S[u].align <= S[u].align
  <2>1. S[u] \in Section
    BY DEF Table
  <2>2. S[u].size <= S[u].size /\ S[u].align <= S[u].align
    BY <2>1, SectionFields
  <2>3. QED
    BY <2>1, <2>2, SamePatches
<1>2. QED
  BY <1>1 DEF Keeps

LEMMA GrowKeeps ==
  ASSUME NEW S \in Table, NEW s \in SectionNames, NEW n \in Nat, NEW C
  PROVE  Keeps(S, Grow(S, s, n), C)
<1> DEFINE y == [S[s] EXCEPT !.size = S[s].size + n]
<1>1. S[s] \in Section
  BY DEF Table
<1>2. /\ y \in Section /\ y.size = S[s].size + n /\ y.patches = S[s].patches
      /\ y.insns = S[s].insns /\ y.align = S[s].align
  BY <1>1 DEF Section
<1>3. S[s].size <= y.size /\ S[s].align <= y.align
  BY <1>1, <1>2, SectionFields
<1>4. Grow(S, s, n) = [S EXCEPT ![s] = y]
  BY DEF Grow
<1> HIDE DEF y
<1>5. Follows(S[s], y)
  BY <1>1, <1>2, <1>3, SamePatches DEF Aligned
<1>6. QED
  BY <1>2, <1>3, <1>4, <1>5, KeepsOne

LEMMA RecordKeeps ==
  ASSUME NEW S \in Table, NEW s \in SectionNames, NEW off \in Nat,
         NEW k \in Kind, NEW t \in Targets, NEW C, off + k.size <= S[s].size
  PROVE  Keeps(S, Record(S, s, off, k, t), C)
<1> DEFINE p == [off |-> off, kind |-> [k EXCEPT !.slot = FALSE], target |-> t]
           q == S[s].patches
           r == Append(q, p)
           y == [S[s] EXCEPT !.patches = r]
<1>1. S[s] \in Section
  BY DEF Table
<1>2. p \in Patch /\ p.off + p.kind.size <= S[s].size /\ ~ p.kind.slot
  BY DEF Patch, Kind
<1>3. q \in Seq(Patch) /\ Len(q) \in Nat
  BY <1>1, SectionFields
<1> HIDE DEF p
<1>4. /\ r \in Seq(Patch) /\ Len(r) = Len(q) + 1 /\ r[Len(q) + 1] = p
      /\ \A i \in 1 .. Len(q) : r[i] = q[i]
  BY <1>2, <1>3, AppendProperties
<1>5. Record(S, s, off, k, t) = [S EXCEPT ![s] = y]
  BY DEF Record, p
<1> HIDE DEF q, r
<1>6. /\ y \in Section /\ y.size = S[s].size /\ y.patches = r
      /\ y.insns = S[s].insns /\ y.align = S[s].align
  BY <1>1, <1>4 DEF Section
<1>7. S[s].size <= y.size /\ S[s].align <= y.align
  BY <1>1, <1>6, SectionFields
<1> HIDE DEF y
<1>8. Longer(S[s], y)
  BY <1>3, <1>4, <1>6, <1>7 DEF Longer, q
<1>9. ASSUME Inside(S[s]), NEW i \in 1 .. Len(r)
      PROVE  r[i].off + r[i].kind.size <= y.size /\ ~ r[i].kind.slot
  <2>1. CASE i \in 1 .. Len(q)
    <3>1. q[i].off + q[i].kind.size <= S[s].size /\ ~ q[i].kind.slot
      BY <1>9, <2>1 DEF Inside, q
    <3>2. QED
      BY <1>4, <1>6, <2>1, <3>1
  <2>2. CASE i = Len(q) + 1
    BY <1>2, <1>4, <1>6, <2>2
  <2>3. QED
    BY <1>3, <1>4, <1>9, <2>1, <2>2
<1>10. Follows(S[s], y)
  BY <1>6, <1>8, <1>9 DEF Follows, Inside, Aligned
<1>11. QED
  BY <1>5, <1>6, <1>7, <1>10, KeepsOne

\* A multiple of SlotSize is not below it.
LEMMA AlignedOrder ==
  ASSUME NEW m \in Nat \ {0}, m % SlotSize = 0
  PROVE  SlotSize <= m
  BY SizeAssumption

\* Alignments are powers of two: the larger of two is aligned if one is.
LEMMA RaiseAlignKeeps ==
  ASSUME NEW S \in Table, NEW s \in SectionNames, NEW al \in Aligns \cup {0}, NEW C
  PROVE  Keeps(S, RaiseAlign(S, s, al), C)
<1> DEFINE m == IF al > S[s].align THEN al ELSE S[s].align
           y == [S[s] EXCEPT !.align = m]
<1>1. al \in Nat
  BY SizeAssumption
<1>2. S[s] \in Section
  BY DEF Table
<1>3. m \in Nat \ {0} /\ S[s].align <= m
  BY <1>1, <1>2, SectionFields
<1>4. RaiseAlign(S, s, al) = [S EXCEPT ![s] = y]
  BY DEF RaiseAlign
<1> HIDE DEF m
<1>5. /\ y \in Section /\ y.size = S[s].size /\ y.patches = S[s].patches
      /\ y.insns = S[s].insns /\ y.align = m
  BY <1>2, <1>3 DEF Section
<1>6. S[s].size <= y.size
  BY <1>2, <1>5, SectionFields
<1> HIDE DEF y
<1>7. Aligned(S[s]) => Aligned(y)
  <2> SUFFICES ASSUME Aligned(S[s]), al > S[s].align
               PROVE  al % SlotSize = 0
    BY <1>5 DEF Aligned, m
  <2>1. S[s].align \in Nat \ {0} /\ SlotSize \in Nat
    BY <1>2, SectionFields, SizeAssumption
  <2>2. SlotSize <= S[s].align
    BY <2>1, AlignedOrder DEF Aligned
  <2>3. al \in Aligns /\ SlotSize <= al
    BY <1>1, <2>1, <2>2
  <2>4. QED
    BY <2>3, AlignAssumption
<1>8. Follows(S[s], y)
  BY <1>2, <1>5, <1>6, <1>7, SamePatches
<1>9. QED
  BY <1>3, <1>4, <1>5, <1>8, KeepsOne

LEMMA SetWritableKeeps ==
  ASSUME NEW S \in Table, NEW s \in SectionNames, NEW w, NEW C
  PROVE  Keeps(S, SetWritable(S, s, w), C)
<1> DEFINE b == (w = "writable")
           y == [S[s] EXCEPT !.writable = b]
<1>1. S[s] \in Section /\ b \in BOOLEAN
  BY DEF Table
<1>2. SetWritable(S, s, w) = S \/ SetWritable(S, s, w) = [S EXCEPT ![s] = y]
  BY DEF SetWritable
<1> HIDE DEF b
<1>3. /\ y \in Section /\ y.size = S[s].size /\ y.patches = S[s].patches
      /\ y.insns = S[s].insns /\ y.align = S[s].align
  BY <1>1 DEF Section
<1>4. S[s].size <= y.size /\ S[s].align <= y.align
  BY <1>1, <1>3, SectionFields
<1> HIDE DEF y
<1>5. Follows(S[s], y)
  BY <1>1, <1>3, <1>4, SamePatches DEF Aligned
<1>6. QED
  BY <1>2, <1>3, <1>4, <1>5, KeepsOne, KeepsSame

\* A rejected emit_patch takes its reservation back.
LEMMA TakeBackKeeps ==
  ASSUME NEW S \in Table, NEW s \in SectionNames, NEW n \in Nat, NEW C
  PROVE  /\ Keeps(S, Truncate(Grow(S, s, n), s, S[s].size), C)
         /\ Truncate(Grow(S, s, n), s, S[s].size) \in Table
<1> DEFINE T == Grow(S, s, n)
           y == [T[s] EXCEPT !.size = S[s].size]
           V == [S[s] EXCEPT !.size = S[s].size + n]
<1>1. S[s] \in Section /\ S[s].size \in Nat
  BY SectionFields DEF Table
<1>2. T = [S EXCEPT ![s] = V]
  BY DEF Grow
<1>3. T[s] = V /\ \A u \in SectionNames \ {s} : T[u] = S[u]
  BY <1>2 DEF Table
<1>4. Truncate(T, s, S[s].size) = [T EXCEPT ![s] = y]
  BY DEF Truncate
<1>5. V \in Section /\ y = S[s]
  <2>1. V \in Section
    BY <1>1 DEF Section
  <2>2. [V EXCEPT !.size = S[s].size] = S[s]
    BY <1>1 DEF Section
  <2>3. QED
    BY <1>3, <2>1, <2>2
<1>6. T \in Table
  BY <1>1, GrowType
<1> HIDE DEF T, V, y
<1>7. [T EXCEPT ![s] = y] = S
  BY <1>3, <1>5, <1>6 DEF Table
<1>8. QED
  BY <1>4, <1>7, KeepsSame DEF T

-----------------------------------------------------------------------------
(* Slots and patches                                                        *)

LEMMA SlotKeeps ==
  ASSUME TypeOK, NEW a \in Asms, NEW S \in Table, NEW e \in Externs
  PROVE  Keeps(S, SlotTable(a, S, e), ToSet(order[a]))
<1> DEFINE C == ToSet(order[a])
           x == [S["externs"] EXCEPT !.align = SlotSize]
           A == IF Created(a, "externs") THEN S ELSE [S EXCEPT !["externs"] = x]
           pad == Pad(A["externs"].size, SlotSize)
           P == Grow(A, "externs", pad)
           G == Grow(P, "externs", SlotSize)
           T == SlotTable(a, S, e)
<1>1. "externs" \in SectionNames /\ SlotSize \in Nat \ {0}
  BY SizeAssumption
<1>2. A \in Table /\ Keeps(S, A, C)
  <2>1. CASE Created(a, "externs")
    BY <2>1, KeepsSame
  <2>2. CASE ~ Created(a, "externs")
    <3>1. S["externs"] \in Section
      BY <1>1 DEF Table
    <3>2. /\ x \in Section /\ x.size = S["externs"].size
          /\ x.patches = S["externs"].patches /\ x.insns = S["externs"].insns
          /\ x.align = SlotSize
      BY <1>1, <3>1 DEF Section
    <3>3. S["externs"].size <= x.size
      BY <3>1, <3>2, SectionFields
    <3> HIDE DEF x
    <3>4. SlotSize % SlotSize = 0
      BY <1>1
    <3>5. Follows(S["externs"], x)
      BY <3>1, <3>2, <3>3, <3>4, SamePatches DEF Aligned
    <3>6. "externs" \notin C
      BY <2>2 DEF Created
    <3>7. Keeps(S, [S EXCEPT !["externs"] = x], C)
      BY <1>1, <3>2, <3>5, <3>6, KeepsOne
    <3>8. QED
      BY <1>1, <2>2, <3>2, <3>7, TableExcept
  <2>3. QED
    BY <2>1, <2>2
<1>3. PaddedSlot(a, S) = P
  BY DEF PaddedSlot
<1> HIDE DEF A, C
<1>4. pad \in Nat
  <2>1. A["externs"].size \in Nat
    BY <1>1, <1>2, SizeNat
  <2>2. QED
    BY <1>1, <2>1, PadType
<1> HIDE DEF pad
<1>5. P \in Table /\ Keeps(A, P, C)
  BY <1>1, <1>2, <1>4, GrowType, GrowKeeps
<1>6. T = Record(G, "externs", P["externs"].size, ABS64, e)
  BY <1>3 DEF SlotTable
<1> HIDE DEF P
<1>7. G \in Table /\ Keeps(P, G, C)
  BY <1>1, <1>5, GrowType, GrowKeeps
<1>8. P["externs"].size \in Nat
      /\ P["externs"].size + ABS64.size <= G["externs"].size
  <2>1. P["externs"].size \in Nat
    BY <1>1, <1>5, SizeNat
  <2>2. G["externs"].size = P["externs"].size + SlotSize
    BY <1>1, <1>5, GrowSize
  <2>3. QED
    BY <1>1, <2>1, <2>2 DEF ABS64
<1> HIDE DEF G
<1>9. T \in Table /\ Keeps(G, T, C)
  BY <1>1, <1>6, <1>7, <1>8, PatchTypes, RecordType, RecordKeeps DEF Targets
<1> HIDE DEF T
<1>10. Keeps(S, P, C)
  BY <1>2, <1>5, KeepsTrans
<1>11. Keeps(S, G, C)
  BY <1>5, <1>7, <1>10, KeepsTrans
<1>12. Keeps(S, T, C)
  BY <1>7, <1>9, <1>11, KeepsTrans
<1>13. QED
  BY <1>12 DEF C, T

\* What a step does to the sections of all assemblers.
Kept == \A a \in Asms : Keeps(sec[a], sec'[a], ToSet(order[a]))

LEMMA OneTableKept ==
  ASSUME TypeOK, NEW a \in Asms, NEW T, sec' = [sec EXCEPT ![a] = T],
         Keeps(sec[a], T, ToSet(order[a]))
  PROVE  Kept
<1>1. sec \in [Asms -> Table]
  BY DEF TypeOK, Table
<1> SUFFICES ASSUME NEW b \in Asms
             PROVE  Keeps(sec[b], sec'[b], ToSet(order[b]))
  BY DEF Kept
<1>2. CASE b = a
  BY <1>1, <1>2
<1>3. CASE b # a
  <2>1. sec'[b] = sec[b] /\ sec[b] \in Table
    BY <1>1, <1>3
  <2>2. QED
    BY <2>1, KeepsSame
<1>4. QED
  BY <1>2, <1>3

LEMMA SameKept ==
  ASSUME TypeOK, sec' = sec
  PROVE  Kept
<1>1. \A a \in Asms : sec[a] \in Table
  BY DEF TypeOK, Table
<1>2. QED
  BY <1>1, KeepsSame DEF Kept

LEMMA AddPatchToKept ==
  ASSUME TypeOK, NEW a \in Asms, NEW S \in Table, NEW off \in Nat,
         NEW k \in Kind, NEW t \in Targets, AddPatchTo(a, S, off, k, t),
         Keeps(sec[a], S, ToSet(order[a]))
  PROVE  Kept
<1> DEFINE s == cur[a]
           C == ToSet(order[a])
<1>1. s \in SectionNames /\ sec[a] \in Table
  BY DEF TypeOK, Table
<1>2. off + k.size <= S[s].size
  BY DEF AddPatchTo, InEmitted
<1>3. ASSUME NEW T \in Table, NEW x \in Targets, Keeps(S, T, C),
             sec' = [sec EXCEPT ![a] = Record(T, s, off, k, x)]
      PROVE  Kept
  <2>1. off + k.size <= T[s].size
    <3>1. S[s].size <= T[s].size
      BY <1>1, <1>3 DEF Keeps, Follows, Longer
    <3>2. S[s].size \in Nat /\ T[s].size \in Nat /\ k.size \in Nat
      BY <1>1, <1>3, SizeNat DEF Kind
    <3>3. QED
      BY <1>2, <3>1, <3>2
  <2> HIDE DEF s, C
  <2>2. Record(T, s, off, k, x) \in Table /\ Keeps(T, Record(T, s, off, k, x), C)
    BY <1>1, <1>3, <2>1, RecordType, RecordKeeps
  <2>3. Keeps(sec[a], T, C)
    BY <1>1, <1>3, KeepsTrans DEF C
  <2>4. Keeps(sec[a], Record(T, s, off, k, x), C)
    BY <1>1, <1>3, <2>2, <2>3, KeepsTrans
  <2>5. QED
    BY <1>3, <2>4, OneTableKept DEF C
<1>4. Keeps(S, S, C)
  BY KeepsSame
<1> HIDE DEF s, C
<1>5. CASE ~ k.slot
  <2>1. sec' = [sec EXCEPT ![a] = Record(S, s, off, k, t)]
    BY <1>5 DEF AddPatchTo, s
  <2>2. QED
    BY <1>3, <1>4, <2>1
<1>6. CASE k.slot /\ slots[a][ExtName[t]] # NoLabel
  <2>1. sec' = [sec EXCEPT ![a] = Record(S, s, off, k, slots[a][ExtName[t]])]
        /\ t \in Externs
    BY <1>6 DEF AddPatchTo, s
  <2>2. slots[a][ExtName[t]] \in Targets
    BY <1>6, <2>1, ExternAssumption DEF TypeOK, Targets
  <2>3. QED
    BY <1>3, <1>4, <2>1, <2>2
<1>7. CASE k.slot /\ slots[a][ExtName[t]] = NoLabel
  <2>1. /\ sec' = [sec EXCEPT ![a] = Record(SlotTable(a, S, t), s, off, k, FreshLabel)]
        /\ t \in Externs /\ NewSlot(a, S, t)
    BY <1>7 DEF AddPatchTo, s
  <2>2. FreshLabel \in Targets
    BY <2>1, FreshLabelType DEF NewSlot, Targets
  <2>3. SlotTable(a, S, t) \in Table /\ Keeps(S, SlotTable(a, S, t), C)
    BY <2>1, SlotType, SlotKeeps DEF C
  <2>4. QED
    BY <1>3, <2>1, <2>2, <2>3
<1>8. QED
  BY <1>5, <1>6, <1>7

-----------------------------------------------------------------------------
(* The steps                                                                *)

LEMMA SectionKept ==
  ASSUME TypeOK, NEW a \in Asms, SectionStep(a)
  PROVE  Kept
<1>1. sec[a] \in Table
  BY DEF TypeOK, Table
<1>2. ASSUME NEW s \in UserSections, NEW al \in Aligns \cup {0},
             NEW w \in WritableArgs, NEW nested \in BOOLEAN,
             SwitchSection(a, s, al, w, nested)
      PROVE  Kept
  <2> DEFINE C == ToSet(order[a])
             R == RaiseAlign(sec[a], s, al)
             T == SetWritable(R, s, w)
  <2>1. s \in SectionNames /\ al \in Nat
    <3>1. UserSections \subseteq SectionNames /\ Aligns \subseteq Nat \ {0}
      BY SizeAssumption, Zenon
    <3>2. QED
      BY <3>1
  <2>2. sec' = [sec EXCEPT ![a] = T]
    BY <1>2 DEF SwitchSection
  <2>3. R \in Table /\ Keeps(sec[a], R, C)
    BY <1>1, <2>1, RaiseAlignType, RaiseAlignKeeps
  <2> HIDE DEF R
  <2>4. T \in Table /\ Keeps(R, T, C)
    BY <2>1, <2>3, SetWritableType, SetWritableKeeps
  <2> HIDE DEF T, C
  <2>5. Keeps(sec[a], T, C)
    BY <1>1, <2>3, <2>4, KeepsTrans
  <2>6. QED
    BY <2>2, <2>5, OneTableKept DEF C
<1>3. ASSUME ExitSection(a)
      PROVE  Kept
  BY <1>3, SameKept DEF ExitSection
<1>4. QED
  BY <1>2, <1>3 DEF SectionStep

LEMMA ReservedKeeps ==
  ASSUME TypeOK, NEW a \in Asms, NEW k \in Kind
  PROVE  /\ Reserved(a, k) \in Table
         /\ Keeps(sec[a], Reserved(a, k), ToSet(order[a]))
<1>1. sec[a] \in Table /\ cur[a] \in SectionNames
  BY DEF TypeOK, Table
<1>2. k.size \in Nat
  BY DEF Kind
<1>3. QED
  BY <1>1, <1>2, GrowType, GrowKeeps DEF Reserved

LEMMA PatchKept ==
  ASSUME TypeOK, NEW a \in Asms, PatchStep(a)
  PROVE  Kept
<1> DEFINE C == ToSet(order[a])
<1>1. sec[a] \in Table /\ cur[a] \in SectionNames /\ Pos(a) \in Nat
  BY DEF TypeOK, Table, Pos, Section
<1>2. ASSUME NEW n \in Nat, Emit(a, n)
      PROVE  Kept
  <2>1. sec' = [sec EXCEPT ![a] = Grow(sec[a], cur[a], n)]
    BY <1>2 DEF Emit
  <2>2. QED
    BY <1>1, <2>1, GrowKeeps, OneTableKept
<1>3. ASSUME NEW off \in Nat, NEW k \in Kind, NEW t \in Targets,
             AddPatch(a, off, k, t)
      PROVE  Kept
  <2>1. AddPatchTo(a, sec[a], off, k, t)
    BY <1>3 DEF AddPatch
  <2>2. QED
    BY <1>1, <2>1, KeepsSame, AddPatchToKept
<1>4. ASSUME NEW k \in Kind, NEW t \in Targets, EmitPatch(a, k, t)
      PROVE  Kept
  <2>1. AddPatchTo(a, Reserved(a, k), Pos(a), k, t)
    BY <1>4 DEF EmitPatch
  <2>2. QED
    BY <1>1, <2>1, ReservedKeeps, AddPatchToKept
<1>5. ASSUME NEW k \in Kind, NEW l \in LabelIds, EmitPatchRejected(a, k, l)
      PROVE  Kept
  <2>1. sec' = [sec EXCEPT ![a] =
                  Truncate(Grow(sec[a], cur[a], k.size), cur[a], sec[a][cur[a]].size)]
    BY <1>5 DEF EmitPatchRejected, Reserved, Pos
  <2>2. k.size \in Nat
    BY DEF Kind
  <2>3. QED
    BY <1>1, <2>1, <2>2, TakeBackKeeps, OneTableKept
<1>6. ASSUME NEW e \in Externs, ExternSlot(a, e)
      PROVE  Kept
  <2>1. sec' = [sec EXCEPT ![a] = SlotTable(a, sec[a], e)]
    BY <1>6 DEF ExternSlot
  <2>2. QED
    BY <1>1, <2>1, SlotKeeps, OneTableKept
<1>7. ASSUME NEW n \in Aligns, NEW emptyFill \in BOOLEAN, Align(a, n, emptyFill)
      PROVE  Kept
  <2> DEFINE S == RaiseAlign(sec[a], cur[a], n)
             pad == Pad(Pos(a), n)
             T == IF emptyFill /\ pad # 0 THEN S ELSE Grow(S, cur[a], pad)
  <2>1. n \in Nat \ {0}
    BY SizeAssumption
  <2>2. pad \in Nat
    <3>1. pad \in 0 .. n - 1
      BY <1>1, <2>1, PadType
    <3>2. QED
      BY <2>1, <3>1
  <2>3. S \in Table /\ Keeps(sec[a], S, C)
    BY <1>1, <2>1, RaiseAlignType, RaiseAlignKeeps
  <2>4. sec' = [sec EXCEPT ![a] = T]
    BY <1>7 DEF Align
  <2> HIDE DEF S, pad, C
  <2>5. Grow(S, cur[a], pad) \in Table /\ Keeps(S, Grow(S, cur[a], pad), C)
    BY <1>1, <2>2, <2>3, GrowType, GrowKeeps
  <2>6. Keeps(sec[a], Grow(S, cur[a], pad), C)
    BY <1>1, <2>3, <2>5, KeepsTrans
  <2>7. Keeps(sec[a], T, C)
    BY <2>3, <2>6
  <2> HIDE DEF T
  <2>8. QED
    BY <2>4, <2>7, OneTableKept DEF C
<1>8. QED
  BY <1>2, <1>3, <1>4, <1>5, <1>6, <1>7, BoundsNat, PatchTypes
     DEF PatchStep, DataInt, DataRef

\* What a step of an instruction works on.
LEMMA InsnTypes ==
  ASSUME TypeOK, insn.op # "idle"
  PROVE  /\ insn \in Frame /\ insn # Idle
         /\ insn.asm \in Asms /\ insn.start \in Nat
         /\ sec[insn.asm] \in Table /\ cur[insn.asm] \in SectionNames
         /\ Pos(insn.asm) \in Nat /\ Pos(insn.asm) = sec[insn.asm][cur[insn.asm]].size
<1>1. insn \in Frame /\ insn.asm \in Asms /\ insn.start \in Nat
  BY DEF TypeOK, Frame, Idle
<1>2. sec[insn.asm] \in Table /\ cur[insn.asm] \in SectionNames
  BY <1>1 DEF TypeOK, Table
<1>3. QED
  BY <1>1, <1>2, SizeNat DEF Pos, Idle

LEMMA InsnKept ==
  ASSUME TypeOK, InsnStep, ~ InsnDone
  PROVE  Kept
<1> DEFINE a == insn.asm
<1>1. ASSUME NEW n \in 1 .. MaxSize, NEW how \in {"flush", "words"}, InsnBytes(n, how)
      PROVE  Kept
  <2>1. sec' = [sec EXCEPT ![a] = Grow(sec[a], cur[a], n)] /\ insn.op # "idle"
    BY <1>1 DEF InsnBytes
  <2>2. n \in Nat
    BY SizeAssumption
  <2>3. a \in Asms /\ sec[a] \in Table /\ cur[a] \in SectionNames
    BY <2>1, InsnTypes
  <2> HIDE DEF a
  <2>4. QED
    BY <2>1, <2>2, <2>3, GrowKeeps, OneTableKept
<1>2. ASSUME NEW k \in Kind, NEW t \in Targets, InsnField(k, t)
      PROVE  Kept
  <2>1. AddPatchTo(a, Reserved(a, k), Pos(a), k, t) /\ insn.op # "idle"
    BY <1>2 DEF InsnField
  <2>2. a \in Asms /\ Pos(a) \in Nat
    BY <2>1, InsnTypes
  <2> HIDE DEF a
  <2>3. QED
    BY <2>1, <2>2, ReservedKeeps, AddPatchToKept
<1>3. ASSUME NEW k \in Kind, NEW t \in Targets, InsnOverlay(k, t)
      PROVE  Kept
  <2>1. AddPatchTo(a, sec[a], insn.start, k, t) /\ insn.op # "idle"
    BY <1>3 DEF InsnOverlay
  <2>2. a \in Asms /\ insn.start \in Nat /\ sec[a] \in Table
    BY <2>1, InsnTypes
  <2> HIDE DEF a
  <2>3. QED
    BY <2>1, <2>2, KeepsSame, AddPatchToKept
<1>4. ASSUME sec' = sec
      PROVE  Kept
  BY <1>4, SameKept
<1>5. Kinds \subseteq Kind
  BY SizeAssumption, Zenon
<1>6. QED
  BY <1>1, <1>2, <1>3, <1>4, <1>5 DEF InsnStep, InsnBegin, InsnName, InsnReject

\* Every step but the one that notes an instruction.
LEMMA NextKept ==
  ASSUME TypeOK, [Next]_vars, ~ InsnDone
  PROVE  Kept
<1>1. ASSUME NEW a \in Asms, LabelStep(a)
      PROVE  sec' = sec
  BY <1>1 DEF LabelStep, Named, Bind, BindRejected, LabelHere
<1>2. ASSUME sec' = sec
      PROVE  Kept
  BY <1>2, SameKept
<1>3. QED
  BY <1>1, <1>2, SectionKept, PatchKept, InsnKept DEF Next, NewLabel, vars

\* That one changes nothing else.
LEMMA NotedOnly ==
  ASSUME TypeOK, InsnDone, NEW b \in Asms, NEW u \in SectionNames
  PROVE  /\ sec'[b][u].size = sec[b][u].size
         /\ sec'[b][u].align = sec[b][u].align
         /\ sec'[b][u].patches = sec[b][u].patches
         /\ sec'[b][u].insns = IF b = insn.asm /\ u = cur[b]
              THEN Append(sec[b][u].insns, [first |-> insn.start, end |-> Pos(b)])
              ELSE sec[b][u].insns
<1> DEFINE a == insn.asm
           s == cur[a]
           q == Append(sec[a][s].insns, [first |-> insn.start, end |-> Pos(a)])
           y == [sec[a][s] EXCEPT !.insns = q]
<1>1. a \in Asms /\ sec[a] \in Table /\ s \in SectionNames
  BY InsnTypes DEF InsnDone
<1>2. sec' = [sec EXCEPT ![a] = [sec[a] EXCEPT ![s] = y]]
  BY DEF InsnDone
<1>3. sec[a][s] \in Section
  BY <1>1 DEF Table
<1> HIDE DEF q
<1>4. /\ y.size = sec[a][s].size /\ y.align = sec[a][s].align
      /\ y.patches = sec[a][s].patches /\ y.insns = q
  BY <1>3 DEF Section
<1> HIDE DEF y
<1>5. CASE b = a /\ u = s
  <2>1. sec'[b][u] = y
    BY <1>1, <1>2, <1>5 DEF TypeOK, Table
  <2>2. QED
    BY <1>4, <1>5, <2>1 DEF q
<1>6. CASE b # a \/ u # s
  <2>1. sec'[b][u] = sec[b][u]
    BY <1>1, <1>2, <1>6 DEF TypeOK, Table
  <2>2. QED
    BY <1>6, <2>1
<1>7. QED
  BY <1>5, <1>6

\* Both together: the sections follow each other, whatever the step.
LEMMA NextFollows ==
  ASSUME TypeOK, EncodingOK, [Next]_vars, NEW a \in Asms, NEW s \in SectionNames
  PROVE  /\ Follows(sec[a][s], sec'[a][s])
         /\ Created(a, s) => sec[a][s].align <= sec'[a][s].align
<1>1. CASE InsnDone
  <2>1. sec' \in [Asms -> Table] /\ sec[a][s] \in Section /\ sec'[a][s] \in Section
    <3>1. TypeOK'
      BY <1>1, TypeInsn DEF InsnStep
    <3>2. QED
      BY <3>1 DEF TypeOK, Table
  <2>2. /\ sec'[a][s].size = sec[a][s].size
        /\ sec'[a][s].align = sec[a][s].align
        /\ sec'[a][s].patches = sec[a][s].patches
    BY <1>1, NotedOnly
  <2>3. sec[a][s].size <= sec'[a][s].size /\ sec[a][s].align <= sec'[a][s].align
    BY <2>1, <2>2, SectionFields
  <2>4. QED
    BY <2>1, <2>2, <2>3, SamePatches DEF Aligned
<1>2. CASE ~ InsnDone
  BY <1>2, NextKept DEF Kept, Keeps, Created
<1>3. QED
  BY <1>1, <1>2

\* No operation of the assembler, rejected or not, takes back a byte or a
\* patch that an earlier one recorded, or lowers the alignment of a section
\* that exists.
THEOREM SectionsKept == Spec => SectionsOnlyGrow
<1> DEFINE Only == \A a \in Asms, s \in SectionNames :
                     /\ sec[a][s].size <= sec'[a][s].size
                     /\ IsPrefix(sec[a][s].patches, sec'[a][s].patches)
                     /\ Created(a, s) => sec[a][s].align <= sec'[a][s].align
<1>1. LInv /\ [Next]_vars => Only
  <2> SUFFICES ASSUME LInv, [Next]_vars, NEW a \in Asms, NEW s \in SectionNames
               PROVE  /\ sec[a][s].size <= sec'[a][s].size
                      /\ IsPrefix(sec[a][s].patches, sec'[a][s].patches)
                      /\ Created(a, s) => sec[a][s].align <= sec'[a][s].align
    OBVIOUS
  <2>1. TypeOK /\ EncodingOK /\ TypeOK'
    BY TypeNext DEF LInv
  <2>2. sec[a][s].patches \in Seq(Patch) /\ sec'[a][s].patches \in Seq(Patch)
    BY <2>1, SectionFields DEF TypeOK, Section
  <2>3. /\ Longer(sec[a][s], sec'[a][s])
        /\ Created(a, s) => sec[a][s].align <= sec'[a][s].align
    BY <2>1, NextFollows DEF Follows
  <2>4. QED
    BY <2>2, <2>3, PrefixOfSame DEF Longer
<1>2. LInv /\ [Next]_vars => [Only]_vars
  BY <1>1
<1>3. QED
  BY <1>2, LInvAlways, PTL DEF Spec, SectionsOnlyGrow

\* Every patch ever recorded lies over emitted bytes: what the linker writes
\* is never outside of its section.
THEOREM PatchesStay == Spec => []PatchesInside
<1> DEFINE Ins == \A a \in Asms, s \in SectionNames : Inside(sec[a][s])
<1>1. ASSUME TypeOK, Ins
      PROVE  PatchesInside
  <2> SUFFICES ASSUME NEW a \in Asms, NEW s \in SectionNames,
                      NEW i \in DOMAIN sec[a][s].patches
               PROVE  LET p == sec[a][s].patches[i] IN
                      p.off + p.kind.size <= sec[a][s].size /\ ~ p.kind.slot
    BY DEF PatchesInside
  <2>1. sec[a][s] \in Section
    BY <1>1 DEF TypeOK
  <2>2. i \in 1 .. Len(sec[a][s].patches)
    BY <2>1, SectionFields
  <2>3. Inside(sec[a][s])
    BY <1>1
  <2>4. QED
    BY <2>2, <2>3 DEF Inside
<1>2. Init => Ins
  BY DEF Init, EmptySection, Inside
<1>3. LInv /\ Ins /\ [Next]_vars => Ins'
  BY NextFollows DEF LInv, Follows
<1>4. LInv /\ Ins => PatchesInside
  BY <1>1 DEF LInv
<1> HIDE DEF Ins
<1>5. QED
  BY <1>2, <1>3, <1>4, LInvAlways, PTL DEF Spec

-----------------------------------------------------------------------------
(* Instructions                                                             *)

\* Where a step puts a label, if it moves one: after what was emitted.
LabelsBehind ==
  \A l \in LabelIds :
    \/ label'[l].place = label[l].place
    \/ label'[l].place = Unbound
    \/ \E a \in Asms, s \in SectionNames, off \in Nat :
         /\ label'[l].place = [asm |-> a, sec |-> s, off |-> off]
         /\ sec[a][s].size <= off

LEMMA NextLabels ==
  ASSUME LInv, [Next]_vars
  PROVE  LabelsBehind
<1>1. LabelChange /\ TypeOK /\ LabelsInPlace
  BY NextChange, LInvBoundMade DEF LInv
<1>2. CASE Same
  BY <1>2 DEF Same, LabelsBehind
<1>3. CASE MakesOne
  <2> SUFFICES ASSUME NEW m \in LabelIds
               PROVE  label'[m].place = label[m].place \/ label'[m].place = Unbound
    BY DEF LabelsBehind
  <2>1. PICK l \in LabelIds, n \in Names \cup {NoName}, ow \in Asms \cup {NoAsm} :
          label' = [label EXCEPT ![l] =
                      [name |-> n, owner |-> ow, place |-> Unbound, seq |-> 0]]
    BY <1>3 DEF MakesOne
  <2>2. QED
    BY <1>1, <2>1 DEF TypeOK
<1>4. CASE BindsOne
  <2>1. PICK a \in Asms, l \in LabelIds, s \in SectionNames, off \in Nat :
          /\ label'[l].place = [asm |-> a, sec |-> s, off |-> off]
          /\ sec[a][s].size <= off
          /\ \A m \in LabelIds \ {l} : label'[m] = label[m]
    BY <1>1, <1>4, BindsOneEffect
  <2>2. QED
    BY <2>1 DEF LabelsBehind
<1>5. QED
  BY <1>1, <1>2, <1>3, <1>4 DEF LabelChange

\* While an instruction is encoded only pointer slots are bound.
SlotsOnly ==
  \A l \in LabelIds :
    \/ label'[l].place = label[l].place
    \/ label'[l].place = Unbound
    \/ label'[l].place.sec = "externs"

LEMMA AddPatchToSlots ==
  ASSUME TypeOK, NEW a \in Asms, NEW S, NEW off, NEW k, NEW t,
         AddPatchTo(a, S, off, k, t)
  PROVE  SlotsOnly
<1>1. CASE label' = label
  BY <1>1 DEF SlotsOnly
<1>2. CASE NewSlot(a, S, t)
  <2> DEFINE x == [name |-> NoName, owner |-> a,
                   place |-> [asm |-> a, sec |-> "externs",
                              off |-> PaddedSlot(a, S)["externs"].size],
                   seq |-> bindSeq + 1]
  <2>1. label' = [label EXCEPT ![FreshLabel] = x]
    BY <1>2 DEF NewSlot, PlaceLabel
  <2>2. x.place.sec = "externs"
    OBVIOUS
  <2> HIDE DEF x
  <2>3. QED
    BY <2>1, <2>2 DEF SlotsOnly, TypeOK
<1>3. QED
  BY <1>1, <1>2 DEF AddPatchTo

LEMMA InsnSlots ==
  ASSUME TypeOK, InsnStep
  PROVE  SlotsOnly
<1>1. ASSUME label' = label
      PROVE  SlotsOnly
  BY <1>1 DEF SlotsOnly
<1>2. ASSUME NEW n \in Names, InsnName(n)
      PROVE  SlotsOnly
  BY <1>2 DEF InsnName, ForwardName, SlotsOnly, TypeOK
<1>3. ASSUME NEW k \in Kinds, NEW t \in Targets, InsnField(k, t) \/ InsnOverlay(k, t)
      PROVE  SlotsOnly
  <2>1. insn.op # "idle" /\ \E S, off : AddPatchTo(insn.asm, S, off, k, t)
    BY <1>3 DEF InsnField, InsnOverlay
  <2>2. QED
    BY <2>1, InsnTypes, AddPatchToSlots
<1>4. QED
  BY <1>1, <1>2, <1>3 DEF InsnStep, InsnBegin, InsnReject, InsnBytes, InsnDone

\* The instructions I of section s of assembler a are apart from each other
\* and, outside the slots, from labels; size is the size of the section.
Apart(a, s, I, size) ==
  \A i \in 1 .. Len(I) :
    /\ I[i].first < I[i].end /\ I[i].end <= size
    /\ i + 1 \in 1 .. Len(I) => I[i].end <= I[i + 1].first
    /\ \A l \in LabelIds :
         label[l].place.asm = a /\ label[l].place.sec = s /\ s # "externs"
           => ~ (I[i].first < label[l].place.off /\ label[l].place.off < I[i].end)

\* The instruction being encoded begins after the ones before it, has bytes
\* once it is not only parsed, and no label lies behind its beginning.
InsnFits ==
  insn # Idle =>
    LET a == insn.asm
        I == sec[a][cur[a]].insns IN
    /\ \A i \in 1 .. Len(I) : I[i].end <= insn.start
    /\ insn.op # "parse" => insn.start < Pos(a)
    /\ cur[a] # "externs" =>
         \A l \in LabelIds :
           label[l].place.asm = a /\ label[l].place.sec = cur[a]
             => label[l].place.off <= insn.start

AllApart ==
  \A a \in Asms, s \in SectionNames : Apart(a, s, sec[a][s].insns, sec[a][s].size)

LEMMA InsnSeq ==
  ASSUME TypeOK, NEW a \in Asms, NEW s \in SectionNames
  PROVE  /\ sec[a][s].insns \in Seq(Span) /\ Len(sec[a][s].insns) \in Nat
         /\ DOMAIN sec[a][s].insns = 1 .. Len(sec[a][s].insns)
         /\ \A i \in 1 .. Len(sec[a][s].insns) :
              sec[a][s].insns[i].first \in Nat /\ sec[a][s].insns[i].end \in Nat
         /\ sec[a][s].size \in Nat
<1>1. sec[a][s].insns \in Seq(Span) /\ sec[a][s].size \in Nat
  BY DEF TypeOK, Section
<1>2. \A x \in Span : x.first \in Nat /\ x.end \in Nat
  BY DEF Span
<1>3. QED
  BY <1>1, <1>2, ElementOfSeq

\* A place of a label is an offset.
LEMMA PlaceNat ==
  ASSUME TypeOK, NEW l \in LabelIds
  PROVE  /\ label[l].place.off \in Nat
         /\ label[l].place # Unbound => label[l].place \in Place
         /\ Unbound.asm = NoAsm
<1>1. label[l].place \in Place \cup {Unbound}
  BY DEF TypeOK, LabelState
<1>2. QED
  BY <1>1 DEF Place, Unbound

LEMMA ApartStep ==
  ASSUME LInv, AllApart, InsnFits, [Next]_vars
  PROVE  AllApart'
<1> SUFFICES ASSUME NEW a \in Asms, NEW s \in SectionNames
             PROVE  Apart(a, s, sec[a][s].insns, sec[a][s].size)'
  BY DEF AllApart
<1> DEFINE I == sec[a][s].insns
<1>1. TypeOK /\ EncodingOK /\ TypeOK' /\ LabelsInPlace
  BY TypeNext DEF LInv
<1>2. /\ Len(I) \in Nat /\ sec[a][s].size \in Nat /\ sec'[a][s].size \in Nat
      /\ \A i \in 1 .. Len(I) : I[i].first \in Nat /\ I[i].end \in Nat
      /\ I \in Seq(Span)
  <2>1. /\ Len(I) \in Nat /\ sec[a][s].size \in Nat /\ I \in Seq(Span)
        /\ \A i \in 1 .. Len(I) : I[i].first \in Nat /\ I[i].end \in Nat
    BY <1>1, InsnSeq
  <2> HIDE DEF I
  <2>2. sec'[a][s].size \in Nat
    BY <1>1 DEF TypeOK, Section
  <2>3. QED
    BY <2>1, <2>2
<1>3. sec[a][s].size <= sec'[a][s].size
  <2>1. SizesGrow
    BY <1>1, NextGrows
  <2>2. QED
    BY <2>1 DEF SizesGrow
<1>4. Apart(a, s, I, sec[a][s].size)
  BY DEF AllApart
<1>5. ASSUME NEW i \in 1 .. Len(I), NEW l \in LabelIds,
             label'[l].place.asm = a, label'[l].place.sec = s, s # "externs"
      PROVE  ~ (I[i].first < label'[l].place.off /\ label'[l].place.off < I[i].end)
  <2>1. CASE label'[l].place = label[l].place
    BY <1>4, <1>5, <2>1 DEF Apart
  <2>2. CASE label'[l].place = Unbound
    BY <1>5, <2>2, AsmAssumption DEF Unbound
  <2>3. CASE \E b \in Asms, u \in SectionNames, off \in Nat :
               /\ label'[l].place = [asm |-> b, sec |-> u, off |-> off]
               /\ sec[b][u].size <= off
    <3>1. PICK b \in Asms, u \in SectionNames, off \in Nat :
            /\ label'[l].place = [asm |-> b, sec |-> u, off |-> off]
            /\ sec[b][u].size <= off
      BY <2>3
    <3>2. b = a /\ u = s /\ label'[l].place.off = off
      BY <1>5, <3>1
    <3>3. I[i].end <= sec[a][s].size
      BY <1>4 DEF Apart
    <3>4. QED
      BY <1>2, <3>1, <3>2, <3>3
  <2>4. QED
    BY <2>1, <2>2, <2>3, NextLabels DEF LabelsBehind
<1>6. ASSUME NEW i \in 1 .. Len(I)
      PROVE  I[i].first < I[i].end /\ I[i].end <= sec'[a][s].size
  BY <1>2, <1>3, <1>4 DEF Apart
<1>7. CASE sec'[a][s].insns = I
  <2>1. \A i \in 1 .. Len(I) : i + 1 \in 1 .. Len(I) => I[i].end <= I[i + 1].first
    BY <1>4 DEF Apart
  <2> HIDE DEF I
  <2>2. QED
    BY <1>5, <1>6, <1>7, <2>1 DEF Apart
<1>8. CASE InsnDone /\ a = insn.asm /\ s = cur[a]
  <2> DEFINE x == [first |-> insn.start, end |-> Pos(a)]
             J == Append(I, x)
  <2>1. sec'[a][s].insns = J /\ label' = label
    <3>1. sec'[a][s].insns = J
      BY <1>1, <1>8, NotedOnly
    <3>2. QED
      BY <1>8, <3>1 DEF InsnDone
  <2>2. insn.op # "idle" /\ insn.op # "parse" /\ insn # Idle
    BY <1>8 DEF InsnDone, Idle
  <2>3. insn.start \in Nat /\ Pos(a) = sec[a][s].size /\ Pos(a) \in Nat
    BY <1>1, <1>8, <2>2, InsnTypes
  <2>4. /\ insn.start < Pos(a)
        /\ \A i \in 1 .. Len(I) : I[i].end <= insn.start
        /\ s # "externs" => \A l \in LabelIds :
             label[l].place.asm = a /\ label[l].place.sec = s
               => label[l].place.off <= insn.start
    BY <1>8, <2>2 DEF InsnFits
  <2>5. x \in Span /\ x.first = insn.start /\ x.end = Pos(a)
    BY <2>3 DEF Span
  <2> HIDE DEF x
  <2>6. /\ Len(J) = Len(I) + 1 /\ J[Len(I) + 1] = x
        /\ \A i \in 1 .. Len(I) : J[i] = I[i]
    BY <1>2, <2>5, AppendProperties
  <2> HIDE DEF J, I
  <2>7. ASSUME NEW i \in 1 .. Len(J)
        PROVE  /\ J[i].first < J[i].end /\ J[i].end <= sec'[a][s].size
               /\ i + 1 \in 1 .. Len(J) => J[i].end <= J[i + 1].first
               /\ \A l \in LabelIds :
                    label'[l].place.asm = a /\ label'[l].place.sec = s /\ s # "externs"
                      => ~ (/\ J[i].first < label'[l].place.off
                            /\ label'[l].place.off < J[i].end)
    <3>1. CASE i \in 1 .. Len(I)
      <4>1. i + 1 \in 1 .. Len(J) => J[i].end <= J[i + 1].first
        <5>1. CASE i + 1 \in 1 .. Len(I)
          BY <1>4, <2>6, <3>1, <5>1 DEF Apart, I
        <5>2. CASE i = Len(I)
          BY <1>2, <2>4, <2>5, <2>6, <3>1, <5>2
        <5>3. QED
          BY <1>2, <3>1, <5>1, <5>2
      <4>2. QED
        BY <1>5, <1>6, <2>6, <3>1, <4>1
    <3>2. CASE i = Len(I) + 1
      <4>1. J[i].first = insn.start /\ J[i].end = Pos(a) /\ i + 1 \notin 1 .. Len(J)
        BY <1>2, <2>5, <2>6, <3>2
      <4>2. \A l \in LabelIds : label[l].place.off \in Nat
        BY <1>1, PlaceNat
      <4>3. QED
        BY <1>2, <1>3, <2>1, <2>3, <2>4, <4>1, <4>2
    <3>3. QED
      BY <1>2, <2>6, <3>1, <3>2
  <2>8. QED
    BY <2>1, <2>7 DEF Apart
<1>9. sec'[a][s].insns = I \/ (InsnDone /\ a = insn.asm /\ s = cur[a])
  <2>1. CASE InsnDone
    BY <1>1, <2>1, NotedOnly
  <2>2. CASE ~ InsnDone
    BY <1>1, <2>2, NextKept DEF Kept, Keeps
  <2>3. QED
    BY <2>1, <2>2
<1>10. QED
  BY <1>7, <1>8, <1>9

\* A step of an instruction that goes on with it.
LEMMA FitsOn ==
  ASSUME LInv, InsnFits, InsnStep, ~ InsnDone, insn # Idle,
         insn'.start = insn.start, insn'.asm = insn.asm, cur' = cur,
         insn'.op # "parse" =>
           insn.start < sec'[insn.asm][cur[insn.asm]].size
  PROVE  InsnFits'
<1> DEFINE a == insn.asm
           s == cur[a]
           I == sec[a][s].insns
<1>1. TypeOK
  BY DEF LInv
<1>2. insn.op # "idle"
  BY <1>1 DEF TypeOK, Frame
<1>3. a \in Asms /\ s \in SectionNames
  BY <1>1, <1>2, InsnTypes
<1>4. sec'[a][s].insns = I
  BY <1>1, <1>3, InsnKept DEF Kept, Keeps
<1>5. \A i \in 1 .. Len(I) : I[i].end <= insn.start
  BY DEF InsnFits
<1>6. s # "externs" => \A l \in LabelIds :
        label[l].place.asm = a /\ label[l].place.sec = s
          => label[l].place.off <= insn.start
  BY DEF InsnFits
<1>7. ASSUME s # "externs", NEW l \in LabelIds,
             label'[l].place.asm = a, label'[l].place.sec = s
      PROVE  label'[l].place.off <= insn.start
  <2>1. CASE label'[l].place = label[l].place
    BY <1>6, <1>7, <2>1
  <2>2. CASE label'[l].place = Unbound
    BY <1>3, <1>7, <2>2, AsmAssumption DEF Unbound
  <2>3. CASE label'[l].place.sec = "externs"
    BY <1>7, <2>3
  <2>4. QED
    BY <1>1, <2>1, <2>2, <2>3, InsnSlots DEF SlotsOnly
<1>8. insn'.asm = a /\ cur'[a] = s /\ insn'.start = insn.start
  OBVIOUS
<1>9. insn'.op # "parse" => insn.start < sec'[a][s].size
  OBVIOUS
<1> HIDE DEF a, s, I
<1>10. QED
  BY <1>4, <1>5, <1>7, <1>8, <1>9 DEF InsnFits, Pos, I

LEMMA FitsStep ==
  ASSUME LInv, AllApart, InsnFits, [Next]_vars
  PROVE  InsnFits'
<1>1. TypeOK /\ EncodingOK /\ LabelsInPlace
  BY DEF LInv
<1>2. ASSUME insn' = Idle
      PROVE  InsnFits'
  BY <1>2 DEF InsnFits
<1>3. ASSUME NEW a \in Asms, InsnBegin(a)
      PROVE  InsnFits'
  <2> DEFINE s == cur[a]
             I == sec[a][s].insns
  <2>1. /\ insn'.op = "parse" /\ insn'.asm = a /\ insn'.start = Pos(a)
        /\ UNCHANGED <<sec, cur, label>>
    BY <1>3 DEF InsnBegin
  <2>2. s \in SectionNames /\ Pos(a) = sec[a][s].size
    BY <1>1 DEF TypeOK, Pos
  <2>3. \A i \in 1 .. Len(I) : I[i].end <= Pos(a)
    BY <2>2 DEF AllApart, Apart
  <2>4. ASSUME NEW l \in LabelIds, label[l].place.asm = a, label[l].place.sec = s
        PROVE  label[l].place.off <= Pos(a)
    <3>1. IsBound(l)
      BY <2>4, AsmAssumption DEF IsBound, Unbound
    <3>2. QED
      BY <1>1, <2>2, <2>4, <3>1 DEF LabelsInPlace
  <2> HIDE DEF s, I
  <2>5. QED
    BY <2>1, <2>3, <2>4 DEF InsnFits, s, I
<1>4. ASSUME NEW n \in Names, InsnName(n)
      PROVE  InsnFits'
  <2>1. /\ insn # Idle /\ insn' = insn /\ cur' = cur /\ insn.op = "parse"
        /\ InsnStep /\ ~ InsnDone
    BY <1>4 DEF InsnName, Idle, InsnStep, InsnDone
  <2>2. QED
    BY <2>1, FitsOn
<1>5. ASSUME insn.op # "idle"
      PROVE  /\ insn.start \in Nat /\ Pos(insn.asm) \in Nat /\ insn.start <= Pos(insn.asm)
             /\ insn # Idle /\ insn.asm \in Asms /\ cur[insn.asm] \in SectionNames
             /\ sec[insn.asm] \in Table /\ insn \in Frame
             /\ Pos(insn.asm) = sec[insn.asm][cur[insn.asm]].size
             /\ insn.op # "parse" => insn.start < sec[insn.asm][cur[insn.asm]].size
  BY <1>1, <1>5, InsnTypes DEF EncodingOK, InsnFits
<1>6. ASSUME NEW n \in 1 .. MaxSize, NEW how \in {"flush", "words"}, InsnBytes(n, how)
      PROVE  InsnFits'
  <2> DEFINE a == insn.asm
             s == cur[a]
  <2>1. insn.op # "idle" /\ insn' = [insn EXCEPT !.op = how] /\ cur' = cur
        /\ sec' = [sec EXCEPT ![a] = Grow(sec[a], s, n)]
    BY <1>6 DEF InsnBytes
  <2>2. n \in Nat /\ n > 0
    BY SizeAssumption
  <2>3. Grow(sec[a], s, n)[s].size = sec[a][s].size + n
    BY <1>5, <2>1, <2>2, GrowSize
  <2>4. sec'[a][s].size = sec[a][s].size + n
    BY <1>1, <1>5, <2>1, <2>3 DEF TypeOK
  <2>5. insn.start < sec'[a][s].size
    BY <1>5, <2>1, <2>2, <2>4
  <2>6. insn'.start = insn.start /\ insn'.asm = insn.asm
    BY <1>5, <2>1 DEF Frame
  <2>7. InsnStep /\ ~ InsnDone
    <3>1. InsnStep
      BY <1>6 DEF InsnStep
    <3>2. insn' # Idle
      BY <1>5, <1>6, <2>1 DEF Frame, Idle
    <3>3. QED
      BY <3>1, <3>2 DEF InsnDone
  <2>8. QED
    BY <1>5, <2>1, <2>5, <2>6, <2>7, FitsOn
<1>7. ASSUME NEW k \in Kinds, NEW t \in Targets, InsnField(k, t) \/ InsnOverlay(k, t)
      PROVE  InsnFits'
  <2> DEFINE a == insn.asm
             s == cur[a]
  <2>1. /\ insn.op # "idle" /\ insn.op # "parse" /\ cur' = cur
        /\ insn' = insn \/ insn' = [insn EXCEPT !.op = "patched"]
    BY <1>7 DEF InsnField, InsnOverlay
  <2>2. insn'.start = insn.start /\ insn'.asm = insn.asm
    BY <1>5, <2>1 DEF Frame
  <2>3. insn' # Idle
    BY <1>5, <2>1 DEF Frame, Idle
  <2>4. InsnStep /\ ~ InsnDone
    BY <1>7, <2>3 DEF InsnStep, InsnDone
  <2>5. insn.start < sec'[a][s].size
    <3>1. sec[a][s].size <= sec'[a][s].size
      BY <1>1, <1>5, <2>1, NextGrows DEF SizesGrow
    <3>2. sec'[a][s].size \in Nat
      <4>1. TypeOK'
        BY <1>1, TypeNext
      <4>2. QED
        BY <1>5, <2>1, <4>1 DEF TypeOK, Section
    <3>3. QED
      BY <1>5, <2>1, <3>1, <3>2
  <2>6. QED
    BY <1>5, <2>1, <2>2, <2>4, <2>5, FitsOn
<1>8. CASE InsnStep
  BY <1>2, <1>3, <1>4, <1>6, <1>7, <1>8 DEF InsnStep, InsnReject, InsnDone
<1>9. ASSUME NEW a \in Asms, SectionStep(a) \/ PatchStep(a) \/ LabelStep(a)
      PROVE  InsnFits'
  BY <1>2, <1>9, NotEncoding
<1>10. ASSUME NEW n \in Names \cup {NoName}, NEW ow \in Asms \cup {NoAsm},
              NewLabel(n, ow)
       PROVE  InsnFits'
  BY <1>2, <1>10 DEF NewLabel
<1>11. CASE UNCHANGED vars
  BY <1>11 DEF vars, InsnFits, Pos
<1>12. QED
  BY <1>8, <1>9, <1>10, <1>11 DEF Next

\* The bytes noted as one instruction are emitted and belong to no other, and
\* outside the pointer slots no label ever points between them: what a listing
\* takes as one line is one instruction.
THEOREM InsnsDisjoint == Spec => []InsnsApart
<1>1. ASSUME TypeOK, AllApart
      PROVE  InsnsApart
  <2> SUFFICES ASSUME NEW a \in Asms, NEW s \in SectionNames,
                      NEW i \in DOMAIN sec[a][s].insns
               PROVE  LET I == sec[a][s].insns IN
                      /\ I[i].first < I[i].end /\ I[i].end <= sec[a][s].size
                      /\ i + 1 \in DOMAIN I => I[i].end <= I[i + 1].first
                      /\ \A l \in LabelIds :
                           label[l].place.asm = a /\ label[l].place.sec = s
                             /\ s # "externs"
                             => ~ (/\ I[i].first < label[l].place.off
                                   /\ label[l].place.off < I[i].end)
    BY DEF InsnsApart
  <2>1. DOMAIN sec[a][s].insns = 1 .. Len(sec[a][s].insns)
    BY <1>1, InsnSeq
  <2>2. Apart(a, s, sec[a][s].insns, sec[a][s].size)
    BY <1>1 DEF AllApart
  <2>3. QED
    BY <2>1, <2>2 DEF Apart
<1>2. Init => AllApart /\ InsnFits
  BY DEF Init, EmptySection, AllApart, Apart, InsnFits
<1>3. LInv /\ AllApart /\ InsnFits /\ [Next]_vars => (AllApart /\ InsnFits)'
  BY ApartStep, FitsStep
<1>4. LInv /\ AllApart => InsnsApart
  BY <1>1 DEF LInv
<1>5. QED
  BY <1>2, <1>3, <1>4, LInvAlways, PTL DEF Spec

-----------------------------------------------------------------------------
(* Slots                                                                    *)

\* Section X has a slot for an extern of name e at off.
SlotIn(X, e, off) ==
  /\ off % SlotSize = 0
  /\ off + SlotSize <= X.size
  /\ \E i \in 1 .. Len(X.patches) :
       /\ X.patches[i].off = off /\ X.patches[i].kind = ABS64
       /\ X.patches[i].target \in Externs /\ ExtName[X.patches[i].target] = e

\* A slot made by a step over the table S.
SlotMade(a, S, e) ==
  /\ slots[a][ExtName[e]] = NoLabel
  /\ NewSlot(a, S, e)
  /\ Keeps(sec[a], S, ToSet(order[a]))
  /\ Keeps(SlotTable(a, S, e), sec'[a], ToSet(order[a]))

SlotChange ==
  slots' = slots \/ \E a \in Asms, S \in Table, e \in Externs : SlotMade(a, S, e)

LEMMA AddPatchToSlotChange ==
  ASSUME TypeOK, NEW a \in Asms, NEW S \in Table, NEW off \in Nat,
         NEW k \in Kind, NEW t \in Targets, AddPatchTo(a, S, off, k, t),
         Keeps(sec[a], S, ToSet(order[a]))
  PROVE  SlotChange
<1> DEFINE s == cur[a]
           C == ToSet(order[a])
           T == SlotTable(a, S, t)
<1>1. CASE slots' = slots
  BY <1>1 DEF SlotChange
<1>2. CASE k.slot /\ slots[a][ExtName[t]] = NoLabel
  <2>1. /\ t \in Externs /\ NewSlot(a, S, t)
        /\ sec' = [sec EXCEPT ![a] = Record(T, s, off, k, FreshLabel)]
    BY <1>2 DEF AddPatchTo
  <2>2. s \in SectionNames /\ off + k.size <= S[s].size
    BY DEF TypeOK, AddPatchTo, InEmitted
  <2>3. T \in Table /\ Keeps(S, T, C)
    BY <2>1, SlotType, SlotKeeps
  <2>4. FreshLabel \in Targets
    BY <2>1, FreshLabelType DEF NewSlot, Targets
  <2> HIDE DEF T, s, C
  <2>5. off + k.size <= T[s].size
    <3>1. S[s].size <= T[s].size
      BY <2>2, <2>3 DEF Keeps, Follows, Longer
    <3>2. S[s].size \in Nat /\ T[s].size \in Nat /\ k.size \in Nat
      BY <2>2, <2>3, SizeNat DEF Kind
    <3>3. QED
      BY <2>2, <3>1, <3>2
  <2>6. Keeps(T, Record(T, s, off, k, FreshLabel), C)
    BY <2>2, <2>3, <2>4, <2>5, RecordKeeps
  <2>7. sec'[a] = Record(T, s, off, k, FreshLabel)
    BY <2>1 DEF TypeOK
  <2>8. QED
    BY <1>2, <2>1, <2>6, <2>7 DEF SlotChange, SlotMade, T, C
<1>3. QED
  BY <1>1, <1>2 DEF AddPatchTo

LEMMA NextSlotChange ==
  ASSUME TypeOK, [Next]_vars
  PROVE  SlotChange
<1>1. ASSUME slots' = slots
      PROVE  SlotChange
  BY <1>1 DEF SlotChange
<1>2. ASSUME NEW a \in Asms, NEW off \in Nat, NEW k \in Kind, NEW t \in Targets,
             AddPatch(a, off, k, t) \/ EmitPatch(a, k, t)
      PROVE  SlotChange
  <2>1. sec[a] \in Table /\ Pos(a) \in Nat
    BY DEF TypeOK, Table, Pos, Section
  <2>2. CASE AddPatch(a, off, k, t)
    BY <2>1, <2>2, KeepsSame, AddPatchToSlotChange DEF AddPatch
  <2>3. CASE EmitPatch(a, k, t)
    BY <2>1, <2>3, ReservedKeeps, AddPatchToSlotChange DEF EmitPatch
  <2>4. QED
    BY <1>2, <2>2, <2>3
<1>3. ASSUME NEW a \in Asms, NEW e \in Externs, ExternSlot(a, e)
      PROVE  SlotChange
  <2>1. sec[a] \in Table
    BY DEF TypeOK, Table
  <2>2. /\ sec' = [sec EXCEPT ![a] = SlotTable(a, sec[a], e)]
        /\ slots[a][ExtName[e]] = NoLabel /\ NewSlot(a, sec[a], e)
    BY <1>3 DEF ExternSlot
  <2>3. sec'[a] = SlotTable(a, sec[a], e) /\ SlotTable(a, sec[a], e) \in Table
    BY <2>1, <2>2, SlotType DEF TypeOK
  <2>4. QED
    BY <2>1, <2>2, <2>3, KeepsSame DEF SlotChange, SlotMade
<1>4. ASSUME NEW k \in Kind, NEW t \in Targets, InsnField(k, t) \/ InsnOverlay(k, t)
      PROVE  SlotChange
  <2>1. insn.op # "idle"
    BY <1>4 DEF InsnField, InsnOverlay
  <2>2. insn.asm \in Asms /\ sec[insn.asm] \in Table /\ insn.start \in Nat
        /\ Pos(insn.asm) \in Nat
    BY <2>1, InsnTypes
  <2>3. CASE InsnField(k, t)
    BY <2>2, <2>3, ReservedKeeps, AddPatchToSlotChange DEF InsnField
  <2>4. CASE InsnOverlay(k, t)
    BY <2>2, <2>4, KeepsSame, AddPatchToSlotChange DEF InsnOverlay
  <2>5. QED
    BY <1>4, <2>3, <2>4
<1>5. ASSUME NEW a \in Asms, PatchStep(a)
      PROVE  SlotChange
  <2>1. ASSUME NEW k \in Kind, NEW t \in Targets, EmitPatch(a, k, t)
        PROVE  SlotChange
    BY <1>2, <2>1
  <2>2. ASSUME NEW off \in Nat, NEW k \in Kind, NEW t \in Targets,
               AddPatch(a, off, k, t)
        PROVE  SlotChange
    BY <1>2, <2>2
  <2>3. ASSUME NEW n \in Nat, Emit(a, n)
        PROVE  SlotChange
    BY <1>1, <2>3 DEF Emit
  <2>4. ASSUME NEW k \in Kind, NEW l \in LabelIds, EmitPatchRejected(a, k, l)
        PROVE  SlotChange
    BY <1>1, <2>4 DEF EmitPatchRejected
  <2>5. ASSUME NEW n \in Aligns, NEW emptyFill \in BOOLEAN, Align(a, n, emptyFill)
        PROVE  SlotChange
    BY <1>1, <2>5 DEF Align
  <2>6. QED
    BY <1>3, <1>5, <2>1, <2>2, <2>3, <2>4, <2>5, BoundsNat, PatchTypes
       DEF PatchStep, DataInt, DataRef
<1>6. ASSUME NEW a \in Asms, SectionStep(a) \/ LabelStep(a)
      PROVE  SlotChange
  BY <1>1, <1>6 DEF SectionStep, SwitchSection, ExitSection, LabelStep, Named,
                    Bind, BindRejected, LabelHere
<1>7. CASE InsnStep
  <2>1. Kinds \subseteq Kind
    BY SizeAssumption, Zenon
  <2>2. QED
    BY <1>1, <1>4, <1>7, <2>1
       DEF InsnStep, InsnBegin, InsnName, InsnReject, InsnBytes, InsnDone
<1>8. QED
  BY <1>1, <1>5, <1>6, <1>7 DEF Next, NewLabel, vars

\* A new slot is a cell at the end of the externs section.
LEMMA SlotMadeEffect ==
  ASSUME TypeOK, TypeOK', NEW a \in Asms, NEW S \in Table, NEW e \in Externs,
         SlotMade(a, S, e)
  PROVE  \E l \in LabelIds \ made, off \in Nat :
           /\ slots' = [slots EXCEPT ![a][ExtName[e]] = l]
           /\ label'[l].place = [asm |-> a, sec |-> "externs", off |-> off]
           /\ sec[a]["externs"].size <= off
           /\ SlotIn(sec'[a]["externs"], ExtName[e], off)
<1> DEFINE l == FreshLabel
           P == PaddedSlot(a, S)["externs"]
           off == P.size
           T == SlotTable(a, S, e)["externs"]
           X == sec'[a]["externs"]
<1>1. "externs" \in SectionNames /\ SlotSize \in Nat \ {0}
  BY SizeAssumption
<1>2. l \in LabelIds \ made /\ slots' = [slots EXCEPT ![a][ExtName[e]] = l]
  BY FreshLabelType DEF SlotMade, NewSlot
<1>3. label'[l].place = [asm |-> a, sec |-> "externs", off |-> off]
  BY <1>2 DEF SlotMade, NewSlot, PlaceLabel, TypeOK
<1>4. off \in Nat /\ SlotTable(a, S, e) \in Table /\ PaddedSlot(a, S) \in Table
  BY SlotType
<1>5. off % SlotSize = 0
  <2> DEFINE A == IF Created(a, "externs") THEN S
                  ELSE [S EXCEPT !["externs"].align = SlotSize]
             n == A["externs"].size
  <2>1. PaddedSlot(a, S) = Grow(A, "externs", Pad(n, SlotSize))
    BY DEF PaddedSlot
  <2>2. A \in Table
    <3>1. S["externs"] \in Section
      BY <1>1 DEF Table
    <3>2. [S["externs"] EXCEPT !.align = SlotSize] \in Section
      BY <1>1, <3>1 DEF Section
    <3>3. QED
      BY <1>1, <3>2, TableExcept
  <2>3. n \in Nat
    BY <1>1, <2>2, SizeNat
  <2>4. Pad(n, SlotSize) \in Nat
    BY <1>1, <2>3, PadType
  <2> HIDE DEF A
  <2>5. off = n + Pad(n, SlotSize)
    BY <1>1, <2>1, <2>2, <2>4, GrowSize
  <2> HIDE DEF off, P, n
  <2>6. QED
    BY <1>1, <2>3, <2>5, PadRounds DEF Pad
<1>6. T.size = off + SlotSize
  BY <1>1, SlotSizes
<1>7. sec[a]["externs"].size <= off
  <2>1. sec[a] \in Table
    BY DEF TypeOK, Table
  <2>2. sec[a]["externs"].size <= S["externs"].size
    BY <1>1 DEF SlotMade, Keeps, Follows, Longer
  <2>3. S["externs"].size <= off
    BY <1>1, SlotSizes
  <2>4. sec[a]["externs"].size \in Nat /\ S["externs"].size \in Nat
    BY <1>1, <2>1, SizeNat
  <2>5. QED
    BY <1>4, <2>2, <2>3, <2>4
<1>8. X \in Section /\ T \in Section
  BY <1>1, <1>4 DEF TypeOK, Table
<1>9. Longer(T, X)
  BY <1>1 DEF SlotMade, Keeps, Follows
<1>10. off + SlotSize <= X.size
  BY <1>6, <1>8, <1>9, SectionFields DEF Longer
<1>11. \E i \in 1 .. Len(T.patches) :
         T.patches[i] = [off |-> off, kind |-> ABS64, target |-> e]
  <2> DEFINE G == Grow(PaddedSlot(a, S), "externs", SlotSize)
             q == G["externs"].patches
             p == [off |-> off, kind |-> ABS64, target |-> e]
  <2>1. G \in Table
    BY <1>1, <1>4, GrowType
  <2>2. [ABS64 EXCEPT !.slot = FALSE] = ABS64
    <3>1. ABS64 \in Kind /\ ABS64.slot = FALSE
      BY PatchTypes DEF ABS64
    <3>2. QED
      BY <3>1 DEF Kind
  <2>3. SlotTable(a, S, e) = [G EXCEPT !["externs"].patches = Append(q, p)]
    BY <2>2 DEF SlotTable, Record
  <2> HIDE DEF G
  <2>4. G["externs"] \in Section
    BY <1>1, <2>1 DEF Table
  <2>5. p \in Patch /\ q \in Seq(Patch) /\ Len(q) \in Nat
    BY <1>4, <2>4, PatchTypes, SectionFields DEF Patch, Targets
  <2>6. T = [G["externs"] EXCEPT !.patches = Append(q, p)]
    BY <1>1, <2>1, <2>3 DEF Table
  <2> HIDE DEF q, p, T
  <2>7. T.patches = Append(q, p)
    BY <2>4, <2>6 DEF Section
  <2>8. Len(T.patches) = Len(q) + 1 /\ T.patches[Len(q) + 1] = p
    BY <2>5, <2>7, AppendProperties
  <2>9. QED
    BY <2>5, <2>8 DEF p
<1> HIDE DEF T, X, off, P, l
<1>12. PICK i \in 1 .. Len(T.patches) :
         T.patches[i] = [off |-> off, kind |-> ABS64, target |-> e]
  BY <1>11
<1>13. i \in 1 .. Len(X.patches) /\ X.patches[i] = T.patches[i]
  BY <1>8, <1>9, SectionFields DEF Longer
<1>14. SlotIn(X, ExtName[e], off)
  BY <1>5, <1>10, <1>12, <1>13 DEF SlotIn
<1>15. QED
  BY <1>2, <1>3, <1>4, <1>7, <1>14 DEF X

AllAligned == \A a \in Asms : Aligned(sec[a]["externs"])

AllSlots ==
  \A a \in Asms, e \in ExtNames : slots[a][e] # NoLabel =>
    LET p == label[slots[a][e]].place IN
    /\ p.asm = a /\ p.sec = "externs"
    /\ SlotIn(sec[a]["externs"], e, p.off)
    /\ \A f \in ExtNames : slots[a][f] # NoLabel /\ f # e
         => label[slots[a][f]].place.off # p.off

LEMMA SlotsStep ==
  ASSUME LInv, AllSlots, [Next]_vars
  PROVE  AllSlots'
<1>1. TypeOK /\ EncodingOK /\ TypeOK'
  BY TypeNext DEF LInv
<1>2. "externs" \in SectionNames /\ SlotSize \in Nat \ {0}
  BY SizeAssumption
\* A slot there was is still there.
<1>3. ASSUME NEW a \in Asms, NEW e \in ExtNames, slots[a][e] # NoLabel
      PROVE  LET l == slots[a][e]
                 p == label[l].place IN
             /\ label'[l].place = p /\ p.asm = a /\ p.sec = "externs"
             /\ SlotIn(sec'[a]["externs"], e, p.off)
             /\ p.off \in Nat /\ p.off + SlotSize <= sec[a]["externs"].size
             /\ sec[a]["externs"].size \in Nat
  <2> DEFINE l == slots[a][e]
             p == label[l].place
             X == sec[a]["externs"]
             Y == sec'[a]["externs"]
  <2>1. p.asm = a /\ p.sec = "externs" /\ SlotIn(X, e, p.off)
    BY <1>3 DEF AllSlots
  <2>2. l \in LabelIds
    BY <1>1, <1>3 DEF TypeOK
  <2>3. label'[l] = label[l]
    <3>1. IsBound(l)
      BY <2>1, AsmAssumption DEF IsBound, Unbound
    <3>2. QED
      BY <2>2, <3>1, BoundStays
  <2>4. X \in Section /\ Y \in Section
    BY <1>1, <1>2 DEF TypeOK
  <2>5. Longer(X, Y)
    BY <1>1, <1>2, NextFollows DEF Follows
  <2>6. p.off \in Nat /\ X.size \in Nat /\ Y.size \in Nat
    BY <1>1, <2>2, <2>4, PlaceNat, SectionFields
  <2>7. p.off % SlotSize = 0 /\ p.off + SlotSize <= X.size
    BY <2>1 DEF SlotIn
  <2>8. PICK i \in 1 .. Len(X.patches) :
          /\ X.patches[i].off = p.off /\ X.patches[i].kind = ABS64
          /\ X.patches[i].target \in Externs
          /\ ExtName[X.patches[i].target] = e
    BY <2>1 DEF SlotIn
  <2>9. i \in 1 .. Len(Y.patches) /\ Y.patches[i] = X.patches[i]
    <3>1. Len(X.patches) \in Nat /\ Len(Y.patches) \in Nat
      BY <2>4, SectionFields
    <3>2. Len(X.patches) <= Len(Y.patches) /\ Y.patches[i] = X.patches[i]
      BY <2>5, <2>8 DEF Longer
    <3> HIDE DEF X, Y
    <3>3. QED
      BY <2>8, <3>1, <3>2
  <2>10. p.off + SlotSize <= Y.size
    <3>1. X.size <= Y.size
      BY <2>5 DEF Longer
    <3> HIDE DEF p, X, Y
    <3>2. QED
      BY <1>2, <2>6, <2>7, <3>1
  <2>11. label'[l].place = p
    BY <2>3
  <2>12. SlotIn(Y, e, p.off)
    BY <2>7, <2>8, <2>9, <2>10 DEF SlotIn
  <2>13. QED
    BY <2>1, <2>6, <2>7, <2>11, <2>12
<1>4. CASE slots' = slots
  BY <1>3, <1>4 DEF AllSlots
<1>5. ASSUME NEW b \in Asms, NEW S \in Table, NEW x \in Externs, SlotMade(b, S, x)
      PROVE  AllSlots'
  <2>1. PICK l \in LabelIds \ made, off \in Nat :
          /\ slots' = [slots EXCEPT ![b][ExtName[x]] = l]
          /\ label'[l].place = [asm |-> b, sec |-> "externs", off |-> off]
          /\ sec[b]["externs"].size <= off
          /\ SlotIn(sec'[b]["externs"], ExtName[x], off)
    BY <1>1, <1>5, SlotMadeEffect
  <2>2. ExtName[x] \in ExtNames /\ slots[b][ExtName[x]] = NoLabel
    BY <1>5, ExternAssumption DEF SlotMade
  <2>3. ASSUME NEW a \in Asms, NEW e \in ExtNames
        PROVE  slots'[a][e] = IF a = b /\ e = ExtName[x] THEN l ELSE slots[a][e]
    BY <1>1, <2>1, <2>2 DEF TypeOK
  \* The places of the slots of b: the new one is behind the others.
  <2>4. ASSUME NEW e \in ExtNames, slots[b][e] # NoLabel
        PROVE  label'[slots[b][e]].place.off # off
    <3> DEFINE p == label[slots[b][e]].place
    <3>1. /\ label'[slots[b][e]].place = p /\ p.off \in Nat
          /\ p.off + SlotSize <= sec[b]["externs"].size
          /\ sec[b]["externs"].size \in Nat
      BY <1>3, <2>4
    <3> HIDE DEF p
    <3>2. QED
      BY <1>2, <2>1, <3>1
  <2> SUFFICES ASSUME NEW a \in Asms, NEW e \in ExtNames, slots'[a][e] # NoLabel
               PROVE  LET p == label'[slots'[a][e]].place IN
                      /\ p.asm = a /\ p.sec = "externs"
                      /\ SlotIn(sec'[a]["externs"], e, p.off)
                      /\ \A f \in ExtNames : slots'[a][f] # NoLabel /\ f # e
                           => label'[slots'[a][f]].place.off # p.off
    BY DEF AllSlots
  <2>5. CASE a = b /\ e = ExtName[x]
    <3>1. slots'[a][e] = l
      BY <2>3, <2>5
    <3>2. ASSUME NEW f \in ExtNames, slots'[a][f] # NoLabel, f # e
          PROVE  label'[slots'[a][f]].place.off # off
      <4>1. slots'[a][f] = slots[b][f]
        BY <2>3, <2>5, <3>2
      <4>2. QED
        BY <2>4, <3>2, <4>1
    <3>3. QED
      BY <2>1, <2>5, <3>1, <3>2
  <2>6. CASE ~ (a = b /\ e = ExtName[x])
    <3> DEFINE p == label[slots[a][e]].place
    <3>1. slots'[a][e] = slots[a][e] /\ slots[a][e] # NoLabel
      BY <2>3, <2>6
    <3>2. /\ label'[slots'[a][e]].place = p /\ p.asm = a /\ p.sec = "externs"
          /\ SlotIn(sec'[a]["externs"], e, p.off)
      BY <1>3, <3>1
    <3>3. ASSUME NEW f \in ExtNames, slots'[a][f] # NoLabel, f # e
          PROVE  label'[slots'[a][f]].place.off # p.off
      <4>1. CASE a = b /\ f = ExtName[x]
        <5>1. label'[slots'[a][f]].place.off = off
          BY <2>1, <2>3, <4>1
        <5>2. label'[slots[b][e]].place.off # off
          BY <2>4, <3>1, <4>1
        <5>3. QED
          BY <3>1, <3>2, <4>1, <5>1, <5>2
      <4>2. CASE ~ (a = b /\ f = ExtName[x])
        <5>1. slots'[a][f] = slots[a][f] /\ slots[a][f] # NoLabel
          BY <2>3, <3>3, <4>2
        <5>2. label'[slots'[a][f]].place = label[slots[a][f]].place
          BY <1>3, <5>1
        <5>3. QED
          BY <3>1, <3>3, <5>1, <5>2 DEF AllSlots
      <4>3. QED
        BY <4>1, <4>2
    <3>4. QED
      BY <3>2, <3>3
  <2>7. QED
    BY <2>5, <2>6
<1>6. QED
  BY <1>1, <1>4, <1>5, NextSlotChange DEF SlotChange

\* An extern name has one pointer slot in an assembler, for good: an aligned
\* cell of its own in the externs section, which is aligned as well and whose
\* patch fills it with the address of an extern of that name.
THEOREM SlotsSound == Spec => []SlotsWellFormed
<1>1. ASSUME TypeOK, AllAligned, AllSlots
      PROVE  SlotsWellFormed
  <2> SUFFICES ASSUME NEW a \in Asms, NEW e \in ExtNames, slots[a][e] # NoLabel
               PROVE  LET p == label[slots[a][e]].place
                          X == sec[a]["externs"] IN
                      /\ p.asm = a /\ p.sec = "externs"
                      /\ X.align % SlotSize = 0
                      /\ p.off % SlotSize = 0
                      /\ p.off + SlotSize <= X.size
                      /\ \E i \in DOMAIN X.patches :
                           /\ X.patches[i].off = p.off /\ X.patches[i].kind = ABS64
                           /\ X.patches[i].target \in Externs
                           /\ ExtName[X.patches[i].target] = e
                      /\ \A f \in ExtNames : slots[a][f] # NoLabel /\ f # e
                           => label[slots[a][f]].place.off # p.off
    BY DEF SlotsWellFormed
  <2> DEFINE X == sec[a]["externs"]
  <2>1. X \in Section
    BY <1>1, SizeAssumption DEF TypeOK
  <2>2. DOMAIN X.patches = 1 .. Len(X.patches)
    BY <2>1, SectionFields
  <2>3. X.align % SlotSize = 0
    BY <1>1 DEF AllAligned, Aligned
  <2> HIDE DEF X
  <2>4. QED
    BY <1>1, <2>2, <2>3 DEF AllSlots, SlotIn, X
<1>2. Init => AllAligned /\ AllSlots
  <2>1. DefaultAlign % SlotSize = 0 /\ "externs" \in SectionNames
    BY AlignAssumption, SizeAssumption
  <2>2. QED
    BY <2>1 DEF Init, EmptySection, AllAligned, Aligned, AllSlots
<1>3. LInv /\ AllAligned /\ [Next]_vars => AllAligned'
  BY NextFollows, SizeAssumption DEF LInv, AllAligned, Follows
<1>4. LInv /\ AllAligned /\ AllSlots => SlotsWellFormed
  BY <1>1 DEF LInv
<1>5. LInv /\ AllSlots /\ [Next]_vars => AllSlots'
  BY SlotsStep
<1>6. QED
  BY <1>2, <1>3, <1>4, <1>5, LInvAlways, PTL DEF Spec

-----------------------------------------------------------------------------
(* Names                                                                    *)

\* The forward names q of a, for labels L, its symbols Y and the made labels M.
NamedOK(a, q, L, Y, M) ==
  \A i \in 1 .. Len(q) :
    /\ q[i] \in M
    /\ L[q[i]].place = Unbound /\ L[q[i]].owner = a /\ L[q[i]].name # NoName
    /\ Y[L[q[i]].name] = NoLabel
    /\ \A j \in 1 .. Len(q) : L[q[j]].name = L[q[i]].name => i = j

\* The symbols Y of a, for labels L.
SymbolsOK(a, L, Y) ==
  /\ \A n \in Names : Y[n] # NoLabel => L[Y[n]].name = n /\ L[Y[n]].place.asm = a
  /\ \A l \in LabelIds :
       L[l].place.asm = a /\ L[l].name # NoName => Y[L[l].name] = l

AllNames ==
  \A a \in Asms : /\ NamedOK(a, named[a], label, symbols[a], made)
                  /\ SymbolsOK(a, label, symbols[a])

\* Some of the forward names, in any order.
LEMMA NamedSub ==
  ASSUME NEW a, NEW q, NEW r, NEW L, NEW K, NEW Y, NEW Z, NEW M, NEW N,
         M \subseteq N, NamedOK(a, q, L, Y, M),
         NEW g \in [1 .. Len(r) -> 1 .. Len(q)],
         \A i, j \in 1 .. Len(r) : g[i] = g[j] => i = j,
         \A i \in 1 .. Len(r) : r[i] = q[g[i]],
         \A i \in 1 .. Len(r) : K[r[i]] = L[r[i]] /\ Z[L[r[i]].name] = NoLabel
  PROVE  NamedOK(a, r, K, Z, N)
<1> SUFFICES ASSUME NEW i \in 1 .. Len(r)
             PROVE  /\ r[i] \in N
                    /\ K[r[i]].place = Unbound /\ K[r[i]].owner = a
                    /\ K[r[i]].name # NoName /\ Z[K[r[i]].name] = NoLabel
                    /\ \A j \in 1 .. Len(r) : K[r[j]].name = K[r[i]].name => i = j
  BY DEF NamedOK
<1>1. r[i] = q[g[i]] /\ g[i] \in 1 .. Len(q)
  OBVIOUS
<1>2. /\ r[i] \in N
      /\ K[r[i]].place = Unbound /\ K[r[i]].owner = a
      /\ K[r[i]].name # NoName /\ Z[K[r[i]].name] = NoLabel
  BY <1>1 DEF NamedOK
<1>3. ASSUME NEW j \in 1 .. Len(r), K[r[j]].name = K[r[i]].name
      PROVE  i = j
  <2>1. r[j] = q[g[j]] /\ g[j] \in 1 .. Len(q)
    OBVIOUS
  <2>2. L[q[g[j]]].name = L[q[g[i]]].name
    BY <1>1, <1>3, <2>1
  <2>3. g[i] = g[j]
    BY <1>1, <2>1, <2>2 DEF NamedOK
  <2>4. QED
    BY <2>3
<1>4. QED
  BY <1>2, <1>3

\* All of them, in the same order.
LEMMA NamedSame ==
  ASSUME NEW a, NEW q, NEW L, NEW K, NEW Y, NEW Z, NEW M, NEW N,
         M \subseteq N, NamedOK(a, q, L, Y, M),
         \A i \in 1 .. Len(q) : K[q[i]] = L[q[i]] /\ Z[L[q[i]].name] = NoLabel
  PROVE  NamedOK(a, q, K, Z, N)
  BY DEF NamedOK

LEMMA NamesTypes ==
  ASSUME TypeOK, NEW a \in Asms
  PROVE  /\ named[a] \in Seq(LabelIds) /\ Len(named[a]) \in Nat
         /\ DOMAIN named[a] = 1 .. Len(named[a])
         /\ \A i \in 1 .. Len(named[a]) : named[a][i] \in LabelIds
         /\ \A n \in Names : symbols[a][n] \in LabelIds \cup {NoLabel}
         /\ \A l \in LabelIds : label[l].name \in Names \cup {NoName}
         /\ \A n \in Names : HasForward(a, n) <=>
              \E i \in 1 .. Len(named[a]) : label[named[a][i]].name = n
<1>1. named[a] \in Seq(LabelIds)
  BY DEF TypeOK
<1>2. /\ Len(named[a]) \in Nat /\ DOMAIN named[a] = 1 .. Len(named[a])
      /\ \A i \in 1 .. Len(named[a]) : named[a][i] \in LabelIds
  BY <1>1, ElementOfSeq
<1>3. \A n \in Names : HasForward(a, n) <=>
        \E i \in 1 .. Len(named[a]) : label[named[a][i]].name = n
  BY <1>2 DEF HasForward, IsForward
<1>4. \A l \in LabelIds : label[l].name \in Names \cup {NoName}
  BY DEF TypeOK, LabelState
<1>5. QED
  BY <1>1, <1>2, <1>3, <1>4 DEF TypeOK

\* A step that changes no name: labels change that have none, or are not made
\* yet, and they get none or stay unbound.
Quiet ==
  /\ UNCHANGED <<named, symbols>> /\ made \subseteq made'
  /\ \A l \in LabelIds :
       \/ label'[l] = label[l]
       \/ /\ l \notin made \/ label[l].name = NoName
          /\ label'[l].name = NoName \/ label'[l].place = Unbound

LEMMA QuietNames ==
  ASSUME LInv, AllNames, Quiet
  PROVE  AllNames'
<1>1. TypeOK /\ BoundMade
  BY LInvBoundMade DEF LInv
<1> SUFFICES ASSUME NEW a \in Asms
             PROVE  /\ NamedOK(a, named[a], label', symbols[a], made')
                    /\ SymbolsOK(a, label', symbols[a])
  BY DEF AllNames, Quiet
<1>2. NamedOK(a, named[a], label, symbols[a], made) /\ SymbolsOK(a, label, symbols[a])
  BY DEF AllNames
<1>3. ASSUME NEW i \in 1 .. Len(named[a])
      PROVE  label'[named[a][i]] = label[named[a][i]]
             /\ symbols[a][label[named[a][i]].name] = NoLabel
  BY <1>1, <1>2, NamesTypes DEF NamedOK, Quiet
<1>4. NamedOK(a, named[a], label', symbols[a], made')
  BY <1>2, <1>3, NamedSame DEF Quiet
<1>5. ASSUME NEW l \in LabelIds, label[l].place.asm = a, label[l].name # NoName
      PROVE  label'[l] = label[l]
  <2>1. l \in made
    BY <1>1, <1>5, AsmAssumption DEF BoundMade, IsBound, Unbound
  <2>2. QED
    BY <1>5, <2>1 DEF Quiet
<1>6. ASSUME NEW n \in Names, symbols[a][n] # NoLabel
      PROVE  label'[symbols[a][n]].name = n /\ label'[symbols[a][n]].place.asm = a
  <2>1. symbols[a][n] \in LabelIds /\ n # NoName
    BY <1>1, <1>6, NamesTypes, AsmAssumption
  <2>2. label[symbols[a][n]].name = n /\ label[symbols[a][n]].place.asm = a
    BY <1>2, <1>6 DEF SymbolsOK
  <2>3. QED
    BY <1>5, <2>1, <2>2
<1>7. ASSUME NEW l \in LabelIds, label'[l].place.asm = a, label'[l].name # NoName
      PROVE  symbols[a][label'[l].name] = l
  <2>1. label'[l] = label[l]
    BY <1>7, AsmAssumption DEF Quiet, Unbound
  <2>2. QED
    BY <1>2, <1>7, <2>1 DEF SymbolsOK
<1>8. SymbolsOK(a, label', symbols[a])
  BY <1>6, <1>7 DEF SymbolsOK
<1>9. QED
  BY <1>4, <1>8

\* A label that is made, but for its name, by a slot or in advance.
LEMMA SlotQuiet ==
  ASSUME TypeOK, NEW a, NEW S, NEW e, NewSlot(a, S, e), UNCHANGED <<named, symbols>>
  PROVE  Quiet
<1>1. FreshLabel \in LabelIds \ made /\ made' = made \cup {FreshLabel}
  BY FreshLabelType DEF NewSlot
<1> DEFINE x == [name |-> NoName, owner |-> a,
                 place |-> [asm |-> a, sec |-> "externs",
                            off |-> PaddedSlot(a, S)["externs"].size],
                 seq |-> bindSeq + 1]
<1>2. label' = [label EXCEPT ![FreshLabel] = x] /\ x.name = NoName
  BY DEF NewSlot, PlaceLabel
<1> HIDE DEF x
<1>3. QED
  BY <1>1, <1>2 DEF Quiet, TypeOK

LEMMA AddPatchToQuiet ==
  ASSUME TypeOK, NEW a, NEW S, NEW off, NEW k, NEW t, AddPatchTo(a, S, off, k, t),
         UNCHANGED <<named, symbols>>
  PROVE  Quiet
<1>1. CASE label' = label /\ made' = made
  BY <1>1 DEF Quiet
<1>2. CASE NewSlot(a, S, t)
  BY <1>2, SlotQuiet
<1>3. QED
  BY <1>1, <1>2 DEF AddPatchTo

LEMMA PatchQuiet ==
  ASSUME TypeOK, NEW a \in Asms, SectionStep(a) \/ PatchStep(a)
  PROVE  Quiet
<1>1. ASSUME UNCHANGED <<label, made, named, symbols>>
      PROVE  Quiet
  BY <1>1 DEF Quiet
<1>2. ASSUME NEW off, NEW k, NEW t, AddPatch(a, off, k, t) \/ EmitPatch(a, k, t)
      PROVE  Quiet
  BY <1>2, AddPatchToQuiet DEF AddPatch, EmitPatch
<1>3. ASSUME NEW e, ExternSlot(a, e)
      PROVE  Quiet
  BY <1>3, SlotQuiet DEF ExternSlot
<1>4. QED
  BY <1>1, <1>2, <1>3
     DEF SectionStep, SwitchSection, ExitSection, PatchStep, Emit,
         EmitPatchRejected, Align, DataInt, DataRef

\* A new forward name.
LEMMA ForwardNames ==
  ASSUME LInv, AllNames, NEW b \in Asms, NEW n \in Names, ForwardName(b, n),
         UNCHANGED symbols
  PROVE  AllNames'
<1> DEFINE l == FreshLabel
           x == [name |-> n, owner |-> b, place |-> Unbound, seq |-> 0]
<1>1. TypeOK /\ BoundMade
  BY LInvBoundMade DEF LInv
<1>2. /\ l \in LabelIds \ made /\ made' = made \cup {l}
      /\ label' = [label EXCEPT ![l] = x]
      /\ symbols[b][n] = NoLabel /\ ~ HasForward(b, n)
      /\ named' = [named EXCEPT ![b] = Append(named[b], l)]
  BY FreshLabelType DEF ForwardName
<1>3. /\ x.name = n /\ x.owner = b /\ x.place = Unbound
  OBVIOUS
<1> HIDE DEF x, l
<1>4. label'[l] = x /\ \A m \in LabelIds \ {l} : label'[m] = label[m]
  BY <1>1, <1>2 DEF TypeOK
<1>5. n # NoName /\ Unbound.asm \notin Asms
  BY AsmAssumption DEF Unbound
<1> SUFFICES ASSUME NEW a \in Asms
             PROVE  /\ NamedOK(a, named'[a], label', symbols[a], made')
                    /\ SymbolsOK(a, label', symbols[a])
  BY DEF AllNames
<1>6. NamedOK(a, named[a], label, symbols[a], made) /\ SymbolsOK(a, label, symbols[a])
  BY DEF AllNames
<1>7. ASSUME NEW i \in 1 .. Len(named[a])
      PROVE  label'[named[a][i]] = label[named[a][i]]
             /\ symbols[a][label[named[a][i]].name] = NoLabel
  BY <1>1, <1>2, <1>4, <1>6, NamesTypes DEF NamedOK
<1>8. NamedOK(a, named[a], label', symbols[a], made')
  BY <1>2, <1>6, <1>7, NamedSame
<1>9. NamedOK(a, named'[a], label', symbols[a], made')
  <2>1. CASE a # b
    BY <1>1, <1>2, <1>8, <2>1 DEF TypeOK
  <2>2. CASE a = b
    <3> DEFINE q == named[a]
               r == Append(q, l)
    <3>1. named'[a] = r
      BY <1>1, <1>2, <2>2 DEF TypeOK
    <3>2. q \in Seq(LabelIds) /\ Len(q) \in Nat
          /\ \A i \in 1 .. Len(q) : label[q[i]].name # n
      BY <1>1, <1>2, <2>2, NamesTypes
    <3>3. \A i \in 1 .. Len(q) : label'[q[i]].name # n
      BY <1>7, <3>2
    <3> HIDE DEF q
    <3>4. /\ Len(r) = Len(q) + 1 /\ r[Len(q) + 1] = l
          /\ \A i \in 1 .. Len(q) : r[i] = q[i]
      BY <1>2, <3>2, AppendProperties
    <3> HIDE DEF r
    <3>5. NamedOK(a, q, label', symbols[a], made')
      BY <1>8 DEF q
    <3>6. ASSUME NEW i \in 1 .. Len(r)
          PROVE  /\ r[i] \in made'
                 /\ label'[r[i]].place = Unbound /\ label'[r[i]].owner = a
                 /\ label'[r[i]].name # NoName
                 /\ symbols[a][label'[r[i]].name] = NoLabel
                 /\ \A j \in 1 .. Len(r) : label'[r[j]].name = label'[r[i]].name => i = j
      <4>1. CASE i \in 1 .. Len(q)
        BY <1>3, <1>4, <3>2, <3>3, <3>4, <3>5, <4>1 DEF NamedOK
      <4>2. CASE i = Len(q) + 1
        BY <1>2, <1>3, <1>4, <1>5, <2>2, <3>2, <3>3, <3>4, <4>2
      <4>3. QED
        BY <3>2, <3>4, <4>1, <4>2
    <3>7. QED
      BY <3>1, <3>6 DEF NamedOK
  <2>3. QED
    BY <2>1, <2>2
<1>10. SymbolsOK(a, label', symbols[a])
  <2>1. ASSUME NEW m \in Names, symbols[a][m] # NoLabel
        PROVE  symbols[a][m] \in LabelIds /\ symbols[a][m] # l
    <3>1. symbols[a][m] \in LabelIds /\ label[symbols[a][m]].place.asm = a
      BY <1>1, <1>6, <2>1, NamesTypes DEF SymbolsOK
    <3>2. symbols[a][m] \in made
      BY <1>1, <1>5, <3>1 DEF BoundMade, IsBound
    <3>3. QED
      BY <1>2, <3>1, <3>2
  <2>2. label'[l].place.asm # a
    BY <1>3, <1>4, <1>5
  <2>3. QED
    BY <1>4, <1>6, <2>1, <2>2 DEF SymbolsOK
<1>11. QED
  BY <1>9, <1>10

\* A label l that was not bound gets name n, which is its own, in b and is
\* bound; it is no forward name any more.
BindsName(b, n, l) ==
  /\ ~ IsBound(l) /\ symbols[b][n] = NoLabel /\ made \subseteq made'
  /\ label'[l].name = n /\ label'[l].place.asm = b
  /\ \A m \in LabelIds \ {l} : label'[m] = label[m]
  /\ symbols' = [symbols EXCEPT ![b][n] = l]
  /\ \A a \in Asms \ {b} : named'[a] = named[a]
                           /\ \A i \in 1 .. Len(named[a]) : named[a][i] # l
  /\ NamedOK(b, named'[b], label, symbols[b], made')
  /\ \A i \in 1 .. Len(named'[b]) :
       named'[b][i] \in LabelIds \ {l} /\ label[named'[b][i]].name # n

LEMMA BoundNames ==
  ASSUME LInv, AllNames, NEW b \in Asms, NEW n \in Names, NEW l \in LabelIds,
         BindsName(b, n, l)
  PROVE  AllNames'
<1> USE DEF BindsName
<1>1. TypeOK /\ n # NoName /\ l # NoLabel
  BY AsmAssumption DEF LInv
<1>2. /\ \A a \in Asms \ {b} : symbols'[a] = symbols[a]
      /\ symbols'[b] = [symbols[b] EXCEPT ![n] = l]
      /\ \A m \in Names : symbols'[b][m] = IF m = n THEN l ELSE symbols[b][m]
  BY <1>1 DEF TypeOK
<1> SUFFICES ASSUME NEW a \in Asms
             PROVE  /\ NamedOK(a, named'[a], label', symbols'[a], made')
                    /\ SymbolsOK(a, label', symbols'[a])
  BY DEF AllNames
<1>3. NamedOK(a, named[a], label, symbols[a], made) /\ SymbolsOK(a, label, symbols[a])
  BY DEF AllNames
<1>4. NamedOK(a, named'[a], label', symbols'[a], made')
  <2>1. CASE a # b
    <3>1. ASSUME NEW i \in 1 .. Len(named[a])
          PROVE  label'[named[a][i]] = label[named[a][i]]
                 /\ symbols[a][label[named[a][i]].name] = NoLabel
      BY <1>1, <1>3, <2>1, NamesTypes DEF NamedOK
    <3>2. QED
      BY <1>2, <1>3, <2>1, <3>1, NamedSame
  <2>2. CASE a = b
    <3>1. ASSUME NEW i \in 1 .. Len(named'[b])
          PROVE  label'[named'[b][i]] = label[named'[b][i]]
                 /\ symbols'[b][label[named'[b][i]].name] = NoLabel
      <4>1. label[named'[b][i]].name \in Names
        BY <1>1, NamesTypes DEF NamedOK
      <4>2. QED
        BY <1>2, <4>1 DEF NamedOK
    <3>2. NamedOK(b, named'[b], label, symbols[b], made') /\ made' \subseteq made'
      OBVIOUS
    <3>3. NamedOK(b, named'[b], label', symbols'[b], made')
      <4> DEFINE q == named'[b]
      <4>1. \A i \in 1 .. Len(q) :
              label'[q[i]] = label[q[i]] /\ symbols'[b][label[q[i]].name] = NoLabel
        BY <3>1
      <4> HIDE DEF q
      <4>2. NamedOK(b, q, label', symbols'[b], made')
        BY <3>2, <4>1 DEF NamedOK, q
      <4>3. QED
        BY <4>2 DEF q
    <3>4. QED
      BY <2>2, <3>3
  <2>3. QED
    BY <2>1, <2>2
<1>5. SymbolsOK(a, label', symbols'[a])
  <2>1. ASSUME NEW m \in Names, symbols[a][m] # NoLabel
        PROVE  symbols[a][m] \in LabelIds /\ symbols[a][m] # l
    <3>1. symbols[a][m] \in LabelIds /\ label[symbols[a][m]].place.asm = a
      BY <1>1, <1>3, <2>1, NamesTypes DEF SymbolsOK
    <3>2. label[l].place.asm \notin Asms
      BY AsmAssumption DEF IsBound, Unbound
    <3>3. QED
      BY <3>1, <3>2
  <2>2. ASSUME NEW m \in Names, symbols'[a][m] # NoLabel
        PROVE  label'[symbols'[a][m]].name = m /\ label'[symbols'[a][m]].place.asm = a
    <3>1. CASE a = b /\ m = n
      BY <1>2, <3>1
    <3>2. CASE ~ (a = b /\ m = n)
      <4>1. symbols'[a][m] = symbols[a][m]
        BY <1>2, <3>2
      <4>2. QED
        BY <1>3, <2>1, <2>2, <4>1 DEF SymbolsOK
    <3>3. QED
      BY <3>1, <3>2
  <2>3. ASSUME NEW m \in LabelIds, label'[m].place.asm = a, label'[m].name # NoName
        PROVE  symbols'[a][label'[m].name] = m
    <3>1. CASE m = l
      BY <1>2, <2>3, <3>1
    <3>2. CASE m # l
      <4>1. label'[m] = label[m] /\ symbols[a][label[m].name] = m
        BY <1>3, <2>3, <3>2 DEF SymbolsOK
      <4>2. label[m].name \in Names /\ m # NoLabel
        BY <1>1, <2>3, <4>1, NamesTypes, AsmAssumption
      <4>3. ~ (a = b /\ label[m].name = n)
        BY <4>1, <4>2
      <4>4. QED
        BY <1>2, <4>1, <4>2, <4>3
    <3>3. QED
      BY <3>1, <3>2
  <2>4. QED
    BY <2>2, <2>3 DEF SymbolsOK
<1>6. QED
  BY <1>4, <1>5

\* label("n") for a name seen for the first time.
LEMMA LabelHereNames ==
  ASSUME LInv, AllNames, NEW b \in Asms, NEW n \in Names, LabelHere(b, n)
  PROVE  AllNames'
<1> DEFINE l == FreshLabel
           x == [name |-> n, owner |-> b,
                 place |-> [asm |-> b, sec |-> cur[b], off |-> Pos(b)],
                 seq |-> bindSeq + 1]
<1>1. TypeOK /\ BoundMade /\ n # NoName
  BY LInvBoundMade, AsmAssumption DEF LInv
<1>2. /\ l \in LabelIds \ made /\ made' = made \cup {l}
      /\ label' = [label EXCEPT ![l] = x]
      /\ symbols[b][n] = NoLabel /\ ~ HasForward(b, n)
      /\ symbols' = [symbols EXCEPT ![b][n] = l] /\ named' = named
  BY <1>1, FreshLabelType DEF LabelHere, PlaceLabel
<1>3. x.name = n /\ x.place.asm = b
  OBVIOUS
<1> HIDE DEF x, l
<1>4. /\ label'[l].name = n /\ label'[l].place.asm = b
      /\ \A m \in LabelIds \ {l} : label'[m] = label[m]
  BY <1>1, <1>2, <1>3 DEF TypeOK
<1>5. ~ IsBound(l)
  BY <1>1, <1>2 DEF BoundMade
<1>6. ASSUME NEW a \in Asms, NEW i \in 1 .. Len(named[a])
      PROVE  named[a][i] # l /\ named[a][i] \in LabelIds
  BY <1>1, <1>2, NamesTypes DEF AllNames, NamedOK
<1>7. ASSUME NEW i \in 1 .. Len(named[b])
      PROVE  label[named[b][i]].name # n
  BY <1>1, <1>2, NamesTypes
<1>8. NamedOK(b, named[b], label, symbols[b], made')
  BY <1>2 DEF AllNames, NamedOK
<1>9. \A a \in Asms \ {b} :
        named'[a] = named[a] /\ \A i \in 1 .. Len(named[a]) : named[a][i] # l
  BY <1>2, <1>6
<1>10. \A i \in 1 .. Len(named'[b]) :
         named'[b][i] \in LabelIds \ {l} /\ label[named'[b][i]].name # n
  BY <1>2, <1>6, <1>7
<1>11. NamedOK(b, named'[b], label, symbols[b], made')
  BY <1>2, <1>8
<1>12. l \in LabelIds /\ made \subseteq made'
  BY <1>2
<1>13. QED
  <2>1. BindsName(b, n, l)
    BY <1>2, <1>4, <1>5, <1>9, <1>10, <1>11, <1>12 DEF BindsName
  <2>2. QED
    BY <1>12, <2>1, BoundNames

\* The forward names without one, and that one after them.
LEMMA PopNamed ==
  ASSUME LInv, AllNames, NEW b \in Asms, NEW n \in Names, HasForward(b, n)
  PROVE  /\ PopForward(b, n) \in Seq(LabelIds) /\ Forward(b, n) \in LabelIds
         /\ label[Forward(b, n)].name = n
         /\ NamedOK(b, PopForward(b, n), label, symbols[b], made)
         /\ \A i \in 1 .. Len(PopForward(b, n)) :
              label[PopForward(b, n)[i]].name # n
         /\ NamedOK(b, Append(PopForward(b, n), Forward(b, n)),
                    label, symbols[b], made)
<1> DEFINE q == named[b]
           r == PopForward(b, n)
           k == ForwardAt(b, n)
           m == Len(q)
           w == Append(r, q[k])
<1>1. TypeOK
  BY DEF LInv
<1>2. /\ k \in 1 .. m /\ Forward(b, n) = q[k] /\ label[q[k]].name = n
      /\ Forward(b, n) \in LabelIds /\ r \in Seq(LabelIds)
  BY <1>1, ForwardType DEF Forward, IsForward
<1>3. q \in Seq(LabelIds) /\ m \in Nat
  BY <1>1, NamesTypes
<1>4. r = RemoveAt(q, k)
  BY DEF PopForward
<1>5. NamedOK(b, q, label, symbols[b], made)
  BY DEF AllNames
<1> HIDE DEF q, r, k
<1>6. Len(r) = m - 1 /\ \A j \in 1 .. m - 1 : r[j] = IF j < k THEN q[j] ELSE q[j + 1]
  BY <1>2, <1>3, <1>4, RemoveAtProperties
<1> HIDE DEF m
<1>7. \A i \in 1 .. Len(q) : symbols[b][label[q[i]].name] = NoLabel
  BY <1>5 DEF NamedOK
<1>8. NamedOK(b, r, label, symbols[b], made)
  <2> DEFINE g == [j \in 1 .. Len(r) |-> IF j < k THEN j ELSE j + 1]
  <2>1. g \in [1 .. Len(r) -> 1 .. Len(q)]
    BY <1>2, <1>3, <1>6 DEF m
  <2>2. \A i, j \in 1 .. Len(r) : g[i] = g[j] => i = j
    BY <1>2, <1>3, <1>6
  <2>3. \A i \in 1 .. Len(r) : r[i] = q[g[i]]
    BY <1>6
  <2> HIDE DEF g
  <2>4. \A i \in 1 .. Len(r) : symbols[b][label[r[i]].name] = NoLabel
    BY <1>7, <2>1, <2>3
  <2>5. QED
    BY <1>5, <2>1, <2>2, <2>3, <2>4, NamedSub
<1>9. ASSUME NEW i \in 1 .. Len(r)
      PROVE  label[r[i]].name # n
  <2>1. CASE i < k
    <3>1. i \in 1 .. Len(q) /\ i # k /\ r[i] = q[i]
      BY <1>2, <1>3, <1>6, <2>1 DEF m
    <3>2. QED
      BY <1>2, <1>5, <3>1 DEF NamedOK, m
  <2>2. CASE ~ (i < k)
    <3>1. i + 1 \in 1 .. Len(q) /\ i + 1 # k /\ r[i] = q[i + 1]
      BY <1>2, <1>3, <1>6, <2>2 DEF m
    <3>2. QED
      BY <1>2, <1>5, <3>1 DEF NamedOK, m
  <2>3. QED
    BY <2>1, <2>2
<1>10. NamedOK(b, w, label, symbols[b], made)
  <2> DEFINE g == [j \in 1 .. m |-> IF j < k THEN j ELSE IF j < m THEN j + 1 ELSE k]
  <2>1. /\ Len(w) = m /\ w[m] = q[k]
        /\ \A j \in 1 .. m - 1 : w[j] = r[j]
    <3>1. q[k] \in LabelIds
      BY <1>2
    <3>2. Len(w) = Len(r) + 1 /\ w[Len(r) + 1] = q[k]
          /\ \A j \in 1 .. Len(r) : w[j] = r[j]
      BY <1>2, <3>1, AppendProperties
    <3> HIDE DEF w
    <3>3. QED
      BY <1>3, <1>6, <3>2
  <2> HIDE DEF w
  <2>2. g \in [1 .. Len(w) -> 1 .. Len(q)]
    BY <1>2, <1>3, <2>1 DEF m
  <2>3. \A i, j \in 1 .. Len(w) : g[i] = g[j] => i = j
    BY <1>2, <1>3, <2>1
  <2>4. \A i \in 1 .. Len(w) : w[i] = q[g[i]]
    BY <1>2, <1>3, <1>6, <2>1
  <2> HIDE DEF g
  <2>5. \A i \in 1 .. Len(w) : symbols[b][label[w[i]].name] = NoLabel
    BY <1>7, <2>2, <2>4
  <2>6. QED
    BY <1>5, <2>2, <2>3, <2>4, <2>5, NamedSub
<1>11. QED
  BY <1>2, <1>8, <1>9, <1>10 DEF r

LEMMA BindNames ==
  ASSUME LInv, AllNames, NEW b \in Asms, NEW l \in LabelIds, Bind(b, l)
  PROVE  AllNames'
<1> DEFINE n == label[l].name
           x == [name |-> n, owner |-> label[l].owner,
                 place |-> [asm |-> b, sec |-> cur[b], off |-> Pos(b)],
                 seq |-> bindSeq + 1]
<1>1. TypeOK
  BY DEF LInv
<1>2. /\ l \in made /\ ~ IsBound(l) /\ label[l].owner \in {NoAsm, b}
      /\ n # NoName => symbols[b][n] = NoLabel
      /\ label' = [label EXCEPT ![l] = x] /\ made' = made
  BY DEF Bind, MayBind, PlaceLabel
<1>3. x.name = n /\ x.place.asm = b
  OBVIOUS
<1> HIDE DEF x
<1>4. /\ label'[l].name = n /\ label'[l].place.asm = b
      /\ \A m \in LabelIds \ {l} : label'[m] = label[m]
  BY <1>1, <1>2, <1>3 DEF TypeOK
<1>5. CASE n = NoName
  <2>1. Quiet
    BY <1>2, <1>4, <1>5 DEF Bind, Quiet
  <2>2. QED
    BY <2>1, QuietNames
<1>6. CASE n # NoName
  <2>1. n \in Names /\ symbols' = [symbols EXCEPT ![b][n] = l]
    BY <1>1, <1>6, NamesTypes DEF Bind
  <2>2. ASSUME NEW a \in Asms \ {b}
        PROVE  named'[a] = named[a] /\ \A i \in 1 .. Len(named[a]) : named[a][i] # l
    <3>1. named'[a] = named[a]
      BY <1>1 DEF Bind, TypeOK
    <3>2. \A i \in 1 .. Len(named[a]) : label[named[a][i]].owner = a
      BY DEF AllNames, NamedOK
    <3>3. QED
      BY <1>2, <3>1, <3>2, AsmAssumption
  <2>3. /\ NamedOK(b, named'[b], label, symbols[b], made)
        /\ named'[b] \in Seq(LabelIds)
        /\ \A i \in 1 .. Len(named'[b]) : label[named'[b][i]].name # n
    <3>1. CASE HasForward(b, n)
      <4>1. named'[b] = PopForward(b, n)
        BY <1>1, <1>6, <3>1 DEF Bind, TypeOK
      <4>2. QED
        BY <2>1, <3>1, <4>1, PopNamed
    <3>2. CASE ~ HasForward(b, n)
      <4>1. named' = named
        BY <1>6, <3>2 DEF Bind
      <4>2. QED
        BY <1>1, <2>1, <3>2, <4>1, NamesTypes DEF AllNames
    <3>3. QED
      BY <3>1, <3>2
  <2>4. \A i \in 1 .. Len(named'[b]) : named'[b][i] \in LabelIds \ {l}
    BY <2>3, ElementOfSeq
  <2>5. \A i \in 1 .. Len(named'[b]) :
          named'[b][i] \in LabelIds \ {l} /\ label[named'[b][i]].name # n
    BY <2>3, <2>4
  <2> HIDE DEF n
  <2>6. symbols[b][n] = NoLabel /\ made \subseteq made'
        /\ NamedOK(b, named'[b], label, symbols[b], made')
    BY <1>2, <1>6, <2>3
  <2>7. BindsName(b, n, l)
    BY <1>2, <1>4, <2>1, <2>2, <2>5, <2>6 DEF BindsName
  <2>8. QED
    BY <2>1, <2>7, BoundNames
<1>7. QED
  BY <1>5, <1>6

\* Steps that only rearrange or drop forward names.
LEMMA NamedOnly ==
  ASSUME LInv, AllNames, NEW b \in Asms, UNCHANGED <<label, symbols, made>>,
         \A a \in Asms \ {b} : named'[a] = named[a],
         NamedOK(b, named'[b], label, symbols[b], made)
  PROVE  AllNames'
<1> SUFFICES ASSUME NEW a \in Asms
             PROVE  /\ NamedOK(a, named'[a], label, symbols[a], made)
                    /\ SymbolsOK(a, label, symbols[a])
  BY DEF AllNames
<1>1. QED
  BY DEF AllNames

LEMMA RejectNames ==
  ASSUME LInv, AllNames, InsnReject
  PROVE  AllNames'
<1> DEFINE b == insn.asm
           q == named[b]
           r == SubSeq(q, 1, insn.before)
<1>1. TypeOK /\ EncodingOK /\ insn.op = "parse" /\ insn # Idle
  BY DEF LInv, InsnReject, Idle
<1>2. b \in Asms /\ insn.before \in Nat /\ insn.before <= Len(q)
  BY <1>1 DEF TypeOK, Frame, Idle, EncodingOK
<1>3. /\ q \in Seq(LabelIds) /\ Len(q) \in Nat
      /\ \A i \in 1 .. Len(q) : q[i] \in LabelIds
  BY <1>1, <1>2, NamesTypes
<1>4. named' = [named EXCEPT ![b] = r] /\ UNCHANGED <<label, symbols, made>>
  BY DEF InsnReject
<1>5. NamedOK(b, q, label, symbols[b], made)
  BY <1>2 DEF AllNames
<1> HIDE DEF q
<1>6. Len(r) = insn.before /\ \A i \in 1 .. Len(r) : r[i] = q[i]
  <2>1. \A i \in 1 .. insn.before : q[i] \in LabelIds
    BY <1>2, <1>3
  <2>2. QED
    BY <1>2, <1>3, <2>1, SubSeqProperties
<1> HIDE DEF r, b
<1>7. NamedOK(b, r, label, symbols[b], made)
  <2>1. \A i \in 1 .. Len(r) : i \in 1 .. Len(q)
    BY <1>2, <1>3, <1>6
  <2>2. QED
    BY <1>5, <1>6, <2>1 DEF NamedOK
<1>8. named'[b] = r /\ \A a \in Asms \ {b} : named'[a] = named[a]
  BY <1>1, <1>2, <1>4 DEF TypeOK
<1>9. QED
  BY <1>2, <1>4, <1>7, <1>8, NamedOnly

LEMMA NamesNext ==
  ASSUME LInv, AllNames, [Next]_vars
  PROVE  AllNames'
<1>1. TypeOK
  BY DEF LInv
<1>2. ASSUME UNCHANGED <<label, made, named, symbols>>
      PROVE  AllNames'
  BY <1>2, QuietNames DEF Quiet
<1>3. ASSUME NEW a \in Asms, SectionStep(a) \/ PatchStep(a)
      PROVE  AllNames'
  <2>1. Quiet
    BY <1>1, <1>3, PatchQuiet
  <2>2. QED
    BY <2>1, QuietNames
<1>4. ASSUME NEW n \in Names \cup {NoName}, NEW ow \in Asms \cup {NoAsm},
             NewLabel(n, ow)
      PROVE  AllNames'
  <2>1. Quiet
    BY <1>1, <1>4, FreshLabelType DEF NewLabel, Quiet, TypeOK
  <2>2. QED
    BY <2>1, QuietNames
<1>5. ASSUME NEW a \in Asms, LabelStep(a)
      PROVE  AllNames'
  <2>1. ASSUME NEW n \in Names, Named(a, n)
        PROVE  AllNames'
    BY <2>1, ForwardNames DEF Named
  <2>2. ASSUME NEW l \in LabelIds, BindRejected(a, l)
        PROVE  AllNames'
    <3> DEFINE n == label[l].name
               w == Append(PopForward(a, n), Forward(a, n))
    <3>1. n \in Names /\ HasForward(a, n)
      BY <1>1, <2>2, NamesTypes DEF BindRejected
    <3>2. /\ named' = [named EXCEPT ![a] = w]
          /\ UNCHANGED <<label, symbols, made>>
      BY <2>2 DEF BindRejected
    <3>3. NamedOK(a, w, label, symbols[a], made)
      BY <3>1, PopNamed
    <3> HIDE DEF w
    <3>4. named'[a] = w /\ \A b \in Asms \ {a} : named'[b] = named[b]
      BY <1>1, <3>2 DEF TypeOK
    <3>5. QED
      BY <3>2, <3>3, <3>4, NamedOnly
  <2>3. ASSUME LabelHere(a, NoName)
        PROVE  AllNames'
    <3>1. Quiet
      BY <1>1, <2>3, FreshLabelType DEF LabelHere, PlaceLabel, Quiet, TypeOK
    <3>2. QED
      BY <3>1, QuietNames
  <2>4. QED
    BY <1>5, <2>1, <2>2, <2>3, BindNames, LabelHereNames DEF LabelStep
<1>6. CASE InsnStep
  <2>1. ASSUME NEW n \in Names, InsnName(n)
        PROVE  AllNames'
    <3>1. insn.asm \in Asms
      BY <1>1, <2>1, InsnTypes DEF InsnName
    <3>2. QED
      BY <2>1, <3>1, ForwardNames DEF InsnName
  <2>2. ASSUME NEW k, NEW t, InsnField(k, t) \/ InsnOverlay(k, t)
        PROVE  AllNames'
    <3>1. Quiet
      BY <1>1, <2>2, AddPatchToQuiet DEF InsnField, InsnOverlay
    <3>2. QED
      BY <3>1, QuietNames
  <2>3. QED
    BY <1>2, <1>6, <2>1, <2>2, RejectNames
       DEF InsnStep, InsnBegin, InsnBytes, InsnDone
<1>7. QED
  BY <1>2, <1>3, <1>4, <1>5, <1>6 DEF Next, vars

\* A name means one label of an assembler, whatever is bound by the user,
\* rejected or handed to another assembler: the forward names are unbound
\* labels of distinct names that are no symbols, and a symbol is the one label
\* bound under its name.
THEOREM NamesSound == Spec => []NamesConsistent
<1>1. ASSUME TypeOK, AllNames
      PROVE  NamesConsistent
  <2> SUFFICES ASSUME NEW a \in Asms
               PROVE  /\ \A i \in DOMAIN named[a] :
                           LET f == label[named[a][i]] IN
                           /\ named[a][i] \in made
                           /\ f.place = Unbound /\ f.owner = a /\ f.name # NoName
                           /\ symbols[a][f.name] = NoLabel
                           /\ \A j \in DOMAIN named[a] :
                                label[named[a][j]].name = f.name => i = j
                      /\ \A n \in Names : symbols[a][n] # NoLabel =>
                           /\ label[symbols[a][n]].name = n
                           /\ label[symbols[a][n]].place.asm = a
                      /\ \A l \in LabelIds :
                           label[l].place.asm = a /\ label[l].name # NoName
                             => symbols[a][label[l].name] = l
    BY DEF NamesConsistent
  <2>1. DOMAIN named[a] = 1 .. Len(named[a])
    BY <1>1, NamesTypes
  <2>2. NamedOK(a, named[a], label, symbols[a], made) /\ SymbolsOK(a, label, symbols[a])
    BY <1>1 DEF AllNames
  <2>3. QED
    BY <2>1, <2>2 DEF NamedOK, SymbolsOK
<1>2. Init => AllNames
  <2>1. Unbound.asm \notin Asms
    BY AsmAssumption DEF Unbound
  <2>2. QED
    BY <2>1 DEF Init, AllNames, NamedOK, SymbolsOK
<1>3. LInv /\ AllNames => NamesConsistent
  BY <1>1 DEF LInv
<1>4. LInv /\ AllNames /\ [Next]_vars => AllNames'
  BY NamesNext
<1>5. QED
  BY <1>2, <1>3, <1>4, LInvAlways, PTL DEF Spec
=============================================================================
