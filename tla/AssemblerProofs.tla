--------------------------- MODULE AssemblerProofs ---------------------------
(* Theorems about Assembler, for every value of its constants: its types and *)
(* the rejected instruction; and that labels are bound once, in place and in *)
(* order, from how a step may change the labels.                            *)
EXTENDS Assembler, DataProofs
-----------------------------------------------------------------------------
(* The operators on section tables keep the type of the table.              *)

Table == [SectionNames -> Section]

\* Replacing the section s of a table by another section.
LEMMA TableExcept ==
  ASSUME NEW S \in Table, NEW s \in SectionNames, NEW x \in Section
  PROVE  [S EXCEPT ![s] = x] \in Table
  BY DEF Table

LEMMA GrowType ==
  ASSUME NEW S \in Table, NEW s \in SectionNames, NEW n \in Nat
  PROVE  Grow(S, s, n) \in Table
<1>1. S[s] \in Section
  BY DEF Table
<1>2. [S[s] EXCEPT !.size = S[s].size + n] \in Section
  BY <1>1 DEF Section
<1>3. QED
  BY <1>2, TableExcept DEF Grow

LEMMA TruncateType ==
  ASSUME NEW S \in Table, NEW s \in SectionNames, NEW n \in Nat
  PROVE  Truncate(S, s, n) \in Table
<1>1. [S[s] EXCEPT !.size = n] \in Section
  BY DEF Table, Section
<1>2. QED
  BY <1>1, TableExcept DEF Truncate

LEMMA RecordType ==
  ASSUME NEW S \in Table, NEW s \in SectionNames, NEW off \in Nat,
         NEW k \in Kind, NEW t \in Targets
  PROVE  Record(S, s, off, k, t) \in Table
<1> DEFINE p == [off |-> off, kind |-> [k EXCEPT !.slot = FALSE], target |-> t]
<1>1. p \in Patch
  BY DEF Patch, Kind
<1>2. Append(S[s].patches, p) \in Seq(Patch)
  BY <1>1, AppendProperties DEF Table, Section
<1> HIDE DEF p
<1>3. [S[s] EXCEPT !.patches = Append(S[s].patches, p)] \in Section
  BY <1>2 DEF Table, Section
<1>4. QED
  BY <1>3, TableExcept DEF Record, p

LEMMA RaiseAlignType ==
  ASSUME NEW S \in Table, NEW s \in SectionNames, NEW al \in Nat
  PROVE  RaiseAlign(S, s, al) \in Table
<1> DEFINE m == IF al > S[s].align THEN al ELSE S[s].align
<1>1. S[s] \in Section
  BY DEF Table
<1>2. m \in Nat \ {0}
  BY <1>1 DEF Section
<1>3. [S[s] EXCEPT !.align = m] \in Section
  BY <1>1, <1>2 DEF Section
<1>4. QED
  BY <1>3, TableExcept DEF RaiseAlign

LEMMA SetWritableType ==
  ASSUME NEW S \in Table, NEW s \in SectionNames, NEW w
  PROVE  SetWritable(S, s, w) \in Table
<1> DEFINE b == (w = "writable")
<1>1. S[s] \in Section
  BY DEF Table
<1>2. b \in BOOLEAN
  OBVIOUS
<1> HIDE DEF b
<1>3. [S[s] EXCEPT !.writable = b] \in Section
  BY <1>1, <1>2 DEF Section
<1>4. [S EXCEPT ![s].writable = b] \in Table
  BY <1>3, TableExcept
<1>5. QED
  BY <1>4 DEF SetWritable, b

LEMMA PadType ==
  ASSUME NEW pos \in Nat, NEW n \in Nat \ {0}
  PROVE  Pad(pos, n) \in 0 .. n - 1
  BY DEF Pad

-----------------------------------------------------------------------------
(* Type correctness                                                         *)

LEMMA FreshLabelType == HasFresh => FreshLabel \in LabelIds \ made
  BY DEF HasFresh, FreshLabel

\* The bounded sets of sizes and offsets the steps draw from hold naturals.
LEMMA BoundsNat ==
  /\ 0 .. MaxSize \subseteq Nat
  /\ 1 .. MaxSize \subseteq Nat
  /\ Kinds \subseteq Kind
  /\ DataSizes \subseteq Nat
<1>1. MaxSize \in Nat /\ Kinds \subseteq Kind /\ DataSizes \subseteq Nat \ {0}
  BY SizeAssumption, Zenon
<1>2. QED
  BY <1>1

LEMMA PatchTypes == ABS64 \in Kind /\ \A n \in DataSizes : AbsBySize(n) \in Kind
  BY SizeAssumption DEF ABS64, AbsBySize, Kind

LEMMA ForwardType ==
  ASSUME TypeOK, NEW a \in Asms, NEW n \in Names, HasForward(a, n)
  PROVE  /\ ForwardAt(a, n) \in 1 .. Len(named[a])
         /\ IsForward(a, n, ForwardAt(a, n))
         /\ Forward(a, n) \in LabelIds
         /\ PopForward(a, n) \in Seq(LabelIds)
<1>1. named[a] \in Seq(LabelIds)
  BY DEF TypeOK
<1>2. IsForward(a, n, ForwardAt(a, n)) /\ ForwardAt(a, n) \in DOMAIN named[a]
  BY DEF HasForward, ForwardAt, IsForward
<1>3. ForwardAt(a, n) \in 1 .. Len(named[a])
  BY <1>1, <1>2
<1>4. QED
  BY <1>1, <1>2, <1>3, RemoveAtProperties DEF Forward, PopForward

LEMMA PlaceLabelType ==
  ASSUME TypeOK, NEW a \in Asms, NEW l \in LabelIds,
         NEW nm \in Names \cup {NoName}, NEW ow \in Asms \cup {NoAsm},
         NEW s \in SectionNames, NEW off \in Nat,
         PlaceLabel(a, l, nm, ow, s, off)
  PROVE  /\ label' \in [LabelIds -> LabelState]
         /\ bindSeq' \in Nat
         /\ labels' \in [Asms -> Seq(LabelIds)]
<1>1. [name |-> nm, owner |-> ow,
       place |-> [asm |-> a, sec |-> s, off |-> off],
       seq |-> bindSeq + 1] \in LabelState
  BY DEF TypeOK, LabelState, Place
<1>2. labels[a] \in Seq(LabelIds) /\ Append(labels[a], l) \in Seq(LabelIds)
  BY AppendProperties DEF TypeOK
<1>3. QED
  BY <1>1, <1>2 DEF PlaceLabel, TypeOK

LEMMA WithSectionType ==
  ASSUME TypeOK, NEW a \in Asms, NEW s \in SectionNames
  PROVE  WithSection(a, s) \in Seq(SectionNames)
  BY AppendProperties DEF WithSection, TypeOK

LEMMA SlotType ==
  ASSUME TypeOK, NEW a \in Asms, NEW S \in Table, NEW e \in Externs
  PROVE  /\ PaddedSlot(a, S) \in Table
         /\ PaddedSlot(a, S)["externs"].size \in Nat
         /\ SlotTable(a, S, e) \in Table
<1> DEFINE A == IF Created(a, "externs") THEN S
                ELSE [S EXCEPT !["externs"].align = SlotSize]
           P == PaddedSlot(a, S)
<1>1. "externs" \in SectionNames /\ SlotSize \in Nat \ {0}
  BY SizeAssumption
<1>2. A \in Table
  <2>1. S["externs"] \in Section
    BY <1>1 DEF Table
  <2>2. [S["externs"] EXCEPT !.align = SlotSize] \in Section
    BY <1>1, <2>1 DEF Section
  <2>3. QED
    BY <1>1, <2>2, TableExcept
<1>3. A["externs"].size \in Nat
  BY <1>1, <1>2 DEF Table, Section
<1>4. P = Grow(A, "externs", Pad(A["externs"].size, SlotSize))
  BY DEF PaddedSlot
<1> HIDE DEF A
<1>5. P \in Table
  BY <1>1, <1>2, <1>3, <1>4, PadType, GrowType
<1>6. P["externs"].size \in Nat
  BY <1>1, <1>5 DEF Table, Section
<1>7. Grow(P, "externs", SlotSize) \in Table
  BY <1>1, <1>5, GrowType
<1>8. Record(Grow(P, "externs", SlotSize), "externs", P["externs"].size, ABS64, e)
        \in Table
  BY <1>1, <1>6, <1>7, PatchTypes, RecordType DEF Targets
<1>9. QED
  BY <1>5, <1>6, <1>8 DEF SlotTable

LEMMA NewSlotType ==
  ASSUME TypeOK, NEW a \in Asms, NEW S \in Table, NEW e \in Externs,
         NewSlot(a, S, e)
  PROVE  /\ order' \in [Asms -> Seq(SectionNames)]
         /\ made' \subseteq LabelIds
         /\ label' \in [LabelIds -> LabelState]
         /\ bindSeq' \in Nat
         /\ labels' \in [Asms -> Seq(LabelIds)]
         /\ slots' \in [Asms -> [ExtNames -> LabelIds \cup {NoLabel}]]
<1>1. "externs" \in SectionNames
  BY SizeAssumption
<1>2. FreshLabel \in LabelIds
  BY FreshLabelType DEF NewSlot
<1>3. order' \in [Asms -> Seq(SectionNames)]
  BY <1>1, WithSectionType DEF NewSlot, TypeOK
<1>4. /\ label' \in [LabelIds -> LabelState]
      /\ bindSeq' \in Nat
      /\ labels' \in [Asms -> Seq(LabelIds)]
  <2>1. PlaceLabel(a, FreshLabel, NoName, a, "externs",
                   PaddedSlot(a, S)["externs"].size)
    BY DEF NewSlot
  <2>2. PaddedSlot(a, S)["externs"].size \in Nat
    BY SlotType
  <2>3. QED
    BY <1>1, <1>2, <2>1, <2>2, PlaceLabelType
<1>5. slots' \in [Asms -> [ExtNames -> LabelIds \cup {NoLabel}]]
  BY <1>2, ExternAssumption DEF NewSlot, TypeOK
<1>6. QED
  BY <1>2, <1>3, <1>4, <1>5 DEF NewSlot, TypeOK

\* What add_patch may change keeps its type.
PatchTypesOK ==
  /\ sec' \in [Asms -> Table]
  /\ order' \in [Asms -> Seq(SectionNames)]
  /\ made' \subseteq LabelIds
  /\ label' \in [LabelIds -> LabelState]
  /\ bindSeq' \in Nat
  /\ labels' \in [Asms -> Seq(LabelIds)]
  /\ slots' \in [Asms -> [ExtNames -> LabelIds \cup {NoLabel}]]

LEMMA AddPatchToType ==
  ASSUME TypeOK, NEW a \in Asms, NEW S \in Table, NEW off \in Nat,
         NEW k \in Kind, NEW t \in Targets, AddPatchTo(a, S, off, k, t)
  PROVE  PatchTypesOK
<1> DEFINE s == cur[a]
<1>1. s \in SectionNames /\ off \in Nat /\ sec \in [Asms -> Table]
  BY SizeAssumption DEF TypeOK, Table
<1>2. ASSUME NEW T \in Table, NEW u \in Targets,
             sec' = [sec EXCEPT ![a] = Record(T, s, off, k, u)]
      PROVE  sec' \in [Asms -> Table]
  <2>1. Record(T, s, off, k, u) \in Table
    BY <1>1, RecordType
  <2>2. QED
    BY <1>1, <1>2, <2>1
<1>3. CASE ~ k.slot
  BY <1>2, <1>3 DEF AddPatchTo, PatchTypesOK, TypeOK
<1>4. CASE k.slot
  <2>1. t \in Externs /\ ExtName[t] \in ExtNames
    BY <1>4, ExternAssumption DEF AddPatchTo
  <2>2. CASE slots[a][ExtName[t]] # NoLabel
    <3>1. slots[a][ExtName[t]] \in Targets
      BY <2>1, <2>2 DEF TypeOK, Targets
    <3>2. QED
      BY <1>2, <1>4, <2>2, <3>1 DEF AddPatchTo, PatchTypesOK, TypeOK
  <2>3. CASE slots[a][ExtName[t]] = NoLabel
    <3>1. NewSlot(a, S, t)
          /\ sec' = [sec EXCEPT ![a] =
                       Record(SlotTable(a, S, t), s, off, k, FreshLabel)]
      BY <1>4, <2>3 DEF AddPatchTo
    <3>2. FreshLabel \in Targets
      BY <3>1, FreshLabelType DEF NewSlot, Targets
    <3>3. SlotTable(a, S, t) \in Table
      BY <2>1, SlotType
    <3>4. QED
      BY <1>2, <2>1, <3>1, <3>2, <3>3, NewSlotType DEF PatchTypesOK
  <2>4. QED
    BY <2>2, <2>3
<1>5. QED
  BY <1>3, <1>4

LEMMA TypeInit == Init => TypeOK
<1> SUFFICES ASSUME Init PROVE TypeOK
  OBVIOUS
<1>1. EmptySection(DefaultAlign) \in Section
  BY SizeAssumption, EmptySeq DEF EmptySection, Section
<1>2. "code" \in SectionNames
  BY SizeAssumption
<1>3. [name |-> NoName, owner |-> NoAsm, place |-> Unbound, seq |-> 0]
        \in LabelState
  BY DEF LabelState
<1>4. QED
  BY <1>1, <1>2, <1>3, EmptySeq DEF Init, TypeOK

\* Only sec and cur, the forward names and so on change: one lemma per group
\* of actions.
LEMMA TypeSection ==
  ASSUME TypeOK, NEW a \in Asms, SectionStep(a)
  PROVE  TypeOK'
<1>1. ASSUME NEW s \in UserSections, NEW al \in Aligns \cup {0},
             NEW w \in WritableArgs, NEW nested \in BOOLEAN,
             SwitchSection(a, s, al, w, nested)
      PROVE  TypeOK'
  <2>1. s \in SectionNames /\ sec[a] \in Table
    <3>1. s \in SectionNames
      BY SizeAssumption, Zenon
    <3>2. QED
      BY <3>1 DEF TypeOK, Table
  <2>2. al \in Nat
    <3>1. Aligns \subseteq Nat \ {0}
      BY SizeAssumption, Zenon
    <3>2. QED
      BY <3>1
  <2>3. SetWritable(RaiseAlign(sec[a], s, al), s, w) \in Table
    BY <2>1, <2>2, RaiseAlignType, SetWritableType
  <2>6. sec' \in [Asms -> [SectionNames -> Section]]
    BY <1>1, <2>3 DEF SwitchSection, TypeOK, Table
  <2>7. order' \in [Asms -> Seq(SectionNames)]
    BY <1>1, <2>1, WithSectionType DEF SwitchSection, TypeOK
  <2>8. switches' \in [Asms -> Seq(SectionNames)]
    <3>1. Append(switches[a], cur[a]) \in Seq(SectionNames)
      BY AppendProperties DEF TypeOK
    <3>2. QED
      BY <1>1, <3>1 DEF SwitchSection, TypeOK
  <2>9. QED
    BY <1>1, <2>1, <2>6, <2>7, <2>8 DEF SwitchSection, TypeOK
<1>2. ASSUME ExitSection(a)
      PROVE  TypeOK'
  <2>1. switches[a] \in Seq(SectionNames) /\ switches[a] # <<>>
    BY <1>2 DEF ExitSection, TypeOK
  <2>2. Len(switches[a]) \in Nat \ {0}
    BY <2>1, EmptySeq
  <2>3. Last(switches[a]) \in SectionNames
    BY <2>1, <2>2, ElementOfSeq DEF Last
  <2>4. Front(switches[a]) \in Seq(SectionNames)
    BY <2>1, <2>2, SubSeqProperties, ElementOfSeq DEF Front
  <2>5. QED
    BY <1>2, <2>3, <2>4 DEF ExitSection, TypeOK
<1>3. QED
  BY <1>1, <1>2 DEF SectionStep

LEMMA TypePatch ==
  ASSUME TypeOK, NEW a \in Asms, PatchStep(a)
  PROVE  TypeOK'
<1> USE DEF Table
<1>1. sec \in [Asms -> Table] /\ cur[a] \in SectionNames /\ Pos(a) \in Nat
  BY DEF TypeOK, Pos, Section
<1>2. ASSUME NEW n \in Nat, Emit(a, n)
      PROVE  TypeOK'
  <2>1. Grow(sec[a], cur[a], n) \in Table
    BY <1>1, GrowType
  <2>2. QED
    BY <1>1, <1>2, <2>1 DEF Emit, TypeOK
<1>3. ASSUME NEW off \in Nat, NEW k \in Kind, NEW t \in Targets,
             AddPatch(a, off, k, t)
      PROVE  TypeOK'
  <2>1. PatchTypesOK
    BY <1>1, <1>3, AddPatchToType DEF AddPatch
  <2>2. QED
    BY <1>3, <2>1 DEF AddPatch, PatchTypesOK, TypeOK
<1>4. ASSUME NEW k \in Kind
      PROVE  Reserved(a, k) \in Table
  BY <1>1, GrowType DEF Reserved, Kind
<1>5. ASSUME NEW k \in Kind, NEW t \in Targets, EmitPatch(a, k, t)
      PROVE  TypeOK'
  <2>1. PatchTypesOK
    BY <1>1, <1>4, <1>5, AddPatchToType DEF EmitPatch
  <2>2. QED
    BY <1>5, <2>1 DEF EmitPatch, PatchTypesOK, TypeOK
<1>6. ASSUME NEW k \in Kind, NEW l \in LabelIds, EmitPatchRejected(a, k, l)
      PROVE  TypeOK'
  <2>1. Truncate(Reserved(a, k), cur[a], Pos(a)) \in Table
    BY <1>1, <1>4, TruncateType
  <2>2. QED
    BY <1>1, <1>6, <2>1 DEF EmitPatchRejected, TypeOK
<1>7. ASSUME NEW e \in Externs, ExternSlot(a, e)
      PROVE  TypeOK'
  <2>1. SlotTable(a, sec[a], e) \in Table
    BY <1>1, SlotType
  <2>2. NewSlot(a, sec[a], e)
    BY <1>7 DEF ExternSlot
  <2>3. QED
    BY <1>1, <1>7, <2>1, <2>2, NewSlotType DEF ExternSlot, TypeOK
<1>8. ASSUME NEW n \in Aligns, NEW emptyFill \in BOOLEAN, Align(a, n, emptyFill)
      PROVE  TypeOK'
  <2> DEFINE R == RaiseAlign(sec[a], cur[a], n)
             pad == Pad(Pos(a), n)
  <2>1. n \in Nat \ {0}
    BY SizeAssumption
  <2>2. R \in Table
    BY <1>1, <2>1, RaiseAlignType
  <2>3. pad \in Nat
    BY <1>1, <2>1, PadType
  <2>4. Grow(R, cur[a], pad) \in Table
    BY <1>1, <2>2, <2>3, GrowType
  <2>5. QED
    BY <1>1, <1>8, <2>2, <2>4 DEF Align, TypeOK
<1>9. ASSUME NEW n \in DataSizes, DataInt(a, n)
      PROVE  TypeOK'
  BY <1>2, <1>9, SizeAssumption DEF DataInt
<1>10. ASSUME NEW n \in DataSizes, NEW t \in Targets, DataRef(a, n, t)
       PROVE  TypeOK'
  BY <1>5, <1>10, PatchTypes DEF DataRef
<1>11. /\ 1 .. MaxSize \subseteq Nat /\ 0 .. MaxSize \subseteq Nat
       /\ Kinds \subseteq Kind
  BY SizeAssumption
<1>12. QED
  BY <1>2, <1>3, <1>5, <1>6, <1>7, <1>8, <1>9, <1>10, <1>11 DEF PatchStep

LEMMA ForwardNameType ==
  ASSUME TypeOK, NEW a \in Asms, NEW n \in Names, ForwardName(a, n)
  PROVE  /\ made' \subseteq LabelIds
         /\ label' \in [LabelIds -> LabelState]
         /\ named' \in [Asms -> Seq(LabelIds)]
<1>1. FreshLabel \in LabelIds
  BY FreshLabelType DEF ForwardName
<1>2. [name |-> n, owner |-> a, place |-> Unbound, seq |-> 0] \in LabelState
  BY DEF LabelState
<1>3. Append(named[a], FreshLabel) \in Seq(LabelIds)
  BY <1>1, AppendProperties DEF TypeOK
<1>4. QED
  BY <1>1, <1>2, <1>3 DEF ForwardName, TypeOK

LEMMA TypeLabel ==
  ASSUME TypeOK, NEW a \in Asms, LabelStep(a)
  PROVE  TypeOK'
<1>1. cur[a] \in SectionNames /\ Pos(a) \in Nat
  BY DEF TypeOK, Pos, Section
<1>2. ASSUME NEW n \in Names, Named(a, n)
      PROVE  TypeOK'
  <2>1. ForwardName(a, n)
    BY <1>2 DEF Named
  <2>2. QED
    BY <1>2, <2>1, ForwardNameType DEF Named, TypeOK
<1>3. ASSUME NEW l \in LabelIds, Bind(a, l)
      PROVE  TypeOK'
  <2> DEFINE n == label[l].name
  <2>1. n \in Names \cup {NoName} /\ label[l].owner \in Asms \cup {NoAsm}
    BY DEF TypeOK, LabelState
  <2>2. /\ label' \in [LabelIds -> LabelState]
        /\ bindSeq' \in Nat
        /\ labels' \in [Asms -> Seq(LabelIds)]
    BY <1>1, <1>3, <2>1, PlaceLabelType DEF Bind
  <2>3. symbols' \in [Asms -> [Names -> LabelIds \cup {NoLabel}]]
    <3>1. symbols \in [Asms -> [Names -> LabelIds \cup {NoLabel}]]
      BY DEF TypeOK
    <3>2. CASE n = NoName
      BY <1>3, <3>1, <3>2 DEF Bind
    <3>3. CASE n # NoName
      <4>1. n \in Names
        BY <2>1, <3>3
      <4>2. symbols' = [symbols EXCEPT ![a][n] = l]
        BY <1>3, <3>3 DEF Bind
      <4>3. QED
        BY <2>1, <3>1, <4>1, <4>2
    <3>4. QED
      BY <3>2, <3>3
  <2>4. named' \in [Asms -> Seq(LabelIds)]
    <3>1. CASE n # NoName /\ HasForward(a, n)
      <4>1. PopForward(a, n) \in Seq(LabelIds)
        BY <2>1, <3>1, ForwardType
      <4>2. QED
        BY <1>3, <3>1, <4>1 DEF Bind, TypeOK
    <3>2. CASE n = NoName \/ ~ HasForward(a, n)
      BY <1>3, <3>2 DEF Bind, TypeOK
    <3>3. QED
      BY <3>1, <3>2
  <2>5. QED
    BY <1>3, <2>2, <2>3, <2>4 DEF Bind, TypeOK
<1>4. ASSUME NEW l \in LabelIds, BindRejected(a, l)
      PROVE  TypeOK'
  <2> DEFINE n == label[l].name
  <2>1. n \in Names /\ HasForward(a, n)
    BY <1>4 DEF BindRejected, TypeOK, LabelState
  <2>2. Append(PopForward(a, n), Forward(a, n)) \in Seq(LabelIds)
    BY <2>1, ForwardType, AppendProperties
  <2>3. QED
    BY <1>4, <2>2 DEF BindRejected, TypeOK
<1>5. ASSUME NEW n \in Names \cup {NoName}, LabelHere(a, n)
      PROVE  TypeOK'
  <2>1. FreshLabel \in LabelIds
    BY <1>5, FreshLabelType DEF LabelHere
  <2>2. /\ label' \in [LabelIds -> LabelState]
        /\ bindSeq' \in Nat
        /\ labels' \in [Asms -> Seq(LabelIds)]
    <3>1. PlaceLabel(a, FreshLabel, n, a, cur[a], Pos(a))
      BY <1>5 DEF LabelHere
    <3>2. QED
      BY <1>1, <2>1, <3>1, PlaceLabelType
  <2>3. symbols' \in [Asms -> [Names -> LabelIds \cup {NoLabel}]]
    <3>1. symbols \in [Asms -> [Names -> LabelIds \cup {NoLabel}]]
      BY DEF TypeOK
    <3>2. CASE n = NoName
      BY <1>5, <3>1, <3>2 DEF LabelHere
    <3>3. CASE n # NoName
      <4>1. n \in Names
        BY <3>3
      <4>2. symbols' = [symbols EXCEPT ![a][n] = FreshLabel]
        BY <1>5, <3>3 DEF LabelHere
      <4>3. QED
        BY <2>1, <3>1, <4>1, <4>2
    <3>4. QED
      BY <3>2, <3>3
  <2>4. QED
    BY <1>5, <2>1, <2>2, <2>3 DEF LabelHere, TypeOK
<1>6. QED
  BY <1>2, <1>3, <1>4, <1>5 DEF LabelStep

LEMMA TypeNewLabel ==
  ASSUME TypeOK, NEW n \in Names \cup {NoName}, NEW ow \in Asms \cup {NoAsm},
         NewLabel(n, ow)
  PROVE  TypeOK'
<1>1. FreshLabel \in LabelIds
  BY FreshLabelType DEF NewLabel
<1>2. [name |-> n, owner |-> ow, place |-> Unbound, seq |-> 0] \in LabelState
  BY DEF LabelState
<1>3. QED
  BY <1>1, <1>2 DEF NewLabel, TypeOK

LEMMA TypeInsn ==
  ASSUME TypeOK, EncodingOK, InsnStep
  PROVE  TypeOK'
<1> USE DEF Table
<1>1. sec \in [Asms -> Table] /\ \A a \in Asms : cur[a] \in SectionNames
  BY DEF TypeOK
<1>2. \A a \in Asms : Pos(a) \in Nat
  BY DEF TypeOK, Pos, Section
<1>3. ASSUME insn.op # "idle"
      PROVE  insn \in Frame /\ insn.asm \in Asms /\ insn.start \in Nat
             /\ insn.before \in Nat
  BY <1>3 DEF TypeOK, Frame, Idle
<1>4. ASSUME NEW a \in Asms, InsnBegin(a)
      PROVE  TypeOK'
  <2>1. named[a] \in Seq(LabelIds) /\ Len(named[a]) \in Nat
    BY DEF TypeOK
  <2>2. insn' \in Frame
    BY <1>2, <1>4, <2>1 DEF InsnBegin, Frame
  <2>3. QED
    BY <1>4, <2>2 DEF InsnBegin, TypeOK
<1>5. ASSUME NEW n \in Names, InsnName(n)
      PROVE  TypeOK'
  <2>1. insn.asm \in Asms /\ ForwardName(insn.asm, n)
    BY <1>3, <1>5 DEF InsnName
  <2>2. QED
    BY <1>5, <2>1, ForwardNameType DEF InsnName, TypeOK
<1>6. ASSUME InsnReject
      PROVE  TypeOK'
  <2> DEFINE a == insn.asm
  <2>1. insn.op = "parse" /\ insn # Idle /\ a \in Asms /\ insn.before \in Nat
    BY <1>3, <1>6 DEF InsnReject, Idle
  <2>2. named[a] \in Seq(LabelIds) /\ insn.before <= Len(named[a])
    BY <2>1 DEF TypeOK, EncodingOK
  <2>3. SubSeq(named[a], 1, insn.before) \in Seq(LabelIds)
    BY <2>1, <2>2, SubSeqProperties, ElementOfSeq
  <2>4. QED
    BY <1>6, <2>1, <2>3 DEF InsnReject, TypeOK
<1>7. ASSUME NEW n \in 1 .. MaxSize, NEW how \in {"flush", "words"}, InsnBytes(n, how)
      PROVE  TypeOK'
  <2>1. insn \in Frame /\ insn.asm \in Asms
    BY <1>3, <1>7 DEF InsnBytes
  <2>2. Grow(sec[insn.asm], cur[insn.asm], n) \in Table
    BY <1>1, <2>1, BoundsNat, GrowType
  <2>3. [insn EXCEPT !.op = how] \in Frame
    BY <2>1 DEF Frame
  <2>4. QED
    BY <1>1, <1>7, <2>1, <2>2, <2>3 DEF InsnBytes, TypeOK
<1>8. ASSUME NEW k \in Kind, NEW t \in Targets, InsnField(k, t)
      PROVE  TypeOK'
  <2>1. insn.asm \in Asms
    BY <1>3, <1>8 DEF InsnField
  <2>2. Reserved(insn.asm, k) \in Table
    BY <1>1, <2>1, GrowType DEF Reserved, Kind
  <2>3. PatchTypesOK
    BY <1>2, <1>8, <2>1, <2>2, AddPatchToType DEF InsnField
  <2>4. QED
    BY <1>8, <2>3 DEF InsnField, PatchTypesOK, TypeOK
<1>9. ASSUME NEW k \in Kind, NEW t \in Targets, InsnOverlay(k, t)
      PROVE  TypeOK'
  <2>1. insn \in Frame /\ insn.asm \in Asms /\ insn.start \in Nat
    BY <1>3, <1>9 DEF InsnOverlay
  <2>2. PatchTypesOK
    BY <1>1, <1>9, <2>1, AddPatchToType DEF InsnOverlay
  <2>3. insn' \in Frame
    BY <1>9, <2>1 DEF InsnOverlay, Frame
  <2>4. QED
    BY <1>9, <2>2, <2>3 DEF InsnOverlay, PatchTypesOK, TypeOK
<1>10. ASSUME InsnDone
       PROVE  TypeOK'
  <2> DEFINE a == insn.asm
             s == cur[a]
             x == [first |-> insn.start, end |-> Pos(a)]
  <2>1. a \in Asms /\ insn.start \in Nat /\ s \in SectionNames
    BY <1>1, <1>3, <1>10 DEF InsnDone
  <2>2. x \in Span
    BY <1>2, <2>1 DEF Span
  <2>3. sec[a][s] \in Section
    BY <1>1, <2>1
  <2>4. Append(sec[a][s].insns, x) \in Seq(Span)
    BY <2>2, <2>3, AppendProperties DEF Section
  <2>5. [sec[a][s] EXCEPT !.insns = Append(sec[a][s].insns, x)] \in Section
    BY <2>3, <2>4 DEF Section
  <2>6. [sec[a] EXCEPT ![s] = [sec[a][s] EXCEPT !.insns =
           Append(sec[a][s].insns, x)]] \in Table
    BY <1>1, <2>1, <2>5, TableExcept
  <2>7. sec' = [sec EXCEPT ![a] = [sec[a] EXCEPT ![s] =
                  [sec[a][s] EXCEPT !.insns = Append(sec[a][s].insns, x)]]]
    BY <1>10 DEF InsnDone
  <2>8. QED
    BY <1>1, <1>10, <2>1, <2>6, <2>7 DEF InsnDone, TypeOK
<1>11. Kinds \subseteq Kind
  BY SizeAssumption, Zenon
<1>12. QED
  BY <1>4, <1>5, <1>6, <1>7, <1>8, <1>9, <1>10, <1>11 DEF InsnStep

-----------------------------------------------------------------------------
(* Sizes: no operator on section tables makes a section smaller.            *)

LEMMA GrowSize ==
  ASSUME NEW S \in Table, NEW s \in SectionNames, NEW n \in Nat,
         NEW t \in SectionNames
  PROVE  Grow(S, s, n)[t].size = IF t = s THEN S[s].size + n ELSE S[t].size
<1>1. S[s] \in Section /\ S[t] \in Section
  BY DEF Table
<1>2. [S[s] EXCEPT !.size = S[s].size + n].size = S[s].size + n
  BY <1>1 DEF Section
<1>3. Grow(S, s, n) = [S EXCEPT ![s] = [S[s] EXCEPT !.size = S[s].size + n]]
  BY DEF Grow
<1>4. QED
  BY <1>2, <1>3 DEF Table

LEMMA RecordSize ==
  ASSUME NEW S \in Table, NEW s \in SectionNames, NEW off, NEW k, NEW x,
         NEW t \in SectionNames
  PROVE  Record(S, s, off, k, x)[t].size = S[t].size
<1> DEFINE P == Append(S[s].patches, [off |-> off,
                  kind |-> [k EXCEPT !.slot = FALSE], target |-> x])
<1>1. S[s] \in Section /\ S[t] \in Section
  BY DEF Table
<1>2. Record(S, s, off, k, x) = [S EXCEPT ![s] = [S[s] EXCEPT !.patches = P]]
  BY DEF Record
<1> HIDE DEF P
<1>3. [S[s] EXCEPT !.patches = P].size = S[s].size
  BY <1>1 DEF Section
<1>4. QED
  BY <1>2, <1>3 DEF Table

LEMMA SlotSizes ==
  ASSUME TypeOK, NEW a \in Asms, NEW S \in Table, NEW e \in Externs,
         NEW t \in SectionNames
  PROVE  /\ PaddedSlot(a, S)[t].size >= S[t].size
         /\ SlotTable(a, S, e)[t].size = IF t = "externs"
              THEN PaddedSlot(a, S)["externs"].size + SlotSize ELSE S[t].size
<1> DEFINE A == IF Created(a, "externs") THEN S
                ELSE [S EXCEPT !["externs"].align = SlotSize]
           P == PaddedSlot(a, S)
<1>1. "externs" \in SectionNames /\ SlotSize \in Nat \ {0}
  BY SizeAssumption
<1>2. A \in Table /\ \A u \in SectionNames : A[u].size = S[u].size
  <2> DEFINE x == [S["externs"] EXCEPT !.align = SlotSize]
  <2>1. S["externs"] \in Section
    BY <1>1 DEF Table
  <2>2. x \in Section /\ x.size = S["externs"].size
    BY <1>1, <2>1 DEF Section
  <2>3. [S EXCEPT !["externs"] = x] \in Table
    BY <1>1, <2>2, TableExcept
  <2> HIDE DEF x
  <2>4. \A u \in SectionNames : [S EXCEPT !["externs"] = x][u].size = S[u].size
    BY <1>1, <2>2 DEF Table
  <2>5. QED
    BY <2>3, <2>4 DEF x
<1>3. P = Grow(A, "externs", Pad(A["externs"].size, SlotSize))
  BY DEF PaddedSlot
<1> HIDE DEF A
<1> DEFINE pad == Pad(A["externs"].size, SlotSize)
<1>4. pad \in Nat
  <2>1. A["externs"] \in Section
    BY <1>1, <1>2 DEF Table
  <2>2. A["externs"].size \in Nat
    BY <2>1 DEF Section
  <2>3. QED
    BY <1>1, <2>2, PadType
<1> HIDE DEF pad
<1>5. P \in Table /\ P[t].size = IF t = "externs"
        THEN S["externs"].size + pad ELSE S[t].size
  <2>1. P = Grow(A, "externs", pad)
    BY <1>3 DEF pad
  <2>2. Grow(A, "externs", pad) \in Table
    BY <1>1, <1>2, <1>4, GrowType
  <2>3. Grow(A, "externs", pad)[t].size =
          IF t = "externs" THEN A["externs"].size + pad ELSE A[t].size
    BY <1>1, <1>2, <1>4, GrowSize
  <2>4. QED
    BY <1>1, <1>2, <2>1, <2>2, <2>3
<1>6. S[t].size \in Nat
  BY DEF Table, Section
<1>7. SlotTable(a, S, e)[t].size = Grow(P, "externs", SlotSize)[t].size
  BY <1>1, <1>5, GrowType, RecordSize DEF SlotTable
<1>8. Grow(P, "externs", SlotSize)[t].size = IF t = "externs"
        THEN P["externs"].size + SlotSize ELSE P[t].size
  BY <1>1, <1>5, GrowSize
<1>9. QED
  BY <1>4, <1>5, <1>6, <1>7, <1>8

\* add_patch over a table that is at least as long as the old one.
LEMMA AddPatchToSize ==
  ASSUME TypeOK, NEW a \in Asms, NEW S \in Table, NEW off \in Nat,
         NEW k \in Kind, NEW t \in Targets, AddPatchTo(a, S, off, k, t),
         NEW u \in SectionNames
  PROVE  /\ sec'[a][u].size >= S[u].size
         /\ \A b \in Asms \ {a} : sec'[b] = sec[b]
<1> DEFINE s == cur[a]
<1>1. s \in SectionNames /\ S[u].size \in Nat
  BY DEF TypeOK, Table, Section
<1>2. ASSUME NEW T \in Table, NEW x, T[u].size >= S[u].size,
             sec' = [sec EXCEPT ![a] = Record(T, s, off, k, x)]
      PROVE  /\ sec'[a][u].size >= S[u].size
             /\ \A b \in Asms \ {a} : sec'[b] = sec[b]
  BY <1>1, <1>2, RecordSize DEF TypeOK
<1>7. S[u].size >= S[u].size
  BY <1>1
<1>3. CASE ~ k.slot
  <2>1. sec' = [sec EXCEPT ![a] = Record(S, s, off, k, t)]
    BY <1>3 DEF AddPatchTo
  <2> HIDE DEF s
  <2>2. QED
    BY <1>2, <1>7, <2>1
<1>4. CASE k.slot /\ slots[a][ExtName[t]] # NoLabel
  <2>1. sec' = [sec EXCEPT ![a] =
                  Record(S, s, off, k, slots[a][ExtName[t]])]
    BY <1>4 DEF AddPatchTo
  <2> HIDE DEF s
  <2>2. QED
    BY <1>2, <1>7, <2>1
<1>5. CASE k.slot /\ slots[a][ExtName[t]] = NoLabel
  <2>1. t \in Externs
    BY <1>5 DEF AddPatchTo
  <2>2. SlotTable(a, S, t) \in Table /\ PaddedSlot(a, S)["externs"].size \in Nat
    BY <2>1, SlotType
  <2>3. SlotTable(a, S, t)[u].size >= S[u].size
    BY <1>1, <2>1, <2>2, SlotSizes, SizeAssumption
  <2>4. QED
    BY <1>2, <1>5, <2>2, <2>3 DEF AddPatchTo
<1>6. QED
  BY <1>3, <1>4, <1>5
-----------------------------------------------------------------------------
(* The encoding of an instruction                                           *)

\* What the outermost steps other than those of InsnStep leave alone.
LEMMA NotEncoding ==
  ASSUME NEW a \in Asms, SectionStep(a) \/ PatchStep(a) \/ LabelStep(a)
  PROVE  insn = Idle /\ insn' = insn
  BY DEF SectionStep, SwitchSection, ExitSection, PatchStep, Emit, AddPatch,
         EmitPatch, EmitPatchRejected, ExternSlot, Align, DataInt, DataRef,
         LabelStep, Named, Bind, BindRejected, LabelHere

LEMMA EncodingStep ==
  ASSUME TypeOK, EncodingOK, InsnStep
  PROVE  EncodingOK'
<1> DEFINE a == insn.asm
<1>1. sec \in [Asms -> Table] /\ \A b \in Asms : cur[b] \in SectionNames
  BY DEF TypeOK, Table
<1>2. \A b \in Asms : Pos(b) = sec[b][cur[b]].size /\ Pos(b) \in Nat
  BY DEF TypeOK, Pos, Section
<1>3. ASSUME insn.op # "idle"
      PROVE  insn \in Frame /\ a \in Asms /\ insn.start \in Nat
             /\ insn # Idle /\ insn.before \in Nat
  BY <1>3 DEF TypeOK, Frame, Idle
<1>4. ASSUME NEW b \in Asms, InsnBegin(b)
      PROVE  EncodingOK'
  <2>1. named[b] \in Seq(LabelIds)
    BY DEF TypeOK
  <2>2. SubSeq(named[b], 1, Len(named[b])) = named[b] /\ Len(named[b]) \in Nat
    BY <2>1, SubSeqFull
  <2>3. QED
    BY <1>2, <1>4, <2>2 DEF InsnBegin, EncodingOK, Pos
<1>5. ASSUME NEW n \in Names, InsnName(n)
      PROVE  EncodingOK'
  <2>1. a \in Asms /\ insn # Idle /\ ForwardName(a, n) /\ insn.op = "parse"
        /\ insn.before \in Nat
    BY <1>3, <1>5 DEF InsnName
  <2>2. named[a] \in Seq(LabelIds) /\ FreshLabel \in LabelIds
    BY <2>1, FreshLabelType DEF ForwardName, TypeOK
  <2>3. named'[a] = Append(named[a], FreshLabel)
    BY <2>1 DEF ForwardName, TypeOK
  <2>4. /\ insn.before = Len(insn.saved) /\ insn.start = Pos(a)
        /\ insn.before <= Len(named[a])
        /\ SubSeq(named[a], 1, insn.before) = insn.saved
    BY <2>1 DEF EncodingOK
  <2>5. insn.before \in 0 .. Len(named[a]) /\ Len(named'[a]) = Len(named[a]) + 1
    BY <2>1, <2>2, <2>3, <2>4, AppendProperties
  <2>6. SubSeq(named'[a], 1, insn.before) = insn.saved
    BY <2>2, <2>3, <2>4, <2>5, PrefixOfAppend
  <2>7. insn' = insn /\ sec' = sec /\ cur' = cur
    BY <1>5 DEF InsnName
  <2>8. QED
    BY <1>2, <2>1, <2>4, <2>5, <2>6, <2>7 DEF EncodingOK, Pos
<1>6. ASSUME InsnReject \/ InsnDone
      PROVE  EncodingOK'
  BY <1>6 DEF InsnReject, InsnDone, EncodingOK
<1>7. ASSUME NEW n \in 1 .. MaxSize, NEW how \in {"flush", "words"}, InsnBytes(n, how)
      PROVE  EncodingOK'
  <2>1. a \in Asms /\ insn # Idle /\ insn \in Frame /\ insn.start \in Nat
    BY <1>3, <1>7 DEF InsnBytes
  <2>2. insn.before = Len(insn.saved) /\ insn.start <= Pos(a)
    BY <2>1 DEF EncodingOK
  <2>3. n \in Nat
    BY SizeAssumption
  <2>4. sec'[a] = Grow(sec[a], cur[a], n) /\ cur' = cur
    BY <1>1, <1>7, <2>1 DEF InsnBytes
  <2>5. sec'[a][cur'[a]].size = Pos(a) + n
    BY <1>1, <1>2, <2>1, <2>3, <2>4, GrowSize
  <2>6. /\ insn'.op = how /\ insn'.asm = a /\ insn'.start = insn.start
        /\ insn'.before = insn.before /\ insn'.saved = insn.saved
    BY <1>7, <2>1 DEF InsnBytes, Frame
  <2>7. QED
    BY <1>2, <2>1, <2>2, <2>3, <2>5, <2>6 DEF EncodingOK, Pos
<1>8. ASSUME NEW k \in Kind, NEW t \in Targets, InsnField(k, t)
      PROVE  EncodingOK'
  <2>1. a \in Asms /\ insn # Idle /\ insn.start \in Nat /\ insn.op = "flush"
    BY <1>3, <1>8 DEF InsnField
  <2>2. insn.before = Len(insn.saved) /\ insn.start <= Pos(a)
    BY <2>1 DEF EncodingOK
  <2>3. k.size \in Nat
    BY DEF Kind
  <2>4. Reserved(a, k) \in Table /\ Reserved(a, k)[cur[a]].size = Pos(a) + k.size
    <3>1. sec[a] \in Table /\ cur[a] \in SectionNames
      BY <1>1, <2>1
    <3>2. Grow(sec[a], cur[a], k.size)[cur[a]].size = sec[a][cur[a]].size + k.size
      BY <2>3, <3>1, GrowSize
    <3>3. QED
      BY <2>1, <2>3, <3>1, <3>2, GrowType DEF Reserved, Pos
  <2>5. sec'[a][cur[a]].size >= Reserved(a, k)[cur[a]].size
    BY <1>1, <1>2, <1>8, <2>1, <2>4, AddPatchToSize DEF InsnField
  <2>6. sec'[a][cur[a]].size \in Nat /\ insn' = insn /\ cur' = cur
    <3>1. TypeOK'
      BY <1>8, TypeInsn
    <3>2. QED
      BY <1>8, <2>1, <3>1 DEF TypeOK, Section, InsnField
  <2>7. insn.start <= sec'[a][cur[a]].size
    BY <1>2, <2>1, <2>2, <2>3, <2>4, <2>5, <2>6
  <2>8. QED
    BY <2>1, <2>2, <2>6, <2>7 DEF EncodingOK, Pos
<1>9. ASSUME NEW k \in Kind, NEW t \in Targets, InsnOverlay(k, t)
      PROVE  EncodingOK'
  <2>1. a \in Asms /\ insn # Idle /\ insn \in Frame /\ insn.start \in Nat
    BY <1>3, <1>9 DEF InsnOverlay
  <2>2. insn.before = Len(insn.saved) /\ insn.start <= Pos(a)
    BY <2>1 DEF EncodingOK
  <2>3. sec'[a][cur[a]].size >= sec[a][cur[a]].size
    BY <1>1, <1>9, <2>1, AddPatchToSize DEF InsnOverlay
  <2>4. sec'[a][cur[a]].size \in Nat /\ cur' = cur
    <3>1. TypeOK'
      BY <1>9, TypeInsn
    <3>2. QED
      BY <1>9, <2>1, <3>1 DEF TypeOK, Section, InsnOverlay
  <2>5. /\ insn'.op = "patched" /\ insn'.asm = a /\ insn'.start = insn.start
        /\ insn'.before = insn.before /\ insn'.saved = insn.saved
    BY <1>9, <2>1 DEF InsnOverlay, Frame
  <2>6. insn.start <= sec'[a][cur[a]].size
    BY <1>2, <2>1, <2>2, <2>3, <2>4
  <2>7. QED
    BY <2>1, <2>2, <2>4, <2>5, <2>6 DEF EncodingOK, Pos
<1>10. Kinds \subseteq Kind
  BY SizeAssumption, Zenon
<1>11. QED
  BY <1>4, <1>5, <1>6, <1>7, <1>8, <1>9, <1>10 DEF InsnStep

LEMMA TypeNext ==
  ASSUME TypeOK, EncodingOK, [Next]_vars
  PROVE  TypeOK' /\ EncodingOK'
<1>1. ASSUME NEW a \in Asms, SectionStep(a) \/ PatchStep(a) \/ LabelStep(a)
      PROVE  TypeOK' /\ EncodingOK'
  <2>1. TypeOK'
    BY <1>1, TypeSection, TypePatch, TypeLabel
  <2>2. insn' = Idle
    BY <1>1, NotEncoding
  <2>3. QED
    BY <2>1, <2>2 DEF EncodingOK
<1>2. ASSUME NEW n \in Names \cup {NoName}, NEW ow \in Asms \cup {NoAsm},
             NewLabel(n, ow)
      PROVE  TypeOK' /\ EncodingOK'
  BY <1>2, TypeNewLabel DEF NewLabel, EncodingOK
<1>3. CASE InsnStep
  BY <1>3, TypeInsn, EncodingStep
<1>4. CASE UNCHANGED vars
  BY <1>4 DEF vars, TypeOK, EncodingOK, Pos
<1>5. QED
  BY <1>1, <1>2, <1>3, <1>4 DEF Next

\* Every variable of the assembler always has its type, and the record of
\* the instruction being encoded always agrees with the section and the
\* forward names it was opened over.
THEOREM TypeCorrect == Spec => []TypeOK /\ []EncodingOK
<1>1. Init => TypeOK /\ EncodingOK
  BY TypeInit DEF Init, EncodingOK
<1>2. TypeOK /\ EncodingOK /\ [Next]_vars => TypeOK' /\ EncodingOK'
  BY TypeNext
<1>3. QED
  BY <1>1, <1>2, PTL DEF Spec

\* An instruction that the encoder rejects leaves the forward names of the
\* assembler as they were when its encoding began, and no byte in the
\* section: "Nothing is emitted if encoding fails".
THEOREM RejectedInsn == Spec => RejectedInsnLeavesNoTrace
<1> DEFINE Trace == insn.op = "parse" /\ insn'.op = "idle" =>
                      /\ named'[insn.asm] = insn.saved
                      /\ sec'[insn.asm][cur'[insn.asm]].size = insn.start
<1>1. TypeOK /\ EncodingOK /\ [Next]_vars => [Trace]_vars
  <2> SUFFICES ASSUME TypeOK, EncodingOK, [Next]_vars, insn.op = "parse",
                      insn'.op = "idle"
               PROVE  Trace
    OBVIOUS
  <2>1. insn # Idle /\ insn.asm \in Asms
    BY DEF Idle, TypeOK, Frame
  <2>2. ~ UNCHANGED vars
    BY DEF vars
  <2>3. \A a \in Asms : ~ (SectionStep(a) \/ PatchStep(a) \/ LabelStep(a))
    BY <2>1, NotEncoding
  <2>4. \A n \in Names \cup {NoName}, ow \in Asms \cup {NoAsm} : ~ NewLabel(n, ow)
    BY <2>1 DEF NewLabel
  <2>5. InsnStep
    BY <2>2, <2>3, <2>4 DEF Next
  <2>6. InsnReject
    BY <2>5, <2>1 DEF InsnStep, InsnBegin, InsnName, InsnBytes, InsnField,
                      InsnOverlay, InsnDone, TypeOK, Frame
  <2>7. /\ SubSeq(named[insn.asm], 1, insn.before) = insn.saved
        /\ insn.start = Pos(insn.asm)
    BY <2>1 DEF EncodingOK
  <2>8. named'[insn.asm] = SubSeq(named[insn.asm], 1, insn.before)
    BY <2>1, <2>6 DEF InsnReject, TypeOK
  <2>9. QED
    BY <2>6, <2>7, <2>8 DEF InsnReject, Pos
<1>2. QED
  BY <1>1, TypeCorrect, PTL DEF Spec, RejectedInsnLeavesNoTrace

-----------------------------------------------------------------------------
(* Sequences as sets                                                        *)

LEMMA WithSectionSet ==
  ASSUME TypeOK, NEW a \in Asms, NEW s \in SectionNames
  PROVE  ToSet(WithSection(a, s)) = ToSet(order[a]) \cup {s}
<1>1. order[a] \in Seq(SectionNames)
  BY DEF TypeOK
<1>2. CASE Created(a, s)
  BY <1>2 DEF WithSection, Created
<1>3. CASE ~ Created(a, s)
  BY <1>1, <1>3, AppendToSet DEF WithSection
<1>4. QED
  BY <1>2, <1>3

-----------------------------------------------------------------------------
(* Sections only grow                                                       *)

SizesGrow ==
  \A a \in Asms, s \in SectionNames : sec[a][s].size <= sec'[a][s].size

OrderGrows == \A a \in Asms : ToSet(order[a]) \subseteq ToSet(order'[a])

LEMMA SizeNat ==
  ASSUME NEW S \in Table, NEW s \in SectionNames
  PROVE  S[s].size \in Nat /\ S[s].size <= S[s].size
  BY DEF Table, Section

LEMMA RaiseAlignSize ==
  ASSUME NEW S \in Table, NEW s \in SectionNames, NEW al,
         NEW t \in SectionNames
  PROVE  RaiseAlign(S, s, al)[t].size = S[t].size
<1> DEFINE m == IF al > S[s].align THEN al ELSE S[s].align
<1>1. S[s] \in Section
  BY DEF Table
<1>2. RaiseAlign(S, s, al) = [S EXCEPT ![s] = [S[s] EXCEPT !.align = m]]
  BY DEF RaiseAlign
<1> HIDE DEF m
<1>3. [S[s] EXCEPT !.align = m].size = S[s].size
  BY <1>1 DEF Section
<1>4. QED
  BY <1>2, <1>3 DEF Table

LEMMA SetWritableSize ==
  ASSUME NEW S \in Table, NEW s \in SectionNames, NEW w,
         NEW t \in SectionNames
  PROVE  SetWritable(S, s, w)[t].size = S[t].size
<1> DEFINE b == (w = "writable")
<1>1. S[s] \in Section
  BY DEF Table
<1>2. [S[s] EXCEPT !.writable = b].size = S[s].size
  BY <1>1 DEF Section
<1>3. [S EXCEPT ![s] = [S[s] EXCEPT !.writable = b]][t].size = S[t].size
  BY <1>2 DEF Table
<1>4. QED
  BY <1>3 DEF SetWritable

LEMMA TruncateSize ==
  ASSUME NEW S \in Table, NEW s \in SectionNames, NEW n \in Nat,
         NEW t \in SectionNames
  PROVE  Truncate(S, s, n)[t].size = IF t = s THEN n ELSE S[t].size
<1>1. S[s] \in Section
  BY DEF Table
<1>2. [S[s] EXCEPT !.size = n].size = n
  BY <1>1 DEF Section
<1>3. QED
  BY <1>2 DEF Truncate, Table

\* The shape of every change of `sec`: one table is replaced by a longer one.
LEMMA OneTable ==
  ASSUME TypeOK, NEW a \in Asms, NEW T,
         sec' = [sec EXCEPT ![a] = T],
         \A u \in SectionNames : sec[a][u].size <= T[u].size
  PROVE  SizesGrow
<1>1. sec \in [Asms -> Table]
  BY DEF TypeOK, Table
<1> SUFFICES ASSUME NEW b \in Asms, NEW u \in SectionNames
             PROVE  sec[b][u].size <= sec'[b][u].size
  BY DEF SizesGrow
<1>2. CASE b = a
  BY <1>1, <1>2
<1>3. CASE b # a
  <2>1. sec'[b] = sec[b] /\ sec[b] \in Table
    BY <1>1, <1>3
  <2>2. QED
    BY <2>1, SizeNat
<1>4. QED
  BY <1>2, <1>3

LEMMA AddPatchToGrows ==
  ASSUME TypeOK, NEW a \in Asms, NEW S \in Table, NEW off \in Nat,
         NEW k \in Kind, NEW t \in Targets, AddPatchTo(a, S, off, k, t),
         \A u \in SectionNames : sec[a][u].size <= S[u].size
  PROVE  SizesGrow /\ OrderGrows
<1>1. sec \in [Asms -> Table] /\ order \in [Asms -> Seq(SectionNames)]
  BY DEF TypeOK, Table
<1>2. TypeOK => sec' \in [Asms -> Table]
  BY AddPatchToType DEF PatchTypesOK, Table
<1>3. SizesGrow
  <2> SUFFICES ASSUME NEW b \in Asms, NEW u \in SectionNames
               PROVE  sec[b][u].size <= sec'[b][u].size
    BY DEF SizesGrow
  <2>1. sec[b] \in Table /\ sec'[b] \in Table
    BY <1>1, <1>2
  <2>2. sec[b][u].size \in Nat /\ sec'[b][u].size \in Nat /\ S[u].size \in Nat
    BY <2>1, SizeNat
  <2>3. CASE b = a
    <3>1. sec'[a][u].size >= S[u].size
      BY AddPatchToSize
    <3>2. QED
      BY <2>2, <2>3, <3>1
  <2>4. CASE b # a
    <3>1. sec'[b] = sec[b]
      BY <2>4, AddPatchToSize
    <3>2. QED
      BY <2>2, <3>1
  <2>5. QED
    BY <2>3, <2>4
<1>4. OrderGrows
  <2>1. CASE UNCHANGED order
    BY <2>1 DEF OrderGrows
  <2>2. CASE order' = [order EXCEPT ![a] = WithSection(a, "externs")]
    BY <1>1, <2>2, WithSectionSet, SizeAssumption DEF OrderGrows
  <2>3. QED
    BY <2>1, <2>2 DEF AddPatchTo, NewSlot
<1>5. QED
  BY <1>3, <1>4

\* Steps that leave the section tables alone.
LEMMA SameTable ==
  ASSUME TypeOK, sec' = sec
  PROVE  SizesGrow
<1>1. sec \in [Asms -> Table]
  BY DEF TypeOK, Table
<1> SUFFICES ASSUME NEW a \in Asms, NEW u \in SectionNames
             PROVE  sec[a][u].size <= sec'[a][u].size
  BY DEF SizesGrow
<1>2. sec[a] \in Table
  BY <1>1
<1>3. QED
  BY <1>2, SizeNat

LEMMA SectionGrows ==
  ASSUME TypeOK, NEW a \in Asms, SectionStep(a)
  PROVE  SizesGrow /\ OrderGrows
<1>1. sec[a] \in Table /\ order \in [Asms -> Seq(SectionNames)]
  BY DEF TypeOK, Table
<1>2. ASSUME NEW s \in UserSections, NEW al \in Aligns \cup {0},
             NEW w \in WritableArgs, NEW nested \in BOOLEAN,
             SwitchSection(a, s, al, w, nested)
      PROVE  SizesGrow /\ OrderGrows
  <2> DEFINE R == RaiseAlign(sec[a], s, al)
  <2>1. s \in SectionNames /\ al \in Nat
    <3>1. UserSections \subseteq SectionNames /\ Aligns \subseteq Nat \ {0}
      BY SizeAssumption, Zenon
    <3>2. QED
      BY <3>1
  <2>2. R \in Table
    BY <1>1, <2>1, RaiseAlignType
  <2>3. \A u \in SectionNames : R[u].size = sec[a][u].size
    BY <1>1, <2>1, RaiseAlignSize
  <2>4. sec' = [sec EXCEPT ![a] = SetWritable(R, s, w)]
    BY <1>2 DEF SwitchSection
  <2> HIDE DEF R
  <2>5. ASSUME NEW u \in SectionNames
        PROVE  SetWritable(R, s, w)[u].size = sec[a][u].size
    <3>1. SetWritable(R, s, w)[u].size = R[u].size
      BY <2>1, <2>2, SetWritableSize
    <3>2. QED
      BY <2>3, <3>1
  <2>6. \A u \in SectionNames : sec[a][u].size <= SetWritable(R, s, w)[u].size
    BY <1>1, <2>5, SizeNat
  <2>7. SizesGrow
    BY <2>4, <2>6, OneTable
  <2>8. order' = [order EXCEPT ![a] = WithSection(a, s)]
    BY <1>2 DEF SwitchSection
  <2>9. OrderGrows
    BY <1>1, <2>1, <2>8, WithSectionSet DEF OrderGrows
  <2>10. QED
    BY <2>7, <2>9
<1>3. ASSUME ExitSection(a)
      PROVE  SizesGrow /\ OrderGrows
  BY <1>3, SameTable DEF ExitSection, OrderGrows
<1>4. QED
  BY <1>2, <1>3 DEF SectionStep

\* A section table after Grow, seen from the table before.
LEMMA GrowGrows ==
  ASSUME NEW S \in Table, NEW s \in SectionNames, NEW n \in Nat
  PROVE  /\ Grow(S, s, n) \in Table
         /\ \A u \in SectionNames : S[u].size <= Grow(S, s, n)[u].size
<1> SUFFICES ASSUME NEW u \in SectionNames
             PROVE  S[u].size <= Grow(S, s, n)[u].size
  BY GrowType
<1>1. S[u].size \in Nat /\ S[s].size \in Nat
  BY SizeNat
<1>2. QED
  BY <1>1, GrowSize

LEMMA PatchGrows ==
  ASSUME TypeOK, NEW a \in Asms, PatchStep(a)
  PROVE  SizesGrow /\ OrderGrows
<1>1. sec[a] \in Table /\ cur[a] \in SectionNames /\ Pos(a) \in Nat
      /\ order \in [Asms -> Seq(SectionNames)]
  BY DEF TypeOK, Table, Pos, Section
<1>2. ASSUME NEW n \in Nat, Emit(a, n)
      PROVE  SizesGrow /\ OrderGrows
  <2>1. sec' = [sec EXCEPT ![a] = Grow(sec[a], cur[a], n)] /\ order' = order
    BY <1>2 DEF Emit
  <2>2. QED
    BY <1>1, <2>1, GrowGrows, OneTable DEF OrderGrows
<1>3. ASSUME NEW off \in Nat, NEW k \in Kind, NEW t \in Targets,
             AddPatch(a, off, k, t)
      PROVE  SizesGrow /\ OrderGrows
  <2>1. \A u \in SectionNames : sec[a][u].size <= sec[a][u].size
    BY <1>1, SizeNat
  <2>2. AddPatchTo(a, sec[a], off, k, t)
    BY <1>3 DEF AddPatch
  <2>3. QED
    BY <1>1, <2>1, <2>2, AddPatchToGrows
<1>4. \A k \in Kind : /\ Reserved(a, k) \in Table
                      /\ \A u \in SectionNames :
                           sec[a][u].size <= Reserved(a, k)[u].size
  BY <1>1, GrowGrows DEF Reserved, Kind
<1>5. ASSUME NEW k \in Kind, NEW t \in Targets, EmitPatch(a, k, t)
      PROVE  SizesGrow /\ OrderGrows
  <2>1. AddPatchTo(a, Reserved(a, k), Pos(a), k, t)
    BY <1>5 DEF EmitPatch
  <2>2. QED
    BY <1>1, <1>4, <2>1, AddPatchToGrows
<1>6. ASSUME NEW k \in Kind, NEW l \in LabelIds, EmitPatchRejected(a, k, l)
      PROVE  SizesGrow /\ OrderGrows
  <2> DEFINE S == Reserved(a, k)
  <2>1. /\ sec' = [sec EXCEPT ![a] = Truncate(S, cur[a], Pos(a))]
        /\ order' = order
    BY <1>6 DEF EmitPatchRejected
  <2>2. S \in Table /\ \A u \in SectionNames : sec[a][u].size <= S[u].size
    BY <1>4
  <2> HIDE DEF S
  <2>3. \A u \in SectionNames :
          sec[a][u].size <= Truncate(S, cur[a], Pos(a))[u].size
    BY <1>1, <2>2, TruncateSize DEF Pos
  <2>4. QED
    BY <2>1, <2>3, OneTable DEF OrderGrows
<1>7. ASSUME NEW e \in Externs, ExternSlot(a, e)
      PROVE  SizesGrow /\ OrderGrows
  <2>1. /\ sec' = [sec EXCEPT ![a] = SlotTable(a, sec[a], e)]
        /\ order' = [order EXCEPT ![a] = WithSection(a, "externs")]
    BY <1>7 DEF ExternSlot, NewSlot
  <2>2. ASSUME NEW u \in SectionNames
        PROVE  sec[a][u].size <= SlotTable(a, sec[a], e)[u].size
    <3>1. /\ PaddedSlot(a, sec[a])["externs"].size \in Nat
          /\ sec[a][u].size \in Nat
      BY <1>1, SlotType, SizeNat
    <3>2. /\ PaddedSlot(a, sec[a])[u].size >= sec[a][u].size
          /\ SlotTable(a, sec[a], e)[u].size = IF u = "externs"
               THEN PaddedSlot(a, sec[a])["externs"].size + SlotSize
               ELSE sec[a][u].size
      BY <1>1, SlotSizes
    <3>3. QED
      BY <3>1, <3>2, SizeAssumption
  <2>3. QED
    BY <1>1, <2>1, <2>2, OneTable, WithSectionSet, SizeAssumption DEF OrderGrows
<1>8. ASSUME NEW n \in Aligns, NEW emptyFill \in BOOLEAN, Align(a, n, emptyFill)
      PROVE  SizesGrow /\ OrderGrows
  <2> DEFINE S == RaiseAlign(sec[a], cur[a], n)
             pad == Pad(Pos(a), n)
             T == IF emptyFill /\ pad # 0 THEN S ELSE Grow(S, cur[a], pad)
  <2>1. n \in Nat \ {0}
    BY SizeAssumption
  <2>2. pad \in Nat /\ S \in Table
    <3>1. pad \in 0 .. n - 1
      BY <1>1, <2>1, PadType
    <3>2. S \in Table
      BY <1>1, <2>1, RaiseAlignType
    <3>3. QED
      BY <2>1, <3>1, <3>2
  <2>3. sec' = [sec EXCEPT ![a] = T] /\ order' = order
    BY <1>8 DEF Align
  <2>4. \A u \in SectionNames : S[u].size = sec[a][u].size
    BY <1>1, RaiseAlignSize
  <2> HIDE DEF S, pad
  <2>5. \A u \in SectionNames : sec[a][u].size <= Grow(S, cur[a], pad)[u].size
    BY <1>1, <2>2, <2>4, GrowGrows
  <2>6. \A u \in SectionNames : sec[a][u].size <= S[u].size
    BY <1>1, <2>4, SizeNat
  <2>7. QED
    BY <2>3, <2>5, <2>6, OneTable DEF OrderGrows
<1>9. QED
  BY <1>2, <1>3, <1>5, <1>6, <1>7, <1>8, BoundsNat, PatchTypes
     DEF PatchStep, DataInt, DataRef

LEMMA InsnGrows ==
  ASSUME TypeOK, InsnStep
  PROVE  SizesGrow /\ OrderGrows
<1> DEFINE a == insn.asm
<1>1. sec \in [Asms -> Table] /\ \A b \in Asms : cur[b] \in SectionNames
      /\ order \in [Asms -> Seq(SectionNames)]
  BY DEF TypeOK, Table
<1>2. \A b \in Asms : Pos(b) \in Nat
  BY DEF TypeOK, Pos, Section
<1>3. ASSUME insn.op # "idle"
      PROVE  a \in Asms /\ insn.start \in Nat
  BY <1>3 DEF TypeOK, Frame, Idle
<1>4. ASSUME sec' = sec, order' = order
      PROVE  SizesGrow /\ OrderGrows
  BY <1>4, SameTable DEF OrderGrows
<1>5. ASSUME NEW n \in 1 .. MaxSize, NEW how \in {"flush", "words"}, InsnBytes(n, how)
      PROVE  SizesGrow /\ OrderGrows
  <2>1. a \in Asms /\ sec' = [sec EXCEPT ![a] = Grow(sec[a], cur[a], n)]
        /\ order' = order
    BY <1>3, <1>5 DEF InsnBytes
  <2>2. n \in Nat
    BY SizeAssumption
  <2>3. sec[a] \in Table /\ cur[a] \in SectionNames
    BY <1>1, <2>1
  <2> HIDE DEF a
  <2>4. QED
    BY <2>1, <2>2, <2>3, GrowGrows, OneTable DEF OrderGrows
<1>6. ASSUME NEW k \in Kind, NEW t \in Targets, InsnField(k, t)
      PROVE  SizesGrow /\ OrderGrows
  <2>1. a \in Asms /\ AddPatchTo(a, Reserved(a, k), Pos(a), k, t)
    BY <1>3, <1>6 DEF InsnField
  <2>2. sec[a] \in Table /\ cur[a] \in SectionNames /\ Pos(a) \in Nat
    BY <1>1, <1>2, <2>1
  <2>3. k.size \in Nat
    BY DEF Kind
  <2>4. /\ Reserved(a, k) \in Table
        /\ \A u \in SectionNames : sec[a][u].size <= Reserved(a, k)[u].size
    BY <2>2, <2>3, GrowGrows DEF Reserved
  <2> HIDE DEF a
  <2>5. QED
    BY <2>1, <2>2, <2>4, AddPatchToGrows
<1>7. ASSUME NEW k \in Kind, NEW t \in Targets, InsnOverlay(k, t)
      PROVE  SizesGrow /\ OrderGrows
  <2>1. a \in Asms /\ insn.start \in Nat /\ sec[a] \in Table
        /\ AddPatchTo(a, sec[a], insn.start, k, t)
    BY <1>1, <1>3, <1>7 DEF InsnOverlay
  <2>2. \A u \in SectionNames : sec[a][u].size <= sec[a][u].size
    BY <2>1, SizeNat
  <2> HIDE DEF a
  <2>3. QED
    BY <2>1, <2>2, AddPatchToGrows
<1>8. ASSUME InsnDone
      PROVE  SizesGrow /\ OrderGrows
  <2> DEFINE s == cur[a]
             q == Append(sec[a][s].insns, [first |-> insn.start, end |-> Pos(a)])
  <2>1. a \in Asms
    BY <1>3, <1>8 DEF InsnDone
  <2>2. sec[a] \in Table /\ s \in SectionNames
    BY <1>1, <2>1
  <2>3. sec' = [sec EXCEPT ![a] = [sec[a] EXCEPT ![s] =
                  [sec[a][s] EXCEPT !.insns = q]]] /\ order' = order
    BY <1>8 DEF InsnDone
  <2> HIDE DEF q, a, s
  <2>4. sec[a][s] \in Section
    BY <2>2 DEF Table
  <2>5. [sec[a][s] EXCEPT !.insns = q].size = sec[a][s].size
    BY <2>4 DEF Section
  <2>6. \A u \in SectionNames : sec[a][u].size <=
          [sec[a] EXCEPT ![s] = [sec[a][s] EXCEPT !.insns = q]][u].size
    BY <2>2, <2>5, SizeNat DEF Table
  <2>7. QED
    BY <2>1, <2>3, <2>6, OneTable DEF OrderGrows
<1>9. Kinds \subseteq Kind
  BY SizeAssumption, Zenon
<1>10. QED
  BY <1>4, <1>5, <1>6, <1>7, <1>8, <1>9
     DEF InsnStep, InsnBegin, InsnName, InsnReject, ForwardName

\* No step makes a section smaller or forgets one.
LEMMA NextGrows ==
  ASSUME TypeOK, [Next]_vars
  PROVE  SizesGrow /\ OrderGrows
<1>1. ASSUME NEW a \in Asms, LabelStep(a)
      PROVE  sec' = sec /\ order' = order
  BY <1>1 DEF LabelStep, Named, Bind, BindRejected, LabelHere
<1>2. ASSUME sec' = sec, order' = order
      PROVE  SizesGrow /\ OrderGrows
  BY <1>2, SameTable DEF OrderGrows
<1>3. QED
  BY <1>1, <1>2, SectionGrows, PatchGrows, InsnGrows
     DEF Next, NewLabel, vars

-----------------------------------------------------------------------------
(* How a step changes the labels                                            *)

\* Part of LabelsInPlace: only labels that exist are bound.
BoundMade == \A l \in LabelIds : IsBound(l) => l \in made

\* Every section an assembler is in, or returns to, exists.
SectionsExist ==
  \A a \in Asms : /\ cur[a] \in ToSet(order[a])
                  /\ ToSet(switches[a]) \subseteq ToSet(order[a])

Same == UNCHANGED <<label, labels, bindSeq>>

MakesOne ==
  \E l \in LabelIds \ made, n \in Names \cup {NoName}, ow \in Asms \cup {NoAsm} :
    /\ l \in made'
    /\ label' = [label EXCEPT ![l] =
                   [name |-> n, owner |-> ow, place |-> Unbound, seq |-> 0]]
    /\ UNCHANGED <<labels, bindSeq>>

\* One label that was not bound is bound, at or after the former end of a
\* section that exists and not past its present end.
BindsOne ==
  \E a \in Asms, l \in LabelIds, n \in Names \cup {NoName},
     ow \in Asms \cup {NoAsm}, s \in SectionNames, off \in Nat :
    /\ ~ IsBound(l) /\ l \in made' /\ ow \in {NoAsm, a}
    /\ l \in made => n = label[l].name /\ ow = label[l].owner
    /\ s \in ToSet(order'[a])
    /\ sec[a][s].size <= off /\ off <= sec'[a][s].size
    /\ PlaceLabel(a, l, n, ow, s, off)

LabelChange == made \subseteq made' /\ (Same \/ MakesOne \/ BindsOne)

\* The label of a new pointer slot.
LEMMA NewSlotChange ==
  ASSUME TypeOK, BoundMade, NEW a \in Asms, NEW S \in Table, NEW e \in Externs,
         NewSlot(a, S, e),
         \A u \in SectionNames : sec[a][u].size <= S[u].size,
         sec'[a]["externs"].size >= PaddedSlot(a, S)["externs"].size
  PROVE  LabelChange
<1> DEFINE off == PaddedSlot(a, S)["externs"].size
<1>1. FreshLabel \in LabelIds \ made
  BY FreshLabelType DEF NewSlot
<1>2. off \in Nat /\ "externs" \in SectionNames
  BY SlotType, SizeAssumption
<1>3. sec[a]["externs"].size <= off
  <2>1. sec[a] \in Table
    BY DEF TypeOK, Table
  <2>2. sec[a]["externs"].size \in Nat /\ S["externs"].size \in Nat
    BY <1>2, <2>1, SizeNat
  <2>3. off >= S["externs"].size
    BY <1>2, SlotSizes
  <2>4. QED
    BY <1>2, <2>2, <2>3
<1>4. PlaceLabel(a, FreshLabel, NoName, a, "externs", off)
  BY DEF NewSlot
<1>5. made' = made \cup {FreshLabel}
  BY DEF NewSlot
<1>6. "externs" \in ToSet(order'[a])
  <2>1. order'[a] = WithSection(a, "externs")
    BY DEF NewSlot, TypeOK
  <2>2. QED
    BY <1>2, <2>1, WithSectionSet
<1>7. ~ IsBound(FreshLabel)
  BY <1>1 DEF BoundMade
<1>8. off <= sec'[a]["externs"].size
  <2>1. sec'[a]["externs"].size >= off
    OBVIOUS
  <2>2. QED
    BY <2>1
<1> HIDE DEF off
<1>9. BindsOne
  BY <1>1, <1>2, <1>3, <1>4, <1>5, <1>6, <1>7, <1>8 DEF BindsOne
<1>10. QED
  BY <1>5, <1>9 DEF LabelChange

\* add_patch changes labels only by making the slot of an extern.
LEMMA AddPatchToChange ==
  ASSUME TypeOK, BoundMade, NEW a \in Asms, NEW S \in Table, NEW off \in Nat,
         NEW k \in Kind, NEW t \in Targets, AddPatchTo(a, S, off, k, t),
         \A u \in SectionNames : sec[a][u].size <= S[u].size
  PROVE  LabelChange
<1> DEFINE s == cur[a]
<1>1. CASE ~ k.slot \/ slots[a][ExtName[t]] # NoLabel
  BY <1>1 DEF AddPatchTo, LabelChange, Same
<1>2. CASE k.slot /\ slots[a][ExtName[t]] = NoLabel
  <2> DEFINE P == PaddedSlot(a, S)
             T == SlotTable(a, S, t)
  <2>1. t \in Externs /\ NewSlot(a, S, t)
        /\ sec' = [sec EXCEPT ![a] = Record(T, s, off, k, FreshLabel)]
    BY <1>2 DEF AddPatchTo
  <2>2. /\ P["externs"].size \in Nat /\ T \in Table /\ s \in SectionNames
        /\ "externs" \in SectionNames /\ SlotSize \in Nat
    BY <2>1, SlotType, SizeAssumption DEF TypeOK
  <2>3. T["externs"].size = P["externs"].size + SlotSize
    BY <2>1, <2>2, SlotSizes
  <2> HIDE DEF P, T, s
  <2>4. Record(T, s, off, k, FreshLabel)["externs"].size = T["externs"].size
    BY <2>2, RecordSize
  <2>5. sec'[a]["externs"].size >= P["externs"].size
    BY <2>1, <2>2, <2>3, <2>4 DEF TypeOK
  <2>6. QED
    BY <2>1, <2>5, NewSlotChange DEF P
<1>3. QED
  BY <1>1, <1>2

LEMMA PatchChange ==
  ASSUME TypeOK, BoundMade, NEW a \in Asms, PatchStep(a)
  PROVE  LabelChange
<1>1. sec[a] \in Table /\ cur[a] \in SectionNames /\ Pos(a) \in Nat
  BY DEF TypeOK, Table, Pos, Section
<1>2. ASSUME UNCHANGED <<made, label, labels, bindSeq>>
      PROVE  LabelChange
  BY <1>2 DEF LabelChange, Same
<1>3. ASSUME NEW off \in Nat, NEW k \in Kind, NEW t \in Targets,
             AddPatch(a, off, k, t)
      PROVE  LabelChange
  <2>1. \A u \in SectionNames : sec[a][u].size <= sec[a][u].size
    BY <1>1, SizeNat
  <2>2. AddPatchTo(a, sec[a], off, k, t)
    BY <1>3 DEF AddPatch
  <2>3. QED
    BY <1>1, <2>1, <2>2, AddPatchToChange
<1>4. ASSUME NEW k \in Kind, NEW t \in Targets, EmitPatch(a, k, t)
      PROVE  LabelChange
  <2>1. AddPatchTo(a, Reserved(a, k), Pos(a), k, t)
    BY <1>4 DEF EmitPatch
  <2>2. /\ Reserved(a, k) \in Table
        /\ \A u \in SectionNames : sec[a][u].size <= Reserved(a, k)[u].size
    BY <1>1, GrowGrows DEF Reserved, Kind
  <2>3. QED
    BY <1>1, <2>1, <2>2, AddPatchToChange
<1>5. ASSUME NEW e \in Externs, ExternSlot(a, e)
      PROVE  LabelChange
  <2> DEFINE P == PaddedSlot(a, sec[a])
             T == SlotTable(a, sec[a], e)
  <2>1. NewSlot(a, sec[a], e) /\ sec' = [sec EXCEPT ![a] = T]
    BY <1>5 DEF ExternSlot
  <2>2. /\ P["externs"].size \in Nat /\ SlotSize \in Nat
        /\ "externs" \in SectionNames
    BY <1>1, SlotType, SizeAssumption
  <2>3. T["externs"].size = P["externs"].size + SlotSize
    BY <1>1, <2>2, SlotSizes
  <2>4. \A u \in SectionNames : sec[a][u].size <= sec[a][u].size
    BY <1>1, SizeNat
  <2> HIDE DEF P, T
  <2>5. sec'[a]["externs"].size >= P["externs"].size
    BY <2>1, <2>2, <2>3 DEF TypeOK
  <2>6. QED
    BY <1>1, <2>1, <2>4, <2>5, NewSlotChange DEF P
<1>6. ASSUME NEW n \in Nat, Emit(a, n)
      PROVE  LabelChange
  BY <1>2, <1>6 DEF Emit
<1>7. ASSUME NEW k \in Kind, NEW l \in LabelIds, EmitPatchRejected(a, k, l)
      PROVE  LabelChange
  BY <1>2, <1>7 DEF EmitPatchRejected
<1>8. ASSUME NEW n \in Aligns, NEW emptyFill \in BOOLEAN, Align(a, n, emptyFill)
      PROVE  LabelChange
  BY <1>2, <1>8 DEF Align
<1>9. QED
  BY <1>3, <1>4, <1>5, <1>6, <1>7, <1>8, BoundsNat, PatchTypes
     DEF PatchStep, DataInt, DataRef

LEMMA ForwardNameChange ==
  ASSUME NEW a \in Asms, NEW n \in Names, ForwardName(a, n),
         UNCHANGED <<labels, bindSeq>>
  PROVE  LabelChange
  BY FreshLabelType DEF ForwardName, LabelChange, MakesOne

LEMMA LabelStepChange ==
  ASSUME TypeOK, BoundMade, SectionsExist, NEW a \in Asms, LabelStep(a)
  PROVE  LabelChange
<1>1. cur[a] \in SectionNames /\ sec[a] \in Table /\ Pos(a) \in Nat
  BY DEF TypeOK, Table, Pos, Section
<1>2. cur[a] \in ToSet(order[a]) /\ Pos(a) = sec[a][cur[a]].size
      /\ Pos(a) <= Pos(a)
  <2>1. cur[a] \in ToSet(order[a])
    BY DEF SectionsExist
  <2>2. Pos(a) <= Pos(a)
    BY <1>1
  <2>3. QED
    BY <2>1, <2>2 DEF Pos
<1>3. ASSUME NEW n \in Names, Named(a, n)
      PROVE  LabelChange
  BY <1>3, ForwardNameChange DEF Named
<1>4. ASSUME NEW l \in LabelIds, Bind(a, l)
      PROVE  LabelChange
  <2> DEFINE n == label[l].name
             ow == label[l].owner
  <2>1. n \in Names \cup {NoName} /\ ow \in Asms \cup {NoAsm}
    BY DEF TypeOK, LabelState
  <2>2. ~ IsBound(l) /\ l \in made /\ ow \in {NoAsm, a}
    BY <1>4 DEF Bind, MayBind
  <2>3. UNCHANGED <<sec, order, made>>
    BY <1>4 DEF Bind
  <2>4. PlaceLabel(a, l, n, ow, cur[a], Pos(a))
    BY <1>4 DEF Bind
  <2> HIDE DEF n, ow
  <2>5. BindsOne
    BY <1>1, <1>2, <2>1, <2>2, <2>3, <2>4 DEF BindsOne, n, ow
  <2>6. QED
    BY <2>3, <2>5 DEF LabelChange
<1>5. ASSUME NEW l \in LabelIds, BindRejected(a, l)
      PROVE  LabelChange
  BY <1>5 DEF BindRejected, LabelChange, Same
<1>6. ASSUME NEW n \in Names \cup {NoName}, LabelHere(a, n)
      PROVE  LabelChange
  <2>1. FreshLabel \in LabelIds \ made
    BY <1>6, FreshLabelType DEF LabelHere
  <2>2. ~ IsBound(FreshLabel)
    BY <2>1 DEF BoundMade
  <2>3. /\ UNCHANGED <<sec, order>> /\ made' = made \cup {FreshLabel}
        /\ PlaceLabel(a, FreshLabel, n, a, cur[a], Pos(a))
    BY <1>6 DEF LabelHere
  <2>4. BindsOne
    BY <1>1, <1>2, <2>1, <2>2, <2>3 DEF BindsOne
  <2>5. QED
    BY <2>3, <2>4 DEF LabelChange
<1>7. QED
  BY <1>3, <1>4, <1>5, <1>6 DEF LabelStep

LEMMA InsnChange ==
  ASSUME TypeOK, BoundMade, InsnStep
  PROVE  LabelChange
<1> DEFINE a == insn.asm
<1>1. sec \in [Asms -> Table] /\ \A b \in Asms : cur[b] \in SectionNames
  BY DEF TypeOK, Table
<1>2. \A b \in Asms : Pos(b) \in Nat
  BY DEF TypeOK, Pos, Section
<1>3. ASSUME insn.op # "idle"
      PROVE  a \in Asms /\ insn.start \in Nat
  BY <1>3 DEF TypeOK, Frame, Idle
<1>4. ASSUME UNCHANGED <<made, label, labels, bindSeq>>
      PROVE  LabelChange
  BY <1>4 DEF LabelChange, Same
<1>5. ASSUME NEW n \in Names, InsnName(n)
      PROVE  LabelChange
  BY <1>3, <1>5, ForwardNameChange DEF InsnName
<1>6. ASSUME NEW k \in Kind, NEW t \in Targets, InsnField(k, t)
      PROVE  LabelChange
  <2>1. a \in Asms /\ AddPatchTo(a, Reserved(a, k), Pos(a), k, t)
    BY <1>3, <1>6 DEF InsnField
  <2>2. sec[a] \in Table /\ cur[a] \in SectionNames /\ Pos(a) \in Nat
    BY <1>1, <1>2, <2>1
  <2>3. /\ Reserved(a, k) \in Table
        /\ \A u \in SectionNames : sec[a][u].size <= Reserved(a, k)[u].size
    BY <2>2, GrowGrows DEF Reserved, Kind
  <2> HIDE DEF a
  <2>4. QED
    BY <2>1, <2>2, <2>3, AddPatchToChange
<1>7. ASSUME NEW k \in Kind, NEW t \in Targets, InsnOverlay(k, t)
      PROVE  LabelChange
  <2>1. a \in Asms /\ insn.start \in Nat /\ sec[a] \in Table
        /\ AddPatchTo(a, sec[a], insn.start, k, t)
    BY <1>1, <1>3, <1>7 DEF InsnOverlay
  <2>2. \A u \in SectionNames : sec[a][u].size <= sec[a][u].size
    BY <2>1, SizeNat
  <2> HIDE DEF a
  <2>3. QED
    BY <2>1, <2>2, AddPatchToChange
<1>8. Kinds \subseteq Kind
  BY SizeAssumption, Zenon
<1>9. QED
  BY <1>4, <1>5, <1>6, <1>7, <1>8
     DEF InsnStep, InsnBegin, InsnReject, InsnBytes, InsnDone

\* Every step binds at most one label, and that label was not bound.
LEMMA NextChange ==
  ASSUME TypeOK, BoundMade, SectionsExist, [Next]_vars
  PROVE  LabelChange
<1>1. ASSUME NEW a \in Asms, SectionStep(a)
      PROVE  LabelChange
  BY <1>1 DEF SectionStep, SwitchSection, ExitSection, LabelChange, Same
<1>2. ASSUME NEW n \in Names \cup {NoName}, NEW ow \in Asms \cup {NoAsm},
             NewLabel(n, ow)
      PROVE  LabelChange
  BY <1>2, FreshLabelType DEF NewLabel, LabelChange, MakesOne
<1>3. CASE UNCHANGED vars
  BY <1>3 DEF vars, LabelChange, Same
<1>4. QED
  BY <1>1, <1>2, <1>3, PatchChange, LabelStepChange, InsnChange DEF Next

-----------------------------------------------------------------------------
(* The inductive invariant                                                  *)

LInv == TypeOK /\ EncodingOK /\ SectionsExist /\ LabelsInPlace /\ BindOrder

LEMMA LInvBoundMade == LabelsInPlace => BoundMade
  BY DEF LabelsInPlace, BoundMade

LEMMA LInvInit == Init => LInv
<1> SUFFICES ASSUME Init PROVE LInv
  OBVIOUS
<1>1. \A l \in LabelIds : ~ IsBound(l) /\ label[l].place.asm = NoAsm
  BY DEF Init, IsBound, Unbound
<1>2. \A a \in Asms : ToSet(labels[a]) = {} /\ ToSet(switches[a]) = {}
  BY DEF Init, ToSet
<1>3. \A a \in Asms : cur[a] \in ToSet(order[a])
  BY DEF Init, ToSet
<1>4. SectionsExist /\ LabelsInPlace /\ BindOrder
  BY <1>1, <1>2, <1>3, AsmAssumption
     DEF SectionsExist, LabelsInPlace, BindOrder
<1>5. QED
  BY <1>4, TypeInit DEF LInv, EncodingOK, Init

LEMMA SectionsExistStep ==
  ASSUME TypeOK, SectionsExist, [Next]_vars
  PROVE  SectionsExist'
<1>1. OrderGrows
  BY NextGrows
<1>2. ASSUME UNCHANGED <<cur, switches>>
      PROVE  SectionsExist'
  BY <1>1, <1>2 DEF SectionsExist, OrderGrows
<1>3. ASSUME NEW a \in Asms, NEW s \in UserSections, NEW al \in Aligns \cup {0},
             NEW w \in WritableArgs, NEW nested \in BOOLEAN,
             SwitchSection(a, s, al, w, nested)
      PROVE  SectionsExist'
  <2>1. s \in SectionNames
    BY SizeAssumption
  <2>2. order' = [order EXCEPT ![a] = WithSection(a, s)]
        /\ cur' = [cur EXCEPT ![a] = s]
    BY <1>3 DEF SwitchSection
  <2>3. s \in ToSet(order'[a])
    BY <2>1, <2>2, WithSectionSet DEF TypeOK
  <2>4. ToSet(switches'[a]) \subseteq ToSet(switches[a]) \cup {cur[a]}
        /\ \A b \in Asms \ {a} : switches'[b] = switches[b]
    <3>1. switches[a] \in Seq(SectionNames) /\ cur[a] \in SectionNames
      BY DEF TypeOK
    <3>2. ToSet(Append(switches[a], cur[a])) = ToSet(switches[a]) \cup {cur[a]}
      BY <3>1, AppendToSet
    <3>3. \/ switches' = [switches EXCEPT ![a] = Append(switches[a], cur[a])]
          \/ switches' = switches
      BY <1>3 DEF SwitchSection
    <3>4. CASE switches' = [switches EXCEPT ![a] = Append(switches[a], cur[a])]
      <4>1. switches'[a] = Append(switches[a], cur[a])
        BY <3>4 DEF TypeOK
      <4>2. QED
        BY <3>2, <3>4, <4>1 DEF TypeOK
    <3>5. CASE switches' = switches
      BY <3>5
    <3>6. QED
      BY <3>3, <3>4, <3>5
  <2>5. ASSUME NEW b \in Asms
        PROVE  /\ cur'[b] \in ToSet(order'[b])
               /\ ToSet(switches'[b]) \subseteq ToSet(order'[b])
    <3>1. /\ cur[b] \in ToSet(order[b]) /\ ToSet(switches[b]) \subseteq ToSet(order[b])
          /\ ToSet(order[b]) \subseteq ToSet(order'[b])
      BY <1>1 DEF SectionsExist, OrderGrows
    <3>2. CASE b = a
      BY <2>2, <2>3, <2>4, <3>1, <3>2 DEF TypeOK
    <3>3. CASE b # a
      BY <2>2, <2>4, <3>1, <3>3 DEF TypeOK
    <3>4. QED
      BY <3>2, <3>3
  <2>6. QED
    BY <2>5 DEF SectionsExist
<1>4. ASSUME NEW a \in Asms, ExitSection(a)
      PROVE  SectionsExist'
  <2>1. switches[a] \in Seq(SectionNames) /\ switches[a] # <<>>
    BY <1>4 DEF ExitSection, TypeOK
  <2>2. /\ cur' = [cur EXCEPT ![a] = Last(switches[a])]
        /\ switches' = [switches EXCEPT ![a] = Front(switches[a])]
    BY <1>4 DEF ExitSection
  <2>3. Last(switches[a]) \in ToSet(switches[a])
        /\ ToSet(Front(switches[a])) \subseteq ToSet(switches[a])
    BY <2>1, LastFront
  <2>4. QED
    BY <1>1, <2>2, <2>3 DEF SectionsExist, OrderGrows, TypeOK
<1>5. ASSUME NEW a \in Asms, PatchStep(a) \/ LabelStep(a)
      PROVE  UNCHANGED <<cur, switches>>
  BY <1>5 DEF PatchStep, Emit, AddPatch, EmitPatch, EmitPatchRejected,
              ExternSlot, Align, DataInt, DataRef, LabelStep, Named, Bind,
              BindRejected, LabelHere
<1>6. ASSUME InsnStep
      PROVE  UNCHANGED <<cur, switches>>
  BY <1>6 DEF InsnStep, InsnBegin, InsnName, InsnReject, InsnBytes, InsnField,
              InsnOverlay, InsnDone
<1>7. QED
  BY <1>2, <1>3, <1>4, <1>5, <1>6 DEF Next, SectionStep, NewLabel, vars

\* What one label does when it is bound, and the others.
LEMMA BindsOneEffect ==
  ASSUME TypeOK, LabelsInPlace, BindsOne
  PROVE  \E a \in Asms, l \in LabelIds, s \in SectionNames, off \in Nat :
           /\ ~ IsBound(l) /\ l \in made'
           /\ label'[l].owner \in {NoAsm, a}
           /\ label'[l].place = [asm |-> a, sec |-> s, off |-> off]
           /\ label'[l].seq = bindSeq + 1
           /\ s \in ToSet(order'[a])
           /\ sec[a][s].size <= off /\ off <= sec'[a][s].size
           /\ bindSeq' = bindSeq + 1
           /\ \A m \in LabelIds \ {l} : label'[m] = label[m]
           /\ ToSet(labels'[a]) = ToSet(labels[a]) \cup {l}
           /\ \A b \in Asms \ {a} : labels'[b] = labels[b]
<1>1. PICK a \in Asms, l \in LabelIds, n \in Names \cup {NoName},
           ow \in Asms \cup {NoAsm}, s \in SectionNames, off \in Nat :
        /\ ~ IsBound(l) /\ l \in made' /\ ow \in {NoAsm, a}
        /\ s \in ToSet(order'[a])
        /\ sec[a][s].size <= off /\ off <= sec'[a][s].size
        /\ PlaceLabel(a, l, n, ow, s, off)
  BY DEF BindsOne
<1> DEFINE x == [name |-> n, owner |-> ow,
                 place |-> [asm |-> a, sec |-> s, off |-> off],
                 seq |-> bindSeq + 1]
<1>2. /\ label' = [label EXCEPT ![l] = x]
      /\ bindSeq' = bindSeq + 1
      /\ labels' = [labels EXCEPT ![a] = Append(labels[a], l)]
  BY <1>1 DEF PlaceLabel
<1>3. /\ label'[l] = x
      /\ \A m \in LabelIds \ {l} : label'[m] = label[m]
  BY <1>2 DEF TypeOK
<1>4. /\ x.owner = ow /\ x.seq = bindSeq + 1
      /\ x.place = [asm |-> a, sec |-> s, off |-> off]
  OBVIOUS
<1>5. ToSet(labels'[a]) = ToSet(labels[a]) \cup {l}
  <2>1. labels[a] \in Seq(LabelIds)
    BY DEF TypeOK
  <2>2. labels'[a] = Append(labels[a], l)
    BY <1>2 DEF TypeOK
  <2>3. QED
    BY <2>1, <2>2, AppendToSet
<1>6. \A b \in Asms \ {a} : labels'[b] = labels[b]
  BY <1>2 DEF TypeOK
<1> HIDE DEF x
<1>7. QED
  BY <1>1, <1>2, <1>3, <1>4, <1>5, <1>6

LEMMA LabelsInPlaceStep ==
  ASSUME TypeOK, TypeOK', LabelsInPlace, LabelChange, SizesGrow, OrderGrows
  PROVE  LabelsInPlace'
<1>1. \A a \in Asms, s \in SectionNames :
        /\ sec[a][s].size \in Nat /\ sec'[a][s].size \in Nat
        /\ sec[a][s].size <= sec'[a][s].size
  <2>1. \A a \in Asms : sec[a] \in Table /\ sec'[a] \in Table
    BY DEF TypeOK, Table
  <2>2. QED
    BY <2>1, SizeNat DEF SizesGrow
<1>2. \A l \in LabelIds : IsBound(l) => label[l].place \in Place
  BY DEF TypeOK, LabelState, IsBound
\* A label that stays as it was stays in place.
<1>3. ASSUME NEW l \in LabelIds, IsBound(l), label'[l] = label[l]
      PROVE  LET p == label'[l].place IN
             /\ l \in made'
             /\ label'[l].owner \in {NoAsm, p.asm}
             /\ p.sec \in ToSet(order'[p.asm])
             /\ p.off <= sec'[p.asm][p.sec].size
  <2> DEFINE p == label[l].place
  <2>1. p.asm \in Asms /\ p.sec \in SectionNames /\ p.off \in Nat
    BY <1>2, <1>3 DEF Place
  <2>2. /\ l \in made /\ label[l].owner \in {NoAsm, p.asm}
        /\ p.sec \in ToSet(order[p.asm]) /\ p.off <= sec[p.asm][p.sec].size
    BY <1>3 DEF LabelsInPlace, Created
  <2>3. l \in made' /\ p.sec \in ToSet(order'[p.asm])
    BY <2>1, <2>2 DEF LabelChange, OrderGrows
  <2>4. p.off <= sec'[p.asm][p.sec].size
    BY <1>1, <2>1, <2>2
  <2>5. QED
    BY <1>3, <2>2, <2>3, <2>4
<1>4. CASE Same
  BY <1>3, <1>4 DEF Same, LabelsInPlace, IsBound, Created
<1>5. CASE MakesOne
  <2>1. PICK l \in LabelIds \ made, n \in Names \cup {NoName},
             ow \in Asms \cup {NoAsm} :
          /\ label' = [label EXCEPT ![l] = [name |-> n, owner |-> ow,
                                            place |-> Unbound, seq |-> 0]]
          /\ UNCHANGED <<labels, bindSeq>>
    BY <1>5 DEF MakesOne
  <2>2. ~ IsBound(l) /\ label[l].place = Unbound
    BY <2>1 DEF LabelsInPlace, IsBound
  <2>3. label'[l].place = Unbound /\ \A m \in LabelIds \ {l} : label'[m] = label[m]
    BY <2>1 DEF TypeOK
  <2>4. \A m \in LabelIds : label'[m].place = label[m].place
    BY <2>2, <2>3
  <2>5. QED
    BY <1>3, <2>1, <2>2, <2>3, <2>4 DEF LabelsInPlace, IsBound, Created
<1>6. CASE BindsOne
  <2>1. PICK a \in Asms, l \in LabelIds, s \in SectionNames, off \in Nat :
           /\ ~ IsBound(l) /\ l \in made'
           /\ label'[l].owner \in {NoAsm, a}
           /\ label'[l].place = [asm |-> a, sec |-> s, off |-> off]
           /\ s \in ToSet(order'[a]) /\ off <= sec'[a][s].size
           /\ \A m \in LabelIds \ {l} : label'[m] = label[m]
           /\ ToSet(labels'[a]) = ToSet(labels[a]) \cup {l}
           /\ \A b \in Asms \ {a} : labels'[b] = labels[b]
    BY <1>6, BindsOneEffect
  <2>2. label[l].place.asm = NoAsm
    BY <2>1 DEF IsBound, Unbound
  <2>3. ASSUME NEW b \in Asms, NEW m \in LabelIds
        PROVE  m \in ToSet(labels'[b]) <=> label'[m].place.asm = b
    <3>1. m \in ToSet(labels[b]) <=> label[m].place.asm = b
      BY DEF LabelsInPlace
    <3>2. CASE m = l /\ b = a
      BY <2>1, <3>2
    <3>3. CASE m = l /\ b # a
      BY <2>1, <2>2, <3>1, <3>3, AsmAssumption
    <3>4. CASE m # l
      BY <2>1, <3>1, <3>4
    <3>5. QED
      BY <3>2, <3>3, <3>4
  <2>4. ASSUME NEW m \in LabelIds, IsBound(m)'
        PROVE  LET p == label'[m].place IN
               /\ m \in made'
               /\ label'[m].owner \in {NoAsm, p.asm}
               /\ p.sec \in ToSet(order'[p.asm])
               /\ p.off <= sec'[p.asm][p.sec].size
    <3>1. CASE m = l
      BY <2>1, <3>1
    <3>2. CASE m # l
      BY <1>3, <2>1, <2>4, <3>2 DEF IsBound
    <3>3. QED
      BY <3>1, <3>2
  <2>5. QED
    BY <2>3, <2>4 DEF LabelsInPlace, Created
<1>7. QED
  BY <1>4, <1>5, <1>6 DEF LabelChange

LEMMA BindOrderStep ==
  ASSUME TypeOK, LabelsInPlace, BindOrder, LabelChange
  PROVE  BindOrder'
<1>1. CASE Same
  BY <1>1 DEF Same, BindOrder, IsBound
<1>2. CASE MakesOne
  <2>1. PICK l \in LabelIds \ made, n \in Names \cup {NoName},
             ow \in Asms \cup {NoAsm} :
          /\ label' = [label EXCEPT ![l] = [name |-> n, owner |-> ow,
                                            place |-> Unbound, seq |-> 0]]
          /\ UNCHANGED <<labels, bindSeq>>
    BY <1>2 DEF MakesOne
  <2>2. label'[l].place = Unbound /\ \A m \in LabelIds \ {l} : label'[m] = label[m]
    BY <2>1 DEF TypeOK
  <2>3. QED
    BY <2>1, <2>2 DEF BindOrder, IsBound
<1>3. CASE BindsOne
  <2>1. PICK a \in Asms, l \in LabelIds, s \in SectionNames, off \in Nat :
           /\ ~ IsBound(l)
           /\ label'[l].place = [asm |-> a, sec |-> s, off |-> off]
           /\ label'[l].seq = bindSeq + 1
           /\ sec[a][s].size <= off
           /\ bindSeq' = bindSeq + 1
           /\ \A m \in LabelIds \ {l} : label'[m] = label[m]
    BY <1>3, BindsOneEffect
  <2>2. /\ bindSeq \in Nat /\ sec[a][s].size \in Nat
        /\ \A m \in LabelIds : label[m].seq \in Nat
    BY DEF TypeOK, Section, LabelState
\* The bound labels had numbers up to bindSeq, and lay inside their section.
  <2>3. ASSUME NEW m \in LabelIds, m # l, IsBound(m)'
        PROVE  /\ IsBound(m) /\ label'[m] = label[m]
               /\ label[m].seq \in 1 .. bindSeq
               /\ label[m].place.asm = a /\ label[m].place.sec = s
                    => label[m].place.off <= off
    <3>1. label'[m] = label[m] /\ IsBound(m)
      BY <2>1, <2>3 DEF IsBound
    <3>2. label[m].seq \in 1 .. bindSeq
      BY <3>1 DEF BindOrder
    <3>3. label[m].place \in Place
      BY <3>1 DEF IsBound, TypeOK, LabelState
    <3>4. label[m].place.off \in Nat
      BY <3>3 DEF Place
    <3>5. label[m].place.off <= sec[label[m].place.asm][label[m].place.sec].size
      BY <3>1 DEF LabelsInPlace
    <3>6. QED
      BY <2>1, <2>2, <3>1, <3>2, <3>4, <3>5
  <2>4. ASSUME NEW m \in LabelIds, NEW o \in LabelIds, IsBound(m)', IsBound(o)',
               m # o
        PROVE  LET p == label'[m].place
                   q == label'[o].place
               IN  /\ label'[m].seq # label'[o].seq
                   /\ p.asm = q.asm /\ p.sec = q.sec
                        /\ label'[m].seq < label'[o].seq => p.off <= q.off
    <3>1. CASE m = l
      <4>1. label'[o].seq \in 1 .. bindSeq
        BY <2>3, <2>4, <3>1
      <4>2. QED
        BY <2>1, <2>2, <3>1, <4>1
    <3>2. CASE m # l /\ o = l
      <4>1. /\ label'[m] = label[m] /\ label[m].seq \in 1 .. bindSeq
            /\ label[m].place.asm = a /\ label[m].place.sec = s
                    => label[m].place.off <= off
        BY <2>3, <2>4, <3>2
      <4>2. QED
        BY <2>1, <2>2, <3>2, <4>1
    <3>3. CASE m # l /\ o # l
      <4>1. /\ IsBound(m) /\ label'[m] = label[m]
            /\ IsBound(o) /\ label'[o] = label[o]
            /\ label[m].seq \in 1 .. bindSeq
        BY <2>3, <2>4, <3>3
      <4>2. QED
        BY <2>1, <2>2, <2>4, <4>1 DEF BindOrder
    <3>4. QED
      BY <3>1, <3>2, <3>3
  <2>5. \A m \in LabelIds : IsBound(m)' => label'[m].seq \in 1 .. bindSeq'
    <3>1. label'[l].seq \in 1 .. bindSeq'
      BY <2>1, <2>2
    <3>2. QED
      BY <2>1, <2>2, <2>3, <3>1
  <2>6. QED
    BY <2>4, <2>5 DEF BindOrder
<1>4. QED
  BY <1>1, <1>2, <1>3 DEF LabelChange

LEMMA LInvNext == LInv /\ [Next]_vars => LInv'
<1> SUFFICES ASSUME LInv, [Next]_vars PROVE LInv'
  OBVIOUS
<1>1. TypeOK' /\ EncodingOK'
  BY TypeNext DEF LInv
<1>2. SizesGrow /\ OrderGrows
  BY NextGrows DEF LInv
<1>3. LabelChange
  BY NextChange, LInvBoundMade DEF LInv
<1>4. SectionsExist'
  BY SectionsExistStep DEF LInv
<1>5. LabelsInPlace' /\ BindOrder'
  BY <1>1, <1>2, <1>3, LabelsInPlaceStep, BindOrderStep DEF LInv
<1>6. QED
  BY <1>1, <1>4, <1>5 DEF LInv

LEMMA LInvAlways == Spec => []LInv
  BY LInvInit, LInvNext, PTL DEF Spec

\* A bound label always lies in a section that exists, not past its end, in
\* an assembler that may bind it, and `labels` lists exactly the bound ones.
THEOREM LabelsSound == Spec => []LabelsInPlace
<1>1. LInv => LabelsInPlace
  BY DEF LInv
<1>2. QED
  BY <1>1, LInvAlways, PTL

\* The bind numbers order all labels of all assemblers, and the labels of a
\* section by their place: whatever Image.address decides by them is right.
THEOREM BindOrdered == Spec => []BindOrder
<1>1. LInv => BindOrder
  BY DEF LInv
<1>2. QED
  BY <1>1, LInvAlways, PTL

LEMMA BoundStays ==
  ASSUME LInv, [Next]_vars, NEW l \in LabelIds, IsBound(l)
  PROVE  label'[l] = label[l]
<1>1. LabelChange /\ TypeOK /\ LabelsInPlace
  BY NextChange, LInvBoundMade DEF LInv
<1>2. l \in made
  BY <1>1 DEF LabelsInPlace
<1>3. CASE Same
  BY <1>3 DEF Same
<1>4. CASE MakesOne
  BY <1>1, <1>2, <1>4 DEF MakesOne, TypeOK
<1>5. CASE BindsOne
  BY <1>1, <1>5, BindsOneEffect
<1>6. QED
  BY <1>1, <1>3, <1>4, <1>5 DEF LabelChange

\* "Labels are bound once": no operation of any assembler moves, renames or
\* renumbers a label once it is bound.
THEOREM BoundOnce == Spec => BoundForever
<1>1. LInv /\ [Next]_vars =>
        [\A l \in LabelIds : IsBound(l) => label'[l] = label[l]]_vars
  BY BoundStays
<1>2. QED
  BY <1>1, LInvAlways, PTL DEF Spec, BoundForever
=============================================================================
