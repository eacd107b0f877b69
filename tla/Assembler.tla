------------------------------ MODULE Assembler ------------------------------
(***************************************************************************)
(* The assembler of jita: sections, labels, patches, forward names, extern *)
(* pointer slots and the emission of one instruction                       *)
(* (jita/core/assembler.py, labels.py, section.py, patch.py).              *)
(*                                                                         *)
(* Several assemblers live side by side: Label objects may be handed from  *)
(* one to another, and the bind counter is global.  The bytes of a buffer  *)
(* are abstracted to their number; alignments and sizes are in bytes.      *)
(* A rejected call that changes nothing is a stuttering step and has no    *)
(* action; a rejected call that does change something has one.             *)
(***************************************************************************)
EXTENDS Integers, SequencesExt

CONSTANTS
  Asms,          \* Assembler objects
  LabelIds,      \* Label objects that may be created
  Names,         \* label names
  Externs,       \* Extern objects
  ExtNames,      \* extern names
  ExtName,       \* the name of each Extern object
  SectionNames,  \* section names, "code" and "externs" among them
  UserSections,  \* the sections the user switches to
  WritableArgs,  \* `writable` arguments: "keep" (None), "writable", "readonly"
  Kinds,         \* patch kinds the encoders and the user use
  DataSizes,     \* sizes of the data directives
  Aligns,        \* powers of two accepted as alignments
  DefaultAlign,  \* alignment of a new section (16)
  SlotSize,      \* size and alignment of a pointer slot (8)
  MaxSize,       \* bound on the size of a section
  MaxNesting,    \* bound on the nesting of `with a.section(..)` blocks
  MaxPatches,    \* bound on the patches of a section
  MaxInsns,      \* bound on the instructions of a section
  NoLabel, NoAsm, NoName

Kind == [size : Nat \ {0}, slot : BOOLEAN]

ASSUME AsmAssumption ==
  /\ NoLabel \notin LabelIds
  /\ NoAsm \notin Asms
  /\ NoName \notin Names

ASSUME ExternAssumption ==
  /\ LabelIds \cap Externs = {}
  /\ ExtName \in [Externs -> ExtNames]

ASSUME SizeAssumption ==
  /\ {"code", "externs"} \subseteq SectionNames
  /\ UserSections \subseteq SectionNames
  /\ WritableArgs \subseteq {"keep", "writable", "readonly"}
  /\ Kinds \subseteq Kind
  /\ DataSizes \subseteq Nat \ {0}
  /\ Aligns \subseteq Nat \ {0}
  /\ DefaultAlign \in Nat \ {0}
  /\ SlotSize \in Nat \ {0}
  /\ {MaxSize, MaxNesting, MaxPatches, MaxInsns} \subseteq Nat

\* Alignments are powers of two, so the smaller of two divides the larger;
\* a new section (16) is aligned at least as well as a slot (8).
ASSUME AlignAssumption ==
  /\ SlotSize <= DefaultAlign
  /\ \A m, n \in Aligns \cup {DefaultAlign, SlotSize} : m <= n => n % m = 0

-----------------------------------------------------------------------------
VARIABLES
  sec,       \* [asm][section name] -> the Section object
  order,     \* [asm] -> names of the sections, in creation order
  cur,       \* [asm] -> current section
  switches,  \* [asm] -> sections to return to, innermost `with` last
  made,      \* Label objects created so far
  label,     \* [label] -> name, owner, place and bind sequence number
  labels,    \* [asm] -> bound labels, in bind order
  symbols,   \* [asm][name] -> bound label
  named,     \* [asm] -> labels referenced by name and not bound, oldest first
  slots,     \* [asm][extern name] -> label of its pointer slot
  bindSeq,   \* the last value drawn from the global bind counter
  insn       \* the instruction being encoded, or Idle

vars == <<sec, order, cur, switches, made, label, labels, symbols, named,
          slots, bindSeq, insn>>

Targets == LabelIds \cup Externs
Unbound == [asm |-> NoAsm, sec |-> "code", off |-> 0]
Place == [asm : Asms, sec : SectionNames, off : Nat]
Patch == [off : Nat, kind : Kind, target : Targets]
Span == [first : Nat, end : Nat]
Section == [size : Nat, align : Nat \ {0}, writable : BOOLEAN,
            patches : Seq(Patch), insns : Seq(Span)]
LabelState == [name : Names \cup {NoName}, owner : Asms \cup {NoAsm},
               place : Place \cup {Unbound}, seq : Nat]

ABS64 == [size |-> SlotSize, slot |-> FALSE]
AbsBySize(n) == [size |-> n, slot |-> FALSE]

Idle == [op |-> "idle", asm |-> NoAsm, start |-> 0, before |-> 0,
         saved |-> <<>>]
\* `saved` is history: the forward names when the encoding began.
Frame == [op : {"parse", "flush", "words", "patched"}, asm : Asms, start : Nat, before : Nat,
          saved : Seq(LabelIds)]

EmptySection(al) == [size |-> 0, align |-> al, writable |-> FALSE,
                     patches |-> <<>>, insns |-> <<>>]

Init ==
  /\ sec = [a \in Asms |-> [s \in SectionNames |->
              EmptySection(DefaultAlign)]]
  /\ order = [a \in Asms |-> <<"code">>]
  /\ cur = [a \in Asms |-> "code"]
  /\ switches = [a \in Asms |-> <<>>]
  /\ made = {}
  /\ label = [l \in LabelIds |-> [name |-> NoName, owner |-> NoAsm,
                                  place |-> Unbound, seq |-> 0]]
  /\ labels = [a \in Asms |-> <<>>]
  /\ symbols = [a \in Asms |-> [n \in Names |-> NoLabel]]
  /\ named = [a \in Asms |-> <<>>]
  /\ slots = [a \in Asms |-> [e \in ExtNames |-> NoLabel]]
  /\ bindSeq = 0
  /\ insn = Idle

-----------------------------------------------------------------------------
(* Sections as values: S is the section table of one assembler.            *)

Grow(S, s, n) == [S EXCEPT ![s].size = @ + n]
\* Faulty: one byte too many is taken back.
TruncateTooFar(S, s, n) == [S EXCEPT ![s].size = n - 1]
Truncate(S, s, n) == [S EXCEPT ![s].size = n]
Record(S, s, off, k, t) ==
  [S EXCEPT ![s].patches =
     Append(@, [off |-> off, kind |-> [k EXCEPT !.slot = FALSE], target |-> t])]

Pos(a) == sec[a][cur[a]].size
Pad(pos, n) == (-pos) % n
Created(a, s) == s \in ToSet(order[a])
WithSection(a, s) == IF Created(a, s) THEN order[a] ELSE Append(order[a], s)

\* Faulty: a smaller alignment replaces a larger one.
SetAlign(S, s, al) == [S EXCEPT ![s].align = IF al # 0 THEN al ELSE @]
RaiseAlign(S, s, al) ==
  [S EXCEPT ![s].align = IF al > @ THEN al ELSE @]

SetWritable(S, s, w) ==
  IF w = "keep" THEN S ELSE [S EXCEPT ![s].writable = (w = "writable")]

\* Every section of S is within the bounds of the model.
Fits(S) == \A s \in SectionNames : /\ S[s].size <= MaxSize
                                   /\ Len(S[s].patches) <= MaxPatches

-----------------------------------------------------------------------------
(* Labels                                                                   *)

FreshLabel == CHOOSE l \in LabelIds : l \notin made
HasFresh == \E l \in LabelIds : l \notin made

IsBound(l) == label[l].place # Unbound

\* The label `named` or `_named` holds under name n.
IsForward(a, n, i) == i \in DOMAIN named[a] /\ label[named[a][i]].name = n
HasForward(a, n) == \E i \in DOMAIN named[a] : IsForward(a, n, i)
ForwardAt(a, n) == CHOOSE i \in DOMAIN named[a] : IsForward(a, n, i)
Forward(a, n) == named[a][ForwardAt(a, n)]
\* Faulty: the forward reference outlives its definition.
KeepForward(a, n) == named[a]
PopForward(a, n) == RemoveAt(named[a], ForwardAt(a, n))

\* Faulty: every assembler numbers its own labels.
PlaceLabelLocally(a, l, nm, ow, s, off) ==
  /\ label' = [label EXCEPT ![l] =
                 [name |-> nm, owner |-> ow,
                  place |-> [asm |-> a, sec |-> s, off |-> off],
                  seq |-> Len(labels[a]) + 1]]
  /\ bindSeq' = bindSeq + 1
  /\ labels' = [labels EXCEPT ![a] = Append(@, l)]

\* Bind l, whose name and owner are nm and ow, at offset off of section s.
PlaceLabel(a, l, nm, ow, s, off) ==
  /\ label' = [label EXCEPT ![l] =
                 [name |-> nm, owner |-> ow,
                  place |-> [asm |-> a, sec |-> s, off |-> off],
                  seq |-> bindSeq + 1]]
  /\ bindSeq' = bindSeq + 1
  /\ labels' = [labels EXCEPT ![a] = Append(@, l)]

-----------------------------------------------------------------------------
(* Sections                                                                 *)

\* a.section(s, align, writable); al = 0 and w = "keep" stand for None.  As a
\* context manager (nested) it remembers the section to restore.  A bad
\* alignment is rejected before anything changes.
SwitchSection(a, s, al, w, nested) ==
  /\ insn = Idle
  /\ order' = [order EXCEPT ![a] = WithSection(a, s)]
  /\ cur' = [cur EXCEPT ![a] = s]
  /\ sec' = [sec EXCEPT ![a] = SetWritable(RaiseAlign(@, s, al), s, w)]
  /\ IF nested
     THEN /\ Len(switches[a]) < MaxNesting
          /\ switches' = [switches EXCEPT ![a] = Append(@, cur[a])]
     ELSE UNCHANGED switches
  /\ UNCHANGED <<made, label, labels, symbols, named, slots, bindSeq, insn>>

ExitSection(a) ==
  /\ insn = Idle
  /\ switches[a] # <<>>
  /\ cur' = [cur EXCEPT ![a] = Last(switches[a])]
  /\ switches' = [switches EXCEPT ![a] = Front(@)]
  /\ UNCHANGED <<sec, order, made, label, labels, symbols, named, slots,
                 bindSeq, insn>>

-----------------------------------------------------------------------------
(* Raw emission and patches                                                 *)

Emit(a, n) ==
  /\ insn = Idle
  /\ sec' = [sec EXCEPT ![a] = Grow(@, cur[a], n)]
  /\ Fits(sec'[a])
  /\ UNCHANGED <<order, cur, switches, made, label, labels, symbols, named,
                 slots, bindSeq, insn>>

\* extern_slot for a name without a slot yet: S is the section table before,
\* PaddedSlot and SlotTable the table after padding and after the slot.
PaddedSlotUnaligned(a, S) ==  \* faulty: the slot follows the last byte
  IF Created(a, "externs") THEN S
  ELSE [S EXCEPT !["externs"].align = SlotSize]

PaddedSlot(a, S) ==
  LET A == IF Created(a, "externs") THEN S
           ELSE [S EXCEPT !["externs"].align = SlotSize]
  IN  Grow(A, "externs", Pad(A["externs"].size, SlotSize))

SlotTable(a, S, e) ==
  LET P == PaddedSlot(a, S)
  IN  Record(Grow(P, "externs", SlotSize), "externs", P["externs"].size,
             ABS64, e)

NewSlot(a, S, e) ==
  /\ HasFresh
  /\ order' = [order EXCEPT ![a] = WithSection(a, "externs")]
  /\ made' = made \cup {FreshLabel}
  /\ PlaceLabel(a, FreshLabel, NoName, a, "externs",
                PaddedSlot(a, S)["externs"].size)
  /\ slots' = [slots EXCEPT ![a][ExtName[e]] = FreshLabel]

\* Faulty: the size of the field is left out.
StartInEmitted(S, s, off, k) == off \in Nat /\ off <= S[s].size
InEmitted(S, s, off, k) == off \in Nat /\ off + k.size <= S[s].size

\* add_patch at offset off of the current section, over the table S.  A slot
\* kind is recorded as its field kind to the extern's slot, made on demand.
AddPatchTo(a, S, off, k, t) ==
  LET s == cur[a] IN
  /\ t \in LabelIds => t \in made
  /\ InEmitted(S, s, off, k)
  /\ IF ~ k.slot
     THEN /\ sec' = [sec EXCEPT ![a] = Record(S, s, off, k, t)]
          /\ UNCHANGED <<order, made, label, bindSeq, labels, slots>>
     ELSE /\ t \in Externs
          /\ IF slots[a][ExtName[t]] # NoLabel
             THEN /\ sec' = [sec EXCEPT ![a] =
                       Record(S, s, off, k, slots[a][ExtName[t]])]
                  /\ UNCHANGED <<order, made, label, bindSeq, labels, slots>>
             ELSE /\ NewSlot(a, S, t)
                  /\ sec' = [sec EXCEPT ![a] =
                       Record(SlotTable(a, S, t), s, off, k, FreshLabel)]
  /\ Fits(sec'[a])

AddPatch(a, off, k, t) ==
  /\ insn = Idle
  /\ AddPatchTo(a, sec[a], off, k, t)
  /\ UNCHANGED <<cur, switches, symbols, named, insn>>

\* emit_patch reserves the field and then records the patch over it.
Reserved(a, k) == Grow(sec[a], cur[a], k.size)

EmitPatch(a, k, t) ==
  /\ insn = Idle
  /\ AddPatchTo(a, Reserved(a, k), Pos(a), k, t)
  /\ UNCHANGED <<cur, switches, symbols, named, insn>>

\* The patch is rejected (here: a slot kind whose target is a Label) after
\* the field was reserved; the reservation is taken back.
EmitPatchRejected(a, k, l) ==
  /\ insn = Idle
  /\ l \in made /\ k.slot
  /\ sec' = [sec EXCEPT ![a] = Truncate(Reserved(a, k), cur[a], Pos(a))]
  /\ UNCHANGED <<order, cur, switches, made, label, labels, symbols, named,
                 slots, bindSeq, insn>>

ExternSlot(a, e) ==
  /\ insn = Idle
  /\ slots[a][ExtName[e]] = NoLabel
  /\ NewSlot(a, sec[a], e)
  /\ sec' = [sec EXCEPT ![a] = SlotTable(a, @, e)]
  /\ Fits(sec'[a])
  /\ UNCHANGED <<cur, switches, symbols, named, insn>>

\* align(n, fill): the alignment is raised before an empty fill is rejected.
Align(a, n, emptyFill) ==
  LET S == RaiseAlign(sec[a], cur[a], n)
      pad == Pad(Pos(a), n)
  IN  /\ insn = Idle
      /\ sec' = [sec EXCEPT ![a] =
                   IF emptyFill /\ pad # 0 THEN S ELSE Grow(S, cur[a], pad)]
      /\ Fits(sec'[a])
      /\ UNCHANGED <<order, cur, switches, made, label, labels, symbols,
                     named, slots, bindSeq, insn>>

-----------------------------------------------------------------------------
(* Labels                                                                   *)

\* Label(n, owner=ow), by the user or by `a.pc[i]`.
NewLabel(n, ow) ==
  /\ insn = Idle
  /\ HasFresh
  /\ made' = made \cup {FreshLabel}
  /\ label' = [label EXCEPT ![FreshLabel] =
                 [name |-> n, owner |-> ow, place |-> Unbound, seq |-> 0]]
  /\ UNCHANGED <<sec, order, cur, switches, labels, symbols, named, slots,
                 bindSeq, insn>>

\* named(n) for a name with neither a bound nor a forward label.
ForwardName(a, n) ==
  /\ HasFresh
  /\ symbols[a][n] = NoLabel /\ ~ HasForward(a, n)
  /\ made' = made \cup {FreshLabel}
  /\ label' = [label EXCEPT ![FreshLabel] =
                 [name |-> n, owner |-> a, place |-> Unbound, seq |-> 0]]
  /\ named' = [named EXCEPT ![a] = Append(@, FreshLabel)]

Named(a, n) ==
  /\ insn = Idle
  /\ ForwardName(a, n)
  /\ UNCHANGED <<sec, order, cur, switches, labels, symbols, slots, bindSeq,
                 insn>>

\* Faulty: the owner is not compared, or a label is bound again.
MayBindForeign(a, l) ==
  /\ l \in made /\ ~ IsBound(l)
  /\ label[l].name # NoName => symbols[a][label[l].name] = NoLabel

MayRebind(a, l) ==
  /\ l \in made
  /\ label[l].owner \in {NoAsm, a}
  /\ label[l].name # NoName => symbols[a][label[l].name] = NoLabel

\* The checks of bind that come before the forward references.
MayBind(a, l) ==
  /\ l \in made /\ ~ IsBound(l)
  /\ label[l].owner \in {NoAsm, a}
  /\ label[l].name # NoName => symbols[a][label[l].name] = NoLabel

Bind(a, l) ==
  LET n == label[l].name IN
  /\ insn = Idle
  /\ MayBind(a, l)
  /\ IF n = NoName
     THEN UNCHANGED <<symbols, named>>
     ELSE /\ symbols' = [symbols EXCEPT ![a][n] = l]
          /\ IF HasForward(a, n)
             THEN /\ Forward(a, n) = l
                  /\ named' = [named EXCEPT ![a] = PopForward(a, n)]
             ELSE UNCHANGED named
  /\ PlaceLabel(a, l, n, label[l].owner, cur[a], Pos(a))
  /\ UNCHANGED <<sec, order, cur, switches, made, slots, insn>>

\* bind rejects a label whose name another Label object already has as a
\* forward reference; that one is popped and put back, now the youngest.
BindRejected(a, l) ==
  LET n == label[l].name IN
  /\ insn = Idle
  /\ MayBind(a, l)
  /\ n # NoName /\ HasForward(a, n) /\ Forward(a, n) # l
  /\ named' = [named EXCEPT ![a] =
                 Append(PopForward(a, n), Forward(a, n))]
  /\ UNCHANGED <<sec, order, cur, switches, made, label, labels, symbols,
                 slots, bindSeq, insn>>

\* label() and label("n") for a name seen for the first time: a new label,
\* bound at once.
LabelHere(a, n) ==
  /\ insn = Idle
  /\ HasFresh
  /\ IF n = NoName
     THEN UNCHANGED symbols
     ELSE /\ symbols[a][n] = NoLabel /\ ~ HasForward(a, n)
          /\ symbols' = [symbols EXCEPT ![a][n] = FreshLabel]
  /\ made' = made \cup {FreshLabel}
  /\ PlaceLabel(a, FreshLabel, n, a, cur[a], Pos(a))
  /\ UNCHANGED <<sec, order, cur, switches, named, slots, insn>>

-----------------------------------------------------------------------------
(* Data directives.  _data emits its values one after the other and what    *)
(* was emitted before a rejected one stays, so a directive of several       *)
(* values is a sequence of these steps, and of Named steps for the strings. *)

DataInt(a, n) == n \in DataSizes /\ Emit(a, n)

DataRef(a, n, t) == EmitPatch(a, AbsBySize(n), t)

-----------------------------------------------------------------------------
(* One instruction.  The encoder first parses its operands (which creates   *)
(* forward names) and may fail; only then does it emit, and cannot fail any *)
(* more.                                                                    *)

InsnBegin(a) ==
  /\ insn = Idle
  /\ Len(sec[a][cur[a]].insns) < MaxInsns
  /\ insn' = [op |-> "parse", asm |-> a, start |-> Pos(a),
              before |-> Len(named[a]), saved |-> named[a]]
  /\ UNCHANGED <<sec, order, cur, switches, made, label, labels, symbols,
                 named, slots, bindSeq>>

\* A string operand of the instruction.
InsnName(n) ==
  /\ insn.op = "parse"
  /\ ForwardName(insn.asm, n)
  /\ UNCHANGED <<sec, order, cur, switches, labels, symbols, slots, bindSeq,
                 insn>>

InsnRejectKeepsNames ==  \* faulty: the forward names of the operands stay
  /\ insn.op = "parse"
  /\ insn' = Idle
  /\ UNCHANGED <<sec, order, cur, switches, made, label, labels, symbols,
                 named, slots, bindSeq>>

\* The encoder raises: the names beyond the first `before` are forgotten.
InsnReject ==
  LET a == insn.asm IN
  /\ insn.op = "parse"
  /\ named' = [named EXCEPT ![a] = SubSeq(@, 1, insn.before)]
  /\ insn' = Idle
  /\ UNCHANGED <<sec, order, cur, switches, made, label, labels, symbols,
                 slots, bindSeq>>

InsnBytesEarly(n, how) ==  \* faulty: emits while operands may still be rejected
  /\ insn.op = "parse"
  /\ sec' = [sec EXCEPT ![insn.asm] = Grow(@, cur[insn.asm], n)]
  /\ Fits(sec'[insn.asm])
  /\ UNCHANGED <<order, cur, switches, made, label, labels, symbols, named,
                 slots, bindSeq, insn>>

\* x64 emits several pieces ("flush"), the others all their words at once.
\* An assembler takes instructions of any architecture.
InsnBytes(n, how) ==
  /\ insn.op = "parse" \/ (insn.op = "flush" /\ how = "flush")
  /\ sec' = [sec EXCEPT ![insn.asm] = Grow(@, cur[insn.asm], n)]
  /\ Fits(sec'[insn.asm])
  /\ insn' = [insn EXCEPT !.op = how]
  /\ UNCHANGED <<order, cur, switches, made, label, labels, symbols, named,
                 slots, bindSeq>>

\* x64: the field is emitted between the bytes before and after it.
InsnField(k, t) ==
  /\ insn.op = "flush"
  /\ AddPatchTo(insn.asm, Reserved(insn.asm, k), Pos(insn.asm), k, t)
  /\ UNCHANGED <<cur, switches, symbols, named, insn>>

\* The others record one patch over the words they emitted.
InsnOverlay(k, t) ==
  /\ insn.op = "words"
  /\ AddPatchTo(insn.asm, sec[insn.asm], insn.start, k, t)
  /\ insn' = [insn EXCEPT !.op = "patched"]
  /\ UNCHANGED <<cur, switches, symbols, named>>

InsnDoneFromZero ==  \* faulty: the span starts with the section
  LET a == insn.asm IN
  /\ insn.op \in {"flush", "words", "patched"}
  /\ sec' = [sec EXCEPT ![a][cur[a]].insns =
               Append(@, [first |-> 0, end |-> Pos(a)])]
  /\ insn' = Idle
  /\ UNCHANGED <<order, cur, switches, made, label, labels, symbols, named,
                 slots, bindSeq>>

\* note_insn ends the encoding.
InsnDone ==
  LET a == insn.asm IN
  /\ insn.op \in {"flush", "words", "patched"}
  /\ sec' = [sec EXCEPT ![a][cur[a]].insns =
               Append(@, [first |-> insn.start, end |-> Pos(a)])]
  /\ insn' = Idle
  /\ UNCHANGED <<order, cur, switches, made, label, labels, symbols, named,
                 slots, bindSeq>>

-----------------------------------------------------------------------------
SectionStep(a) ==
  \/ \E s \in UserSections, al \in Aligns \cup {0}, w \in WritableArgs,
        nested \in BOOLEAN :
       SwitchSection(a, s, al, w, nested)
  \/ ExitSection(a)

PatchStep(a) ==
  \/ \E n \in 1 .. MaxSize : Emit(a, n)
  \/ \E off \in 0 .. MaxSize, k \in Kinds, t \in Targets : AddPatch(a, off, k, t)
  \/ \E k \in Kinds, t \in Targets : EmitPatch(a, k, t)
  \/ \E k \in Kinds, l \in LabelIds : EmitPatchRejected(a, k, l)
  \/ \E e \in Externs : ExternSlot(a, e)
  \/ \E n \in Aligns, emptyFill \in BOOLEAN : Align(a, n, emptyFill)
  \/ \E n \in DataSizes : DataInt(a, n)
  \/ \E n \in DataSizes, t \in Targets : DataRef(a, n, t)

LabelStep(a) ==
  \/ \E n \in Names : Named(a, n)
  \/ \E l \in LabelIds : Bind(a, l)
  \/ \E l \in LabelIds : BindRejected(a, l)
  \/ \E n \in Names \cup {NoName} : LabelHere(a, n)

InsnStep ==
  \/ \E a \in Asms : InsnBegin(a)
  \/ \E n \in Names : InsnName(n)
  \/ InsnReject
  \/ \E n \in 1 .. MaxSize, how \in {"flush", "words"} : InsnBytes(n, how)
  \/ \E k \in Kinds, t \in Targets : InsnField(k, t)
  \/ \E k \in Kinds, t \in Targets : InsnOverlay(k, t)
  \/ InsnDone

Next ==
  \/ \E a \in Asms : SectionStep(a) \/ PatchStep(a) \/ LabelStep(a)
  \/ \E n \in Names \cup {NoName}, ow \in Asms \cup {NoAsm} : NewLabel(n, ow)
  \/ InsnStep

Spec == Init /\ [][Next]_vars

-----------------------------------------------------------------------------
(* Correctness                                                              *)

\* Every variable has its type; in particular every place is a place of an
\* assembler and every recorded patch has a field kind.
TypeOK ==
  /\ sec \in [Asms -> [SectionNames -> Section]]
  /\ order \in [Asms -> Seq(SectionNames)]
  /\ cur \in [Asms -> SectionNames]
  /\ switches \in [Asms -> Seq(SectionNames)]
  /\ made \subseteq LabelIds
  /\ label \in [LabelIds -> LabelState]
  /\ labels \in [Asms -> Seq(LabelIds)]
  /\ symbols \in [Asms -> [Names -> LabelIds \cup {NoLabel}]]
  /\ named \in [Asms -> Seq(LabelIds)]
  /\ slots \in [Asms -> [ExtNames -> LabelIds \cup {NoLabel}]]
  /\ bindSeq \in Nat
  /\ insn \in Frame \cup {Idle}

\* While an instruction is parsed nothing is emitted and the names known
\* before it stay the oldest ones, in their order: what truncating the
\* forward names to their former number relies on.
EncodingOK ==
  insn # Idle =>
    LET a == insn.asm IN
    /\ insn.before = Len(insn.saved)
    /\ insn.op = "parse" =>
         /\ insn.start = Pos(a)
         /\ insn.before <= Len(named[a])
         /\ SubSeq(named[a], 1, insn.before) = insn.saved
    /\ insn.start <= Pos(a)

\* A name means one label of an assembler: the forward references are unbound
\* labels of this assembler with distinct names none of which is a symbol,
\* and a symbol is the one label bound here under that name.  It holds
\* although users bind Label objects of their own, hand labels to another
\* assembler and have instructions rejected half way.
NamesConsistent ==
  \A a \in Asms :
    /\ \A i \in DOMAIN named[a] :
         LET f == label[named[a][i]] IN
         /\ named[a][i] \in made
         /\ f.place = Unbound /\ f.owner = a /\ f.name # NoName
         /\ symbols[a][f.name] = NoLabel
         /\ \A j \in DOMAIN named[a] : label[named[a][j]].name = f.name => i = j
    /\ \A n \in Names : symbols[a][n] # NoLabel =>
         /\ label[symbols[a][n]].name = n
         /\ label[symbols[a][n]].place.asm = a
    /\ \A l \in LabelIds :
         label[l].place.asm = a /\ label[l].name # NoName
           => symbols[a][label[l].name] = l

\* A bound label points into a section that exists, not past its end, of an
\* assembler that may bind it; `labels` lists exactly the bound labels.
LabelsInPlace ==
  /\ \A l \in LabelIds : IsBound(l) =>
       LET p == label[l].place IN
       /\ l \in made
       /\ label[l].owner \in {NoAsm, p.asm}
       /\ Created(p.asm, p.sec)
       /\ p.off <= sec[p.asm][p.sec].size
  /\ \A a \in Asms, l \in LabelIds :
       l \in ToSet(labels[a]) <=> label[l].place.asm = a

\* The bind sequence numbers order all labels of all assemblers, and in one
\* section a later label never lies before an earlier one: what Image.address
\* relies on to tell a label bound at the end before linking from one bound
\* there after.
BindOrder ==
  /\ \A l \in LabelIds : IsBound(l) => label[l].seq \in 1 .. bindSeq
  /\ \A l, m \in LabelIds : IsBound(l) /\ IsBound(m) /\ l # m =>
       LET p == label[l].place
           q == label[m].place
       IN  /\ label[l].seq # label[m].seq
           /\ p.asm = q.asm /\ p.sec = q.sec /\ label[l].seq < label[m].seq
                => p.off <= q.off

\* Every recorded patch lies over emitted bytes and is not a slot kind.
PatchesInside ==
  \A a \in Asms, s \in SectionNames :
    \A i \in DOMAIN sec[a][s].patches :
      LET p == sec[a][s].patches[i] IN
      /\ p.off + p.kind.size <= sec[a][s].size
      /\ ~ p.kind.slot

\* The pointer slot of an extern name is an aligned, fully emitted cell of
\* the externs section that a patch fills with the address of an Extern of
\* that name; distinct names have distinct cells.
SlotsWellFormed ==
  \A a \in Asms, e \in ExtNames : slots[a][e] # NoLabel =>
    LET p == label[slots[a][e]].place IN
    /\ p.asm = a /\ p.sec = "externs"
    /\ sec[a]["externs"].align % SlotSize = 0
    /\ p.off % SlotSize = 0
    /\ p.off + SlotSize <= sec[a]["externs"].size
    /\ \E i \in DOMAIN sec[a]["externs"].patches :
         LET x == sec[a]["externs"].patches[i] IN
         /\ x.off = p.off /\ x.kind = ABS64
         /\ x.target \in Externs /\ ExtName[x.target] = e
    /\ \A f \in ExtNames : slots[a][f] # NoLabel /\ f # e
         => label[slots[a][f]].place.off # p.off

\* The instructions noted in a section are disjoint, in order and emitted,
\* and outside the externs section no label points into the middle of one.
InsnsApart ==
  \A a \in Asms, s \in SectionNames :
    LET I == sec[a][s].insns IN
    \A i \in DOMAIN I :
      /\ I[i].first < I[i].end /\ I[i].end <= sec[a][s].size
      /\ i + 1 \in DOMAIN I => I[i].end <= I[i + 1].first
      /\ \A l \in LabelIds :
           label[l].place.asm = a /\ label[l].place.sec = s /\ s # "externs"
             => ~ (I[i].first < label[l].place.off /\ label[l].place.off < I[i].end)

\* "Record that the bytes from `start` to pos form one instruction": no
\* pointer slot, which is data, lies among the bytes of an instruction.
InsnBytesAreOneInsn ==
  \A a \in Asms, e \in ExtNames : slots[a][e] # NoLabel =>
    LET I == sec[a]["externs"].insns
        off == label[slots[a][e]].place.off
    IN  \A i \in DOMAIN I : ~ (I[i].first <= off /\ off < I[i].end)

\* Emitted bytes and recorded patches never go away: not by a rejected call,
\* not by a later one.
SectionsOnlyGrow ==
  [][\A a \in Asms, s \in SectionNames :
       /\ sec[a][s].size <= sec'[a][s].size
       /\ IsPrefix(sec[a][s].patches, sec'[a][s].patches)
       /\ Created(a, s) => sec[a][s].align <= sec'[a][s].align]_vars

\* "Labels are bound once": a bound label keeps its place and its number.
BoundForever ==
  [][\A l \in LabelIds : IsBound(l) => label'[l] = label[l]]_vars

\* "A rejected instruction leaves no forward reference behind" and emits
\* nothing: the forward names are those from before it, and the section is
\* as long as it was.
RejectedInsnLeavesNoTrace ==
  [][insn.op = "parse" /\ insn'.op = "idle" =>
       /\ named'[insn.asm] = insn.saved
       /\ sec'[insn.asm][cur'[insn.asm]].size = insn.start]_vars
=============================================================================
