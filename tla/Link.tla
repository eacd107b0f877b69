-------------------------------- MODULE Link --------------------------------
(***************************************************************************)
(* Linking: the layout of the sections, the resolution of the patches and   *)
(* the Image that answers for addresses (jita/core/link.py), over the       *)
(* assemblers of Assembler, which go on changing after an image was made.   *)
(*                                                                          *)
(* An image keeps of its bytes only where each patched field lies and which *)
(* address was written there; whether a field can hold that address is the  *)
(* patch kind's business.  A link that fails changes nothing.               *)
(***************************************************************************)
EXTENDS Assembler

CONSTANTS
  PageSize,
  Bases,       \* base addresses asked for
  OwnAddress,  \* [extern] -> the address it was created with, or NoAddress
  Givens,      \* the `externs` mappings passed to link: extern names -> Nat
  MaxImages,   \* bound on the images of a behaviour
  NoAddress, Failed

ASSUME LinkAssumption ==
  /\ PageSize \in Nat \ {0}
  /\ Bases \subseteq Nat
  /\ NoAddress \notin Nat /\ Failed \notin Nat
  /\ OwnAddress \in [Externs -> Nat \cup {NoAddress}]
  /\ \A g \in Givens : DOMAIN g \subseteq ExtNames /\ \A e \in DOMAIN g : g[e] \in Nat
  /\ MaxImages \in Nat

VARIABLE images  \* the images made so far, of all assemblers

linkVars == <<vars, images>>

-----------------------------------------------------------------------------
(* Layout                                                                   *)

\* f[x] = y of a dict.
Put(f, x, y) == [z \in DOMAIN f \cup {x} |-> IF z = x THEN y ELSE f[z]]

\* Faulty: an empty section is given no offset.
PlaceNonEmpty(a, l, w) ==
  LET step(acc, s) ==
        IF sec[a][s].writable # w \/ sec[a][s].size = 0 THEN acc
        ELSE LET at == acc.pos + Pad(acc.pos, sec[a][s].align)
             IN  [pos |-> at + sec[a][s].size, offsets |-> Put(acc.offsets, s, at)]
  IN  FoldLeft(step, l, order[a])

\* The sections of a that are writable iff w, one after the other from l.pos.
PlaceSections(a, l, w) ==
  LET step(acc, s) ==
        IF sec[a][s].writable # w THEN acc
        ELSE LET at == acc.pos + Pad(acc.pos, sec[a][s].align)
             IN  [pos |-> at + sec[a][s].size, offsets |-> Put(acc.offsets, s, at)]
  IN  FoldLeft(step, l, order[a])

\* Faulty: the writable sections follow the others at once.
RoundNot(pos) == pos
RoundUp(pos) == pos + Pad(pos, PageSize)

Layout(a) ==
  LET ro == PlaceSections(a, [pos |-> 0, offsets |-> <<>>], FALSE)
      execSize == RoundUp(ro.pos)
      rw == PlaceSections(a, [ro EXCEPT !.pos = execSize], TRUE)
      any == \E s \in ToSet(order[a]) : sec[a][s].writable
  IN  [offsets |-> rw.offsets, size |-> IF any THEN rw.pos ELSE ro.pos,
       execSize |-> execSize]

MaxAlign(a) == Max({sec[a][s].align : s \in ToSet(order[a])})

-----------------------------------------------------------------------------
(* Patches                                                                  *)

\* The mapping passed to link wins over the address of the Extern itself.
\* Faulty: the other way round.
OwnAddressFirst(given, e) ==
  IF OwnAddress[e] # NoAddress THEN OwnAddress[e]
  ELSE IF ExtName[e] \in DOMAIN given THEN given[ExtName[e]] ELSE NoAddress
ExternAddress(given, e) ==
  IF ExtName[e] \in DOMAIN given THEN given[ExtName[e]] ELSE OwnAddress[e]

Resolves(a, given, t) ==
  IF t \in Externs THEN ExternAddress(given, t) # NoAddress
  ELSE IsBound(t) /\ label[t].place.asm = a

\* Faulty: the offset of the target's section is forgotten.
TargetInSection(base, offsets, given, t) ==
  IF t \in Externs THEN ExternAddress(given, t) ELSE base + label[t].place.off

TargetAddress(base, offsets, given, t) ==
  IF t \in Externs THEN ExternAddress(given, t)
  ELSE base + offsets[label[t].place.sec] + label[t].place.off

Fields(a, base, offsets, given) ==
  [s \in ToSet(order[a]) |->
     [i \in DOMAIN sec[a][s].patches |->
        LET p == sec[a][s].patches[i]
        IN  [at |-> offsets[s] + p.off, size |-> p.kind.size, target |-> p.target,
             value |-> TargetAddress(base, offsets, given, p.target)]]]

\* Named labels, as offsets from the base.
Symbols(a, offsets) ==
  LET mine == {l \in ToSet(labels[a]) : label[l].name # NoName}
  IN  [n \in {label[l].name : l \in mine} |->
         LET p == label[CHOOSE l \in mine : label[l].name = n].place
         IN  offsets[p.sec] + p.off]

-----------------------------------------------------------------------------
(* link and Image.address                                                   *)

LinkInit == Init /\ images = <<>>

\* a.link(base, given)
Link(a, base, given) ==
  LET L == Layout(a) IN
  /\ insn = Idle
  /\ Len(images) < MaxImages
  /\ base % MaxAlign(a) = 0
  /\ \A s \in ToSet(order[a]) : \A i \in DOMAIN sec[a][s].patches :
       Resolves(a, given, sec[a][s].patches[i].target)
  /\ images' = Append(images,
       [asm |-> a, base |-> base, offsets |-> L.offsets, size |-> L.size,
        execSize |-> L.execSize, given |-> given,
        sizes |-> [s \in ToSet(order[a]) |-> sec[a][s].size],
        fields |-> Fields(a, base, L.offsets, given),
        symbols |-> Symbols(a, L.offsets),
        bindSeq |-> bindSeq + 1])
  /\ bindSeq' = bindSeq + 1
  /\ UNCHANGED <<sec, order, cur, switches, made, label, labels, symbols, named,
                 slots, insn>>

\* The checks of Image.address(l); the faulty ones leave out a comparison.
KnowsWithoutSeq(img, l) ==
  LET p == label[l].place IN
  /\ IsBound(l)
  /\ p.sec \in DOMAIN img.sizes
  /\ p.asm = img.asm
  /\ p.off <= img.sizes[p.sec]

KnowsByName(img, l) ==
  LET p == label[l].place IN
  /\ IsBound(l)
  /\ p.sec \in DOMAIN img.sizes
  /\ p.off <= img.sizes[p.sec] /\ label[l].seq <= img.bindSeq

Knows(img, l) ==
  LET p == label[l].place IN
  /\ IsBound(l)
  /\ p.sec \in DOMAIN img.sizes
  /\ p.asm = img.asm
  /\ p.off <= img.sizes[p.sec] /\ label[l].seq <= img.bindSeq

Address(img, l) ==
  IF Knows(img, l)
  THEN img.base + img.offsets[label[l].place.sec] + label[l].place.off
  ELSE Failed

AddressOfName(img, n) ==
  IF n \in DOMAIN img.symbols THEN img.base + img.symbols[n] ELSE Failed

Assemble == Next /\ UNCHANGED images

LinkNext ==
  \/ Assemble
  \/ \E a \in Asms, base \in Bases, given \in Givens : Link(a, base, given)

LinkSpec == LinkInit /\ [][LinkNext]_linkVars

-----------------------------------------------------------------------------
(* Correctness                                                              *)

\* An image has the sections its assembler had, each with an offset and a
\* size, and the value of the bind counter it took.
LinkTypeOK ==
  /\ TypeOK
  /\ \A i \in DOMAIN images :
       LET img == images[i] IN
       /\ img.asm \in Asms /\ img.base \in Bases /\ img.given \in Givens
       /\ DOMAIN img.sizes \subseteq SectionNames
       /\ DOMAIN img.offsets = DOMAIN img.sizes
       /\ \A s \in DOMAIN img.sizes : img.sizes[s] \in Nat /\ img.offsets[s] \in Nat
       /\ img.bindSeq \in 1 .. bindSeq

\* Whatever the sections of an assembler are, the layout places every one of
\* them, aligned, after the end of those before it; the read-only ones end
\* within the executable prefix, which is whole pages, and the writable ones
\* start after it: no page holds bytes of both.
LayoutOK ==
  \A a \in Asms :
    LET L == Layout(a)
        all == ToSet(order[a])
        end(s) == L.offsets[s] + sec[a][s].size
    IN  /\ DOMAIN L.offsets = all
        /\ L.execSize % PageSize = 0
        /\ \A s \in all :
             /\ L.offsets[s] % sec[a][s].align = 0
             /\ end(s) <= L.size
             /\ IF sec[a][s].writable THEN L.offsets[s] >= L.execSize
                ELSE end(s) <= L.execSize
        /\ \A s, t \in all :
             s # t => end(s) <= L.offsets[t] \/ end(t) <= L.offsets[s]

\* An image answers for a label exactly as ImageSpec promises, although it
\* keeps no label but recomputes the answer from the label's present place,
\* the bind order and the sizes it remembers.
Answers == INSTANCE ImageSpec WITH
  Nowhere <- Unbound,
  places <- [l \in LabelIds |-> label[l].place],
  answers <- [i \in DOMAIN images |-> [l \in LabelIds |-> Address(images[i], l)]]

AnswersStayTrue == Answers!Spec

\* Inside an image the addresses agree: a field that refers to a label holds
\* the address the image answers for that label, now and after any later
\* change of the assembler; so does a symbol.
FieldsAgree ==
  \A i \in DOMAIN images :
    LET img == images[i] IN
    /\ \A s \in DOMAIN img.fields : \A j \in DOMAIN img.fields[s] :
         LET f == img.fields[s][j] IN
         /\ f.target \in LabelIds => f.value = Address(img, f.target)
         /\ img.offsets[s] <= f.at
         /\ f.at + f.size <= img.offsets[s] + img.sizes[s]
    /\ \A l \in LabelIds : label[l].name # NoName /\ Knows(img, l)
         => AddressOfName(img, label[l].name) = Address(img, l)
    /\ \A n \in DOMAIN img.symbols : Knows(img, symbols[img.asm][n])

\* Whatever Extern objects share a name, an image uses one address for the
\* name in every reference through its slot: the mapped one if there is one,
\* else that of the Extern that made the slot; and a slot reference leads to
\* a cell that holds it.
SlotReferences ==
  \A i \in DOMAIN images :
    LET img == images[i] IN
    \A s \in DOMAIN img.fields : \A j \in DOMAIN img.fields[s] :
      LET f == img.fields[s][j] IN
      \A e \in ExtNames : f.target \in LabelIds /\ f.target = slots[img.asm][e] =>
        \E c \in DOMAIN img.fields["externs"] :
          LET x == img.fields["externs"][c] IN
          /\ img.base + x.at = f.value
          /\ x.size = SlotSize
          /\ x.target \in Externs /\ ExtName[x.target] = e
          /\ e \in DOMAIN img.given => x.value = img.given[e]
=============================================================================
