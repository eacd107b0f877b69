------------------------------ MODULE Listing -------------------------------
(***************************************************************************)
(* The listing of a section (jita/tools/listing.py): its bytes cut into      *)
(* rows at the labels, the instructions and the patched fields, with or      *)
(* without an image, which may have been made before the section grew.       *)
(* Wording is left out: a row is its address, its bytes and what it names.   *)
(***************************************************************************)
EXTENDS Integers, Sequences, SequencesExt, FiniteSetsExt

CONSTANTS
  Width,       \* bytes to a row
  MaxBytes,    \* bound on the size of the section
  MaxInsns, MaxLabels, MaxPatches,   \* bounds on what is in it
  PatchSizes,  \* of patched fields
  ImageStart,  \* where an image places the section
  NoImage,
  Unlisted     \* the value of rows before listing

ASSUME ListingAssumption ==
  /\ Width \in Nat \ {0} /\ ImageStart \in Nat
  /\ {MaxBytes, MaxInsns, MaxLabels, MaxPatches} \subseteq Nat
  /\ PatchSizes \subseteq Nat \ {0}

VARIABLES
  listed,   \* the section: size, labels' offsets, spans of insns, patched fields
  image,    \* NoImage, or the image: the size of the section when it was made and
            \* the bytes after it
  lines     \* the listing of the section

listingVars == <<listed, image, lines>>

\* Byte k of a section is told from any other byte.
Byte(section, k) == <<section, k>>
Buffer == [k \in 1 .. listed.size |-> Byte("listed", k - 1)]

\* The image may go on with another section.
ImageData ==
  [k \in 1 .. ImageStart + image.size + image.after |->
     IF k <= ImageStart THEN Byte("before", k)
     ELSE IF k <= ImageStart + image.size THEN Byte("listed", k - 1 - ImageStart)
     ELSE Byte("after", k)]

-----------------------------------------------------------------------------
(* listing()                                                                *)

Start == IF image = NoImage THEN 0 ELSE ImageStart
Least(m, n) == IF m < n THEN m ELSE n

\* With an image, as many of its bytes as the section now has, or fewer at
\* the end of the image.
Data ==
  IF image = NoImage THEN Buffer
  ELSE SubSeq(ImageData, ImageStart + 1, Least(Len(ImageData), ImageStart + listed.size))

WithinInsns == UNION {(i.first + 1) .. (i.end - 1) : i \in listed.insns}

\* Where rows may begin, of n bytes.
\* Faulty: patched fields are no boundaries.
CutsWithoutPatches(n) ==
  {0, n} \cup listed.labels \cup {i.first : i \in listed.insns} \cup {i.end : i \in listed.insns}
Cuts(n) ==
  {0, n} \cup listed.labels \cup {i.first : i \in listed.insns} \cup {i.end : i \in listed.insns}
  \cup {p.off : p \in listed.patches} \cup {p.off + p.size : p \in listed.patches}

\* The numbers of S in order.
Sorted(S) ==
  [k \in 1 .. Cardinality(S) |-> CHOOSE c \in S : Cardinality({d \in S : d < c}) = k - 1]
Bounds(n) == Sorted({c \in Cuts(n) \ WithinInsns : c <= n})

LabelLine(off) == [kind |-> "label", address |-> Start + off]

\* The rows of lo .. hi, Width bytes each: of an instruction the first names
\* it and the patches within it, of data each names those at its start.
Rows(data, lo, hi) ==
  LET insn == \E i \in listed.insns : i.first = lo /\ i.end = hi
      at(k) == lo + Width * (k - 1)
      notes(k) == {p \in listed.patches :
                     IF insn THEN k = 1 /\ p.off \in lo .. hi - 1 ELSE p.off = at(k)}
  IN  [k \in 1 .. (hi - lo + Width - 1) \div Width |->
         [kind |-> "row", address |-> Start + at(k),
          bytes |-> SubSeq(data, at(k) + 1, Least(at(k) + Width, hi)),
          insn |-> insn /\ k = 1, notes |-> notes(k)]]

\* Each boundary: its label, and the rows up to the next one.
Chunk(data, bounds, k) ==
  (IF bounds[k] \in listed.labels THEN <<LabelLine(bounds[k])>> ELSE <<>>)
  \o (IF k = Len(bounds) THEN <<>> ELSE Rows(data, bounds[k], bounds[k + 1]))
Listing(data) ==
  LET bounds == Bounds(Len(data))
  IN  FlattenSeq([k \in DOMAIN bounds |-> Chunk(data, bounds, k)])

MakeListing ==
  /\ lines = Unlisted
  /\ lines' = Listing(Data)
  /\ UNCHANGED <<listed, image>>

-----------------------------------------------------------------------------
(* Sections an assembler can hold: instructions apart, labels not inside     *)
(* one, patched fields within the section and otherwise anywhere             *)

Stretches(n) == {s \in [first : 0 .. n, end : 0 .. n] : s.first < s.end}
ListingChosen ==
  \E n \in 0 .. MaxBytes :
    /\ listed \in [size : {n},
                   insns : UNION {kSubset(k, Stretches(n)) : k \in 0 .. MaxInsns},
                   labels : UNION {kSubset(k, 0 .. n) : k \in 0 .. MaxLabels},
                   patches : {ps \in UNION {kSubset(k, [off : 0 .. n, size : PatchSizes]) : k \in 0 .. MaxPatches} :
                                \A p \in ps : p.off + p.size <= n}]
    /\ \A i, j \in listed.insns : i # j => i.end <= j.first \/ j.end <= i.first
    /\ \A i \in listed.insns : \A l \in listed.labels : l <= i.first \/ i.end <= l
    /\ image \in {NoImage} \cup [size : 0 .. n, after : {0, MaxBytes}]
ListingInit == ListingChosen /\ lines = Unlisted
ListingSpec == ListingInit /\ [][MakeListing]_listingVars

-----------------------------------------------------------------------------
(* Correctness                                                              *)

Fresh == image # NoImage => image.size = listed.size
Count(P) == Cardinality(P)

\* The lines that are rows, and the bytes each shows: from its address on.
RowLines == {j \in DOMAIN lines : lines[j].kind = "row"}
First(j) == lines[j].address - Start
Behind(j) == First(j) + Len(lines[j].bytes)

\* A listing loses nothing and invents nothing: its rows are the bytes of the
\* section, each once, in order and at its address.  With an image made before
\* the section grew, what is shown at an address where the section then was is
\* still its byte.
BytesShown ==
  lines # Unlisted =>
    /\ \A j \in RowLines :
         /\ First(j) < Behind(j) /\ Behind(j) <= First(j) + Width /\ Behind(j) <= listed.size
         /\ \A k \in DOMAIN lines[j].bytes :
              First(j) + k - 1 < (IF image = NoImage THEN listed.size ELSE image.size)
                => lines[j].bytes[k] = Byte("listed", First(j) + k - 1)
    /\ \A i, j \in RowLines : i < j => Behind(i) <= First(j)
    /\ Fresh => \A off \in 0 .. listed.size - 1 :
                  \E j \in RowLines : First(j) <= off /\ off < Behind(j)

\* Every instruction starts a row that names it and shares none with other
\* bytes, although patched fields end inside instructions.
InsnsShown ==
  lines # Unlisted /\ Fresh =>
    \A i \in listed.insns :
      /\ \E j \in RowLines : lines[j].insn /\ First(j) = i.first
      /\ \A j \in RowLines :
           Behind(j) <= i.first \/ i.end <= First(j) \/ (i.first <= First(j) /\ Behind(j) <= i.end)

\* Every label stands once, before the row at its offset.
LabelsShown ==
  lines # Unlisted =>
    /\ Fresh => \A l \in listed.labels :
                  Count({j \in DOMAIN lines : lines[j] = LabelLine(l)}) = 1
    /\ \A j \in DOMAIN lines :
         lines[j].kind = "label" /\ j < Len(lines) => lines[j + 1].address = lines[j].address

\* Every patch is noted once, at its instruction or at its field, although
\* fields may overlap each other and the ends of instructions.
PatchesShown ==
  lines # Unlisted /\ Fresh =>
    \A p \in listed.patches :
      LET noted == {j \in RowLines : p \in lines[j].notes} IN
      /\ Count(noted) = 1
      /\ \A j \in noted : lines[j].insn \/ First(j) = p.off

\* A listing shows the bytes, the instructions, the labels and the patches.
ListingShows == BytesShown /\ InsnsShown /\ LabelsShown /\ PatchesShown
=============================================================================
