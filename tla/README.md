# A TLA+ verification of jita

jita (`src/jita`) assembles machine code from Python at run time: an
`Assembler` collects sections of bytes, labels and patches; encoders for x64,
aarch64, riscv64 and loongarch64 write instructions into it; `link` lays the
sections out at an address and writes the addresses into the patched fields;
`load` puts the image into executable memory and hands out functions and
builtins; a C header importer gives names and types to call and be called with.

Everything here is safety. The library is synchronous: every operation is a
call that returns, nothing is scheduled, retried or waited for, so there is
nothing that must eventually happen without somebody calling it, and no
specification states fairness. Collection of unreferenced objects is an action
that may happen at any time or never, which is what Python promises.

## 1. Inventory

| component | source | state | operations |
| --- | --- | --- | --- |
| Assembler core | `core/assembler.py`, `labels.py`, `section.py`, `patch.py` | sections (bytes, alignment, protection, patches, instruction spans), current section, labels and symbols, forward names, extern slots, global bind counter | `section`, `emit`, `add_patch`, `emit_patch`, `extern_slot`, `align`, `named`, `bind`, `label`, data directives, `insn` |
| Current assembler | `core/assembler.py` | context variables `_current`, `_tokens` | `__enter__`, `__exit__` |
| Patch kinds | `core/patch.py`, `*/patch.py` | none | `apply` |
| Linker, Image | `core/link.py` | an `Image`: bytes, offsets, sizes, symbols, a bind number | `layout`, `link`, `Image.address` |
| Executable memory | `runtime/memory.py` | a mapping, its executable prefix, a finalizer | `ExecMemory()`, `write`, `protect_exec`, `close` |
| Loader, Module | `runtime/loader.py` | the module and its memory, functions, builtins, `_method_defs` | `load`, `function`, `builtin`, `write`, `close`, collection |
| x64 encoder and memory operands | `x64/encoder.py`, `x64/mem.py`, `x64/table.py` | per instruction: chosen alternative, pieces, fixups | `encode` and its rejection |
| Fixed width encoders | `aarch64/`, `riscv64/`, `loongarch64/`: `encoder.py`, `table.py`, `mem.py`, `regs.py` | the same; the tables are constants, operands immutable values | `encode` and its rejection, aliases, the constants of `li` and logical immediates |
| Stubs, x64 registers | `*/insns.py`, `x64/regs.py` | none | one call each, names |
| Structures | `core/structs.py`, `*/structs.py` | none: a view is a value | fields and elements of a view, operands, what a refusal proposes |
| Listing | `tools/listing.py` | none | cuts a section, or an image that may be older, into rows |
| C header scan | `cheader/rewrite.py` | open braces, markers that wait for a body, the declaration and its last token | a step for each token |
| C header text | `cheader/rewrite.py`, `parse.py` | the text, and offsets into it: declarations, braces, attributes | recovery from parse errors |
| Packing | `cheader/convert.py` | the stack of `#pragma pack`, the fields of the body being read | pragmas, members, markers, `check_alignment`, `complete` |
| C header conversion | `cheader/convert.py`, `__init__.py` | classes made, completed and failed, enums, typedefs, bound and skipped names | declarations, constant expressions, macros; what `load` exposes |
| C preprocessing | `cheader/preprocess.py`, `prelude.py`, `diagnostic.py` | none of its own | pcpp, the standard types |

How they meet:

- An encoder calls back into the assembler it encodes for: forward names while
  it parses operands, then bytes and fields, then `note_insn`. A field on an
  extern's pointer slot makes the assembler append to the *externs* section,
  which may be the one being written.
- `Label` objects are shared by reference: between the user and an assembler,
  between two assemblers (which then refuse them), between an assembler and
  the images linked from it. The counter that orders binds is global.
- An `Image` keeps weak references to the sections and no label: it recomputes
  what it may answer from labels that go on changing.
- The scan of a header turns attributes into marker fields, recovery moves the
  text they stand in, and the conversion reads them back, each by the offsets
  the one before has left.
- `load` holds memory that nothing else refers to yet until it has a `Module`
  to give it to; functions and builtins refer to the `Module`, and CPython
  refers to a structure in `_method_defs` beyond the life of both.

What is hard in it: calls that fail half way and must leave nothing behind
(an instruction, a reserved field, a load); objects that outlive the state
they were checked against (labels after link, builtins after close); blocks
left out of order and in other contexts; two threads in `builtin`; arithmetic
at the ends of ranges, where a rounding or a sign extension decides whether a
branch lands where it should; an instruction set whose codes mean other things
in combination; a field cut into pieces and put into a word in another order;
an attribute that is read before the brace it belongs to, or after the members
it changes; a converter that goes on after each failure and must not let
anything be used whose parts it never saw. `PROJECT.json` lists each of these at its line
with the properties that would notice it going wrong.

## 2. Modules

```
Assembler ── Link ── (refines) ImageSpec       ExecMemory ── Loader ── MCLoader
    │         │└ MCLink ┬ MCLabels                 └ MCMemory   └ LoaderProofs
    │         │         └ MCImages
    ├ MCAssembler
    └ AssemblerProofs ── SectionProofs ── LinkProofs (of Link)

MCParts ┬ PatchKinds ─┬─ CoreProofs
        ├ Context ────┤
        ├ Immediates ─┘
        ├ CHeader ────┐
        ├ HeaderText ─┼─ HeaderProofs    Words: the lower bits of a number, for
        ├ CConst ─────┘                         Immediates, X64, CConst, InsnWords
        │    └ MCHeader
        └ X64 ── X64Decode ── MCX64
MCPieces ┬ Packing ── MCPacking ─┬─ ScanProofs
         ├ HeaderScan ───────────┘
         ├ InsnWords ┬ Riscv64 ── Riscv64Decode
         │           ├ Loongarch64 ── Loongarch64Decode
         │           └ Aarch64 ── Aarch64Decode
         ├ Structs ── MCStructs          (ScanProofs)
         └ Listing                       (CoreProofs)

DataProofs: what the other proofs need of numbers and sequences; every module
of proofs extends it.
```

**Assembler** models several `Assembler` objects side by side. `sec[a][s]` is
the `Section` object (its buffer as a length), `order[a]` the dict order of
`sections`, `switches` the `with a.section(..)` blocks, `label` every `Label`
object with its owner and place, `labels`/`symbols`/`named`/`slots` the fields
of these names, `bindSeq` the global counter. Every method is one action that
does all the method does, including what a rejected call leaves behind:
`BindRejected` moves a forward name to the end of the dict,
`EmitPatchRejected` takes back the field it reserved, `Align` raises the
alignment before it refuses an empty fill. One instruction is several actions
(`InsnBegin`, `InsnName`, `InsnBytes`, `InsnField` or `InsnOverlay`,
`InsnDone`, `InsnReject`), since the encoder calls the assembler back between
them; `insn` holds what it is in the middle of.

**Link** adds the images to these assemblers, which go on changing. `Layout`,
`TargetAddress`, `Fields` and `Symbols` are `layout` and the loops of `link`;
`Knows`/`Address` are the checks and the sum of `Image.address`. An image
keeps for each patched field where it lies and which address was written.
**ImageSpec** is what linking promises: an image is a snapshot of the labels
its assembler had, and answers for ever as at that moment. The property
`AnswersStayTrue` is the refinement: the abstract answers are what `Address`
computes *now* from labels that have moved on, and TLC checks that each step
of Link is a step of ImageSpec or a stutter.

**Context** models `__enter__` and `__exit__` over `ContextVar` tokens:
a task copies the context it is created in, a token can be reset once and only
in the context that made it, and a block may be left by any code, in any order
and in any context (generators do that). `open`, `inherited` and `leaving` are
history: the code does not keep them, the properties need them.

**ExecMemory** models the mappings over an address space of pages: who owns a
page, whether it is writable, and what each object believes (`execSize`, its
finalizer). A write to a page that is not writable would end the process; the
model records it in `faults`. `Map` takes any free range, the one just freed
included.

**Loader** composes it with `load` (map, link, write, protect, and at every
step a failure), `Module`, functions and builtins as references, drops and the
collector, and the `_method_defs` table of `builtin` with a thread switch
between its `get` and its `setdefault`.

**PatchKinds** models `apply` of every kind as the number it writes or its
refusal. `Meanings` is what a processor makes of such a number, written from
the architecture and not from the code, so `FieldReaches` is not the code
compared with itself. The three `BranchKind`s differ in their unit only.

**Immediates** models the words of riscv64's and loongarch64's `li` and
aarch64's `imm13`; the properties run the words on a small register
(`RegisterAfter`: `StepRiscv` or `StepLoongarch` word by word) and decode the
logical immediate as the architecture does (`MaskOf`). The widths are constants;
`PowersAssumption` (of Words) says of the powers of two up to `Widest` that each is
twice the one before, which is arithmetic the provers do not know and TLC evaluates.
`Widest` is at least every width in use, and for CConst also every shift count.

**X64** encodes: operands get their modes and sizes, `Chosen` is the first
alternative of the template they fit, `Normal` is what `mem.py` makes of a
memory operand, and `WritePattern` writes prefixes, REX or VEX, opcode, ModRM,
SIB, displacement and immediates as a sequence of fields. `Template` is a
selection of the mnemonics of `x64/table.py` that has every form of pattern:
both directions, opcode extensions, registers in the opcode, the accumulator's
own forms, sign extended bytes, two sizes in one instruction, jumps, absolute
`mov`, mandatory prefixes and VEX. **X64Decode** is a decoder written from the opcode maps of the
architecture; it knows nothing of templates. An instruction that is encoded
must decode to its mnemonic, operands and values (`Decodes`), and one is
refused if and only if the architecture has none for it (`RefusedRightly`):
sizes that differ or are unknown, a byte register that REX would make another,
a scaled `rsp`, a value or distance out of range.

**InsnWords** has what the other three encoders share: operands, templates,
the choice of the first alternative that takes the operands, and a word as the
set of its bits that are one, so that `op |= field` is a union. **Riscv64**,
**Loongarch64** and **Aarch64** are the tables (rows that differ in one field
are one row here and a sequence of names), the parsers of the shapes, what each
letter accepts and where it puts its bits, the aliases, and the fields the
patch kinds write once the label's distance is known. The three **Decode**
modules read a word back. They are written from the instruction formats, that
is, from where a format has its registers and the pieces of its immediates, and
do not use a template's shape; only the opcodes of the mnemonics are the same
table read backwards. `RiscvRead`, `LoongRead` and `A64Read` say that a linked
word names the instruction, the operands and the distance that were asked for,
and that what is refused has no word.

**Structs** makes a view and goes down a path of fields and elements as
`typed()` and its `__getitem__`s do on each machine. `denoted` is where C would
have the path lead; `TypedReaches` compares it with the address the operand
comes to for every contents of the registers (`ViewReaches`), and asks of a
refusal that the machine could not have formed the address over the same base
(`RefusedForGood`, with `candidate`), and that the instructions its message
proposes compute it (`HintsReach`). Refusals are judged for displacements of less
than the address space, and an address that has an index keeps it as it is: the
code does not add up two indexes by one register, which x64 could at times.

**Listing** cuts a section into rows at labels, instructions and fields. The
image may have been linked before the section grew; then it has fewer bytes,
or goes on with another section's. `ListingShows` has four parts: a row shows the
bytes of the section at its address as far as the image has them (`BytesShown`),
and, where the image is not older, every byte, label and patch is listed exactly
once (`LabelsShown`, `PatchesShown`) and no row crosses the end of an instruction
(`InsnsShown`).

**HeaderScan** is the scanner, token by token: braces, parentheses, keywords,
words, attributes. The text is chosen as it is scanned, so the properties range
over all texts of the bounds. `scanned` records which brace or declaration an
attribute stands at and what became of it.

**Packing** has the stack of `#pragma pack` as the code keeps it (`packs`) and
as a compiler does (`compiler`), the members of the body being read with the
alignments they ask for, and the markers of the body. `CtypesLayout` is the
layout of the class that is made, `Compiled` the one a compiler gives the text
(compared with gcc on examples). `LoadedAsCompiled` says that they agree unless
one of three exceptions applies, which are listed with the divergences below.

**CHeader** converts declarations in any order. The header is chosen step by
step, as a converter meets it: `stack` holds the bodies that are open, `exc`
the `Unsupported` on its way out of them, `ext` the declaration in progress.
Opening, closing and leaving a body are `aggregate`, `fields` and `complete`;
`DeclarationFailed` is the handler in `run`. What a text says of an enum
(`meant`), which class contains which (`uses`), which fields have another type
than the header gives them (`wrong`) and which functions it declares
(`functions`) is history. The last adds no states: `Explained` asks what became
of each of them, and a function that is neither bound nor skipped when its
declaration has ended would be one it forgot.

**HeaderText** has the text as the lengths of its declarations, so where each
thing really is can be computed and compared with the offsets the code keeps
and moves. **CConst** evaluates integer constant expressions as `_Int`,
`const`, `unary`, `binary` and `cast` do, and states beside it the type and the
value C gives them, none where it is undefined. Widths are constants. So is what
expressions there are: a sequence of levels, each of expressions whose parts are
in lower ones, which is what the recursion over their parts rests on.

**MCParts** and **MCPieces** run modules that share no state with an assembler
side by side: each behaviour is of one of them (`part`, `piece`), the others
stay at their beginning. **MCLabels** and **MCImages** are two instances of
Link each, for different questions about the same module.

### What is abstracted

- The bytes of a section are their number. PatchKinds and Immediates are
  arithmetic of any width; the bits of a word are in the modules of the
  machines, at their real width.
- In Assembler an instruction is what it makes the assembler do; X64 and the
  modules of the machines are the encoding itself. X64 leaves out x87, mixed
  address sizes and segment overrides. Error messages, and which of several
  failed alternatives a message is about, are left out.
- For CHeader a header is its declarations: fields whose type has no effect (an
  int, a bit field) are no step, attributes are the reason of a failure. A
  declaration has one body at its top and any inside. Layout is Packing's,
  which leaves out bit fields: the code refuses them in a packed struct.
- HeaderScan has tokens and no text: a declaration has at most one `=` and, out
  of parentheses, one `struct` or `enum`. HeaderText has lengths and no tokens.
- C constants are integers of two or three widths; floats and strings are
  left out, and so are `sizeof` and the like, which are refused always.
- Names, externs and addresses are model values or small numbers. Alignments
  are powers of two in the code; the model asks only that the smaller of two
  divides the larger.
- A `with a.section(..)` block is left in nested order.

## 3. Runs

| run | what it asks | bounds and why they are enough |
| --- | --- | --- |
| `labels` | names: forward names, binds, rejections, labels handed between assemblers | 2 assemblers, 3 labels, 2 names: two labels of one name, and one more label that another assembler owns |
| | images against ImageSpec | 2 assemblers with the same section names, 2 labels, 1 image: the smallest with a label bound before and one after, in a section that grew, stayed or is new |
| `images` | layout: slots in an *externs* section the user also writes, aligns and leaves, and every layout of three sections | an extern of either name, sections of up to 4 bytes (code and data of 0, 1 or 4), slots of 2: two slots with padding between; nesting 1; alignments 1, 4 and 8 over pages of 4: below, at and above a page |
| | fields: the addresses in fields, slots and symbols agree | sections of 2 bytes, one field of a byte in each, 2 externs of one name, one with an address of its own, with and without a mapping |
| `insns` | x64 and fixed width instructions with names, pieces, fields, slots and rejection; every patch at every offset, both orders of slot and field | 2 instructions, 2 labels, an extern with a slot, one nested switch, sections of 3 bytes, 2 patches: a field at the last byte and one past it |
| `slot_in_insn` | violation, see below | |
| `pieces` | Riscv64, Loongarch64, Aarch64: some 190000 requests, every mnemonic of the tables, read back | for every letter of a shape values on both sides of each of its limits, and patterns of bits in which no two pieces of a field are alike; distances at both ends of every range, on both sides of every rounding; registers of every class with and without 31; each list of operands with one of another kind, one more and one less |
| | Structs: every path on every machine | a struct with an array of structs with an array, paths of 3: an element of a field of an element; registers of 10 bits, which keeps each limit of a displacement apart; among their contents those where one register holds 1 and the others 0, which tell any two addresses apart |
| | Listing | sections of 4 bytes in rows of 2: a row cut short, a span over two rows; up to 2 instructions, a label and 2 fields of 1 or 3 bytes that may overlap; images of each size up to the section's, with and without bytes after |
| | HeaderScan | 2 attributes and 2 braces, 3 of both together, 2 declarations: a nested body, a body after a body, an attribute before, in and after each |
| | Packing | 3 pragmas: two pushes and a pop; 2 members of sizes 1, 4 and 6 aligned to 1, 4 and 2, so that a hole, an end and a type larger than its alignment occur; of pragmas, members and markers four in all: two pushes, a pop and what they apply to |
| `leaked_marker`, `late_packed` | violations, see below | |
| `loader` | loads, failures, references, builtins, re-use of pages | 2 modules over 3 pages, so that the second reuses pages of the first; 2 threads, 2 handles, 2 method structures: two racing builtins |
| `reprotect` | violation, see below | |
| `parts` | Context: blocks of 2 assemblers in a thread and 2 tasks | 4 blocks: two overlapping pairs, or one in each context and one inherited |
| | PatchKinds, Immediates: every kind of patch, every constant, every logical immediate | targets below, in and above the range of each kind around three places (aligned, at a boundary, odd); parts of 3, 3 and 8 bits of a 14 bit register for riscv64, so that the recursion is entered twice; parts 2, 3, 3, 2 for loongarch64; masks of 8 bits, elements of 2, 4 and 8 |
| | X64: some 47000 instructions decode to what was asked for | pairs of registers of every size whose codes the encodings single out, every base with every index, three scales and every length of displacement, values on both sides of every limit; bytes are real, 32 and 64 bits are 20 and 24, which keeps every limit distinct within TLC's integers |
| | CConst: every operator over pairs of numbers of every type, and nested ones | int of 3 bits, long and long long of 4: a wider type and a signed and an unsigned of each; of each type the least number, the greatest and some between; literals on both sides of every limit; operands without a value in both branches |
| | HeaderText: declarations taken out in any order, their text longer or shorter | 3 declarations: one replaced, one before it, one after |
| | CHeader: declarations in any order, every failure | one tag, one enum, two typedefs, one function, bodies in bodies to depth 2: enough for a class in its own body, a typedef of a typedef, and a failure that passes through two bodies |
| `lost_enum`, `stale_braces` | violations, see below | |

Deadlock is checked where a behaviour can always go on; `loader` and `parts`
really end (their modules, blocks, values and declarations are bounded), and so
do `pieces` and the three runs of a header's text. Symmetry is used, in
`labels`, `parts`, `loader` and `reprotect`, only over sets whose elements are never told apart: assemblers
and names, typedef names, memories, threads, handles and method structures. Labels are not
symmetric, a fresh one is chosen by `CHOOSE`.

### What the code does differently from what it says

- **`slot_in_insn`**: `note_insn` says its bytes "form one instruction". When
  the current section is *externs* and the instruction refers to the slot of an
  extern that has none yet, the slot is appended between the reserved field and
  the rest, inside the instruction.
- **`reprotect`**: `protect_exec` says "The rest of the mapping stays
  read-write". A second call with a smaller prefix replaces `exec_size` but
  leaves the pages after it read-execute, and `write` then accepts them.
  `load` calls `protect_exec` once, so Loader does not meet it.
- **`lost_enum`**: `cheader/__init__.py` says that what cannot be converted
  exactly is "never loaded with a wrong layout". The converter takes an enum
  it has no class for to be `int`. If the definition of the enum stands where
  it never looks (behind a member that failed, in a struct that fails for an
  attribute, in a declaration the parser took out, or in an enum that fails
  inside a struct), a later struct with a member of it is laid out with 4
  bytes where the header has 8. `parts` checks that this is the only way to
  a wrong type (`EnumNeverGuessed`).
- **`stale_braces`**: `body_of` says it gives the innermost `{` open at an
  offset. Recovery replaces a typedef the parser cannot read by a shorter one
  and moves what comes after, but keeps the braces of the replaced text where
  they were: the list is no longer sorted, the bisection ends elsewhere, and
  `packed` or `aligned` of a member of a later struct is ignored. What is
  recorded of the later declarations itself is right (`OffsetsFollow`).

- **`leaked_marker`**: the scan turns the attributes of a struct into its
  marker fields. When a function is defined with a body, the body is cut out
  without a word to the markers that still wait for a `{` or a tag:
  `struct __attribute__((packed)) A *f(void) {..}` packs the struct that comes
  next. `pieces` checks that no attribute strays otherwise (`AttributesReach`,
  which also leaves out what is written in parentheses).
- **`late_packed`**: a member may ask for an alignment "only when it does not
  exceed what the field gets anyway", but a `packed` after the closing brace is
  read after the members have been checked:
  `struct { char c; int i __attribute__((aligned(4))); } __attribute__((packed))`
  is loaded with `i` at 1 and size 5, and compiled to 4 and 8.
- Two more differences are modelled in Packing and have no run of their own;
  `LoadedAsCompiled` excepts them by name (`orderly`): a `#pragma pack(n)`
  inside a body is refused for that struct, as it should be, but is not obeyed
  for those that follow, as a compiler does; and `pack(pop, id)` of an earlier
  push takes one entry off the stack where a compiler takes all down to it.

## 4. Proofs

All for any number of assemblers, labels, memories, threads, any sizes and
widths that the `ASSUME`s of the modules allow. Those say little: sentinels are
not members, names of different sorts differ, alignments divide one another
and are not 0, kinds have an even number of values, and the executable prefix
of a program is whole pages and no more than its image has (which Link's
`Layout` gives: `LayoutOK`).

**DataProofs** has the facts that several proofs need: division by an unknown
page size, which is non-linear; what removing an element from a sequence,
extending it and taking a part of it leave; and `AllNumbers`, induction over the
naturals for a set instead of a predicate, from the least element of the set of
counterexamples. `RecursionTo` gives with it a function that takes any steps one
by one, which is what sums and folds are in the proofs. `FlattenByOne` and
`FlattenJoins` say where each piece of a flattened sequence of sequences lies.

**AssemblerProofs.** `TypeOK` is inductive only with `EncodingOK`: the record
`insn` must keep naming the section and the length of the forward names it was
opened with, or `InsnReject` would truncate something else. From both follows
`RejectedInsn`: a rejected instruction restores the forward names exactly and
leaves no byte.

Its second part is about labels. The inductive invariant `LInv` is `LabelsInPlace` and
`BindOrder` together with the types, `EncodingOK` and `SectionsExist` (the
current section and those to return to were created): a new place is the end
of the current section, so nothing bound there before lies after it, provided
that the section exists and sections never shrink below a label. An
instruction's rejection truncates nothing but names, which is where
`EncodingOK` is needed. `LabelsSound` and `BindOrdered` are read off;
`BoundOnce` is the action property `BoundForever` proved from it.

**SectionProofs.** Every operator that makes a table of sections from another
(`Grow`, a patch, a slot, a raised alignment, bytes taken back) keeps what was
there: `Keeps` and `Follows` say that sizes grow, that the patches before are a
prefix of those after, that patches stay inside the bytes, and that `externs`
stays aligned to slots; steps compose them. `SectionsKept` and `PatchesStay`
follow for every step of `Next`. `InsnsApart` is not inductive: an instruction
is recorded when its encoder returns, but began earlier, and in between labels
are bound. `InsnFits` says what holds of the one being encoded: those recorded
end before it begins, it has bytes once it is past parsing, and no label of its
section lies behind its start, since all that is bound while encoding is a slot
in `externs` (`SlotsOnly`). With it, `InsnsDisjoint`.

Its second part is about names. A step makes at most one slot (`SlotChange`), an aligned cell at
the end of `externs` and so behind the others; that it is aligned needs that
the alignment of `externs` is always a multiple of a slot's size (`AllAligned`),
hence `SlotsSound`. `NamesConsistent` has two halves, forward names (`NamedOK`)
and symbols (`SymbolsOK`). Most steps are `Quiet`: labels that change have no
name or are not made yet. A rejected instruction and a bind rejected after the
label was taken leave some of the forward names, in their order, and a part of
a list without repetitions has none either (`NamedSub`); a bind takes one
label out and enters its name, which by `NamesConsistent` no other label has
(`BoundNames`). So `NamesSound`.

**LinkProofs.** The layout is a fold over the sections. That the recursion of
the fold has a solution, and what the solution gives step by step
(`PlaceByOne`), is an induction over positions; it is made with the set of
counterexamples, which has a least member (`AllNumbers`). `Placed` is what each
step of the layout keeps: `LayoutsSound`, for any sections, alignments and page
size. `LinkInv` joins `LInv` with the types of the images. The refinement,
`ImagesStayTrue`: a step of an assembler binds at most one label (`OnePlace`),
which maps to `Define`; no image answers for it, as its number is larger than
that of every image, and the answers for other labels stay as bound labels do
(`SameAnswers`); a `link` maps to `Link` of ImageSpec, as every bound label of
the assembler lies in a section that was placed (`NewAnswers`). `ContentsInv`
adds what is known of the contents of images: that a field or a symbol holds
the answer for its label (`NewFields`, `NewSymbols`: patches lie inside, names
mean one label) and that a slot reference leads to its cell (`NewSlots`); it
stays, since a label that an image knows never changes and a new slot has a
label that no image knows (`OldSlot`). Hence `ImagesAgree` and `SlotsResolve`.

**LoaderProofs.** `MemInv` joins the types with `OwnsItsPages` and
`SealedPrefix`; `Close` is safe because a page's owner is the object that is
open over it, so a second `close` finds nothing to free. `LoaderInv` (in Loader)
is inductive: what memory keeps, what each step of a load has reached
(`LoadsApart`), what a module that is not closed may rely on (`ModulesReady`),
that entries belong to live modules and that the table refers to live
structures. From it `NothingLeaks`, `CallsAreSafe` and `DefsOutlive`.
`CallsAreSafe` needs that a byte between the ends of a range of pages lies in
one of them (`PageBetween` of DataProofs).

**CoreProofs.** `PatchesReach` (that `AppliedRightly` holds: a field reaches, and
one is refused only when no field would) is proved kind by kind. `SignedOfPattern` says
that a number that fits is read back from its pattern, `RoundedRest` and
`RoundedUnique` that rounding leaves a signed part of a page and that no other
number of pages does; so a split is right whenever its high part fits, and a
refusal means that no field would reach. `UnitsOfPage` carries this over to
`call36`, whose low part counts words.

Its second part is about Context. The two properties speak of the ends of the
stacks only, so `ContextInv` says what lies between: a context's tokens are
those it inherited and above them one for each open block (`StackCounts`),
the token of a block has the assembler of the block around it while blocks nest
(`StackNests`), and no token on a stack was used or, by its number, can be taken
for another (`StackSound`, `NumbersTell`), which is what makes `reset` succeed.
From the lowest token alone follows `BlocksRestore`: whatever the order, the
last block that is left resets the inherited assembler. `BlocksNest` needs all.

Its third part is about Listing. The cuts are in order and each is there once
(`Sorted`, whose `CHOOSE` by rank has a value for every rank), so the chunks between them
are laid out by `FlattenJoins`: a line is in one chunk and has its place there.
That rows cover the bytes follows from one chunk ending where the next begins;
that no row has bytes of an instruction and others, from the ends of
instructions being cuts that no other instruction covers (`BoundariesApart`, `InsnApart`); that a
patch is noted once, from its offset being a cut or inside one instruction.
Hence `ListedBytes`, `ListedInsns`, `ListedLabels`, `ListedPatches`, together
`ListingSound`.

Its last part is about `li` in Immediates. `Alike` is that two numbers have the same
pattern, and a sign extension is the one number that fits and is alike
(`SextReads`, `SextIs`). On riscv64 the part above the low one is a multiple of
`2^LowBits` and not zero unless the constant fits a word (`UpperNear`); so the
lowest one bit that `_load_const` looks for exists and there are zeros below it
(`ShiftFound`), and the reduced constant is nearer to zero (`ReducedNearer`).
By induction over that distance the recursion defines a value everywhere
(`LoadConstUnfolds`) and its words load it (`ConstLoads`). On loongarch64
`PartAbove` says what a part above another makes of the number, and when the
lower one's sign already gives it; `LowerLoads` and `UpperLoads` follow the
words. Hence `LiLoads`, for every value and registers and parts of any width.

For the logical immediates of aarch64 the bits of an element of k adjacent ones,
rotated, are one run or two (`RotatedOnes`, `BitRotated`); so it has k ones
(`OnesCounted`), is neither zero nor all ones (`RotatedFits`), and its halves differ
(`HalvesDiffer`). A pattern that repeats a short element repeats every longer one
(`CopiesDivide`), so it would repeat the half: no shorter element gives the same
pattern (`NotShorter`), and the search for the shortest finds the one that was
rotated (`ElementIs`). The fields written for it have the length of the element as
their highest one (`FieldsEncoded`), and what any fields that are not reserved
decode to is the repetition of such an element (`FieldsDecoded`). Hence `MasksDecode`,
both ways: nothing is encoded wrongly (`MaskAccepted`) and nothing that has an
encoding is refused (`MaskRefused`), for masks of any power of two.

**HeaderProofs.** `HeaderInv` is what CHeader's state means between two steps.
A class whose body is open is open once, has no fields and did not fail
(`OpenedOK`), and one that is defined has fields, failed with a diagnostic, or
is open (`DefinedOK`). A function that was declared is bound or skipped, or its
declaration is the one in progress (`FunctionsOK`). So when nothing is open and
no declaration in progress, everything is explained. What is
blamed is in `Faults`, the causes that are at fault themselves, and so is the
cause of an exception on its way out of nested bodies (`BlamesOK`): each handler
passes on the cause it was given and never the name it stands at, hence
`RootIsBlamed`. A field can be of the wrong type only for an enum that the
converter has no entry for, and an enum gets no entry later, since a second
definition is refused (`EnumsOK`, `WrongOK`). `BodySteps` says which steps touch
bodies at all; the others keep most of the invariant as it is.
`ByValueIsComplete`, `EnumsAreNotGuessed`, `RootIsBlamed` and
`EverythingIsExplained` are read off, `FailuresLast` is the action property
`FailedForGood` proved from it.

Its second part is about HeaderText. The start of a declaration is a sum of
lengths, which a replacement moves by the same for all that come later
(`StartsMove`). `TextInv` says that the recorded spans are those of the text and
that the braces and attributes of what was kept lie where they are recorded.
The declaration at a position is found by bisection; that this ends, and where a
sorted list passes the position, is an induction over the width of the interval
(`BisectFinds`), and the spans are sorted because no declaration is empty.
Hence `RecordsStay`.

Its third part is about CConst and rests on the arithmetic of CoreProofs (`Low`,
`Sext`, powers). By induction over the levels every expression is sound
(`AllSound`): it is refused outside a branch that is not taken, and then for one
of the reasons the property allows, or what `const` makes of it `Holds`, i.e. has
its type and a value that is the one of C whenever C gives one (`PartsSound`, with a
lemma for each kind). That is stronger than `ConstantsRight`: where C has no value
the result must still be of its type, since the code goes on with it, and an
expression in a branch that is not taken must not be refused at all (`DeadPart`).
What `_Int` wraps is the conversion of the standard (`ConvertedWraps`), an exact
result that fits is what it wraps to (`ExactlyIs`), `_common` is the wider type
(`CommonIsWider`), and the quotient and the rest that are cut off are the only ones
with the sign of the dividend (`QuotientIs`, `RestOfType`). A narrow cast, which
takes the low bits and subtracts, is the conversion to the narrow type
(`CastHolds`), and the first width in which a literal fits is the first type of the
standard's list that has room for it (`LiteralHolds`). Hence `ConstantsAreRight`, for
any widths of int, long and long long of which no one is narrower than the one
before, and for expressions nested to any depth.

**ScanProofs.** For Packing the stacks of the code and of the compiler have the
same alignment in force as long as the pragmas are `orderly`; that is inductive
only with what lies under it: the two stacks hold the same alignments, entry by
entry (`StacksAgree`). `MembersOK` says of a body that can still be loaded that each
of its members asks for an alignment that changes nothing; then both layouts
are the same function of the members (`Laying`), whatever sizes and alignments
are, hence `StructsLoadedAsCompiled`.

For HeaderScan `TrailOK` says of each marker that waits for a brace that either
what was read since leads to the brace of its struct (`OnTrack`), or no struct
can follow before something makes the marker fail; that needs that the text has
no second struct keyword behind the first (`KeywordOK`). `WaitingOK` ties what
waits for the end of its member to exactly one open brace, `PendingOK` and
`SpansOK` keep attributes in the order of their declarations: the scanner
reports the declaration of the last marker that failed only, and it is that of
all of them (`FailedReported`, with `Greatest`). Hence `AttributesArrive`.

For Structs `ViewInv` is that a view has the address of the place of its path
under every contents of the registers. Bytes further (`AlongMoves`) and elements
at a register (`AtRegisterReaches`, with the exchange of `rsp` and a base on x64)
keep that, and the extent of a pair is the rest of the innermost array; hence
`ViewsReach`. The code of a hint is run instruction by instruction (`RunByOne`):
the temporary is neither the base nor the index (`TemporaryFree`), so every way
computes the address (`WaysReach`), hence `HintsCompute`. A refusal compares with
addresses that were never formed: two addresses over a base that agree under the
register contents in which one register holds 1 or none does, have the same
multiple of every register and congruent displacements (`SameAddress`). The
address of a refused element would so need the index that is there and one more,
a displacement beside an index, or a scale that is no access size (`ConstantRefused`,
`RegisterRefused`, which also shows that what the machine can have is not
refused); hence `RefusalsStand`, and of all three `TypedSound`. `StructsAssumption`
asks for these contents (`OneAt`), for registers that are at least as wide as the
scales are long, and for types of less than a third of the address space, since
the indexes of the runs are up to 3.

The strengthened invariants of CHeader and of HeaderScan were checked by TLC on the
bounds of the runs before they were proved.

What the passing runs check of Assembler, Link, ExecMemory, Loader, Context,
PatchKinds, Immediates, CHeader, HeaderScan, HeaderText, Packing, Structs, Listing
and CConst is so proved. Only model-checked: the words and forms of X64 and of the
machines of fixed width, which are finite tables and their decoding. There is no
liveness to prove: every operation of the library ends in the call that started it.

## 5. Not modelled

- x64's registers and the mnemonic stubs: names, and one line functions.
- The mnemonics of x64 beyond the templates of X64, whose patterns have the
  same forms; x87, mixed address sizes, segment overrides.
- x64's choice of a form of `mov` and the sequence aarch64's `mov` of a number
  becomes.
- Macros, floating constants and strict mode of the converter, bit fields, the
  table of `#line` directives, and the offsets of the lines (`line_starts`),
  which `replace_span` moves as it does the others.
- The preprocessor (pcpp), the prelude of standard types and diagnostics, which
  hand text to a library or are constants; `Types` of Packing and `Ctypes` of
  Structs take their sizes from ctypes.
- The generators of stubs, the tools that download interpreters, examples.

What could be proved next: of X64 that an instruction's fields are read back in
the order in which they were written, without the tables.

## 6. Running

```
tlc -workers 2 -config MCLabels.cfg MCLabels
tlc -workers 2 -config MCPieces.cfg MCPieces
tlapm LinkProofs.tla
tlapm ScanProofs.tla
```
