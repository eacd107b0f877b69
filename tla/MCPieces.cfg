\* The encoders of riscv64, loongarch64 and aarch64 with operands of every kind
\* at the edges of their fields, views, listings, and headers with attributes
\* and packing.
SPECIFICATION Spec
CONSTANTS
  Nothing = Nothing
  NoWords = NoWords
  Place = 2244
  Ctypes <- MCCtypes
  RegFiles <- MCRegFiles
  Widest = 24
  RegBits = 10
  Given <- MCGiven
  IndexRegs <- MCIndexRegs
  Absent = Absent
  Refused = Refused
  MaxPath = 3
  Width = 2
  MaxBytes = 4
  MaxInsns = 2
  MaxLabels = 1
  MaxPatches = 2
  PatchSizes = {1, 3}
  ImageStart = 3
  NoImage = NoImage
  Unlisted = Unlisted
  MaxAttrs = 2
  MaxBraces = 2
  MaxBoth = 3
  MaxDeclarations = 2
  Types <- MCTypes
  Packs = {1, 2}
  Alignments = {2, 4}
  Ids = {a}
  Unnamed = Unnamed
  Unread = Unread
  Unsupported = Unsupported
  MaxPragmas = 3
  MaxMembers = 2
  MaxBodies = 1
  MaxText = 4
INVARIANTS
  RiscvRead
  LoongRead
  A64Read
  TypedReaches
  ListingShows
  AttributesReach
  LoadedAsCompiled
\* An instruction is encoded once, a text ends.
CHECK_DEADLOCK FALSE
