SPECIFICATION Spec
CONSTANTS
  Asms = {A}
  LabelIds = {l1}
  Names = {}
  e1 = e1
  e2 = e2
  e3 = e3
  strlen = strlen
  strcmp = strcmp
  Externs = {e1}
  ExtNames = {strlen}
  ExtName <- MCExtName
  SectionNames = {"code", "externs", "data"}
  UserSections = {"code", "externs"}
  WritableArgs = {"keep"}
  Kinds <- FieldKinds
  DataSizes = {}
  Aligns = {}
  DefaultAlign = 2
  SlotSize = 2
  MaxSize = 4
  MaxNesting = 0
  MaxPatches = 2
  MaxInsns = 1
  NoLabel = NoLabel
  NoAsm = NoAsm
  NoName = NoName
INVARIANTS
  InsnBytesAreOneInsn
