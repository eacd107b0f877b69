SPECIFICATION Spec
CONSTANTS
  Asms = {A}
  LabelIds = {l1, l2}
  Names = {x}
  e1 = e1
  e2 = e2
  e3 = e3
  strlen = strlen
  strcmp = strcmp
  Externs = {e1}
  ExtNames = {strlen}
  ExtName <- MCExtName
  SectionNames = {"code", "externs", "data"}
  UserSections = {"code"}
  WritableArgs = {"keep"}
  Kinds <- WideKinds
  DataSizes = {}
  Aligns = {}
  DefaultAlign = 2
  SlotSize = 2
  MaxSize = 3
  MaxNesting = 1
  MaxPatches = 2
  MaxInsns = 2
  NoLabel = NoLabel
  NoAsm = NoAsm
  NoName = NoName
INVARIANTS
  TypeOK
  PatchesInside
  InsnsApart
PROPERTIES
  RejectedInsnLeavesNoTrace
