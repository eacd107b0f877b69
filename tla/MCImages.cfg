\* Slots in sections and their layout; fields of an image and their targets.
SPECIFICATION ImagesSpec
CONSTANTS
  Asms = {A}
  LabelIds = {l1, l2}
  Names = {x}
  e1 = e1
  e2 = e2
  e3 = e3
  strlen = strlen
  strcmp = strcmp
  Externs = {e1, e2, e3}
  LayoutSizes = {0, 1, 4}
  LayoutExterns = {e1, e3}
  FieldExterns = {e1, e2}
  ExtNames = {strlen, strcmp}
  ExtName <- MCExtName
  SectionNames = {"code", "externs", "data"}
  UserSections = {"code", "externs", "data"}
  WritableArgs = {"keep", "writable", "readonly"}
  Kinds <- FieldKinds
  DataSizes = {}
  Aligns = {1, 8}
  DefaultAlign = 4
  SlotSize = 2
  MaxSize = 4
  FieldSize = 2
  MaxNesting = 1
  MaxPatches = 2
  MaxInsns = 0
  PageSize = 4
  Bases = {4}
  OwnAddress <- MCOwnAddress
  Givens <- MCGivens
  MaxImages = 1
  NoLabel = NoLabel
  NoAsm = NoAsm
  NoName = NoName
  NoAddress = NoAddress
  Failed = Failed
INVARIANTS
  LayoutOK
  SlotsWellFormed
  FieldsAgree
  SlotReferences
PROPERTIES
  SectionsOnlyGrow
