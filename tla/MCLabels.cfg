\* Names and labels of two assemblers, and what an image answers about them.
SPECIFICATION LabelsSpec
CONSTANTS
  Asms = {A, B}
  LabelIds = {l1, l2, l3}
  FewLabels = {l1, l2}
  Names = {x, y}
  e1 = e1
  e2 = e2
  e3 = e3
  strlen = strlen
  strcmp = strcmp
  Externs = {}
  ExtNames = {}
  ExtName <- MCExtName
  SectionNames = {"code", "externs", "data"}
  UserSections = {"code", "data"}
  WritableArgs = {"keep"}
  Kinds <- NoKinds
  DataSizes = {1}
  Aligns = {}
  DefaultAlign = 4
  SlotSize = 2
  MaxSize = 1
  MaxNesting = 0
  MaxPatches = 0
  MaxInsns = 1
  PageSize = 4
  Bases = {4}
  OwnAddress <- MCOwnAddress
  Givens <- NoGivens
  MaxImages = 1
  NoLabel = NoLabel
  NoAsm = NoAsm
  NoName = NoName
  NoAddress = NoAddress
  Failed = Failed
SYMMETRY BothSymmetries
INVARIANTS
  NamesConsistent
  LabelsInPlace
  BindOrder
PROPERTIES
  BoundForever
  AnswersStayTrue
