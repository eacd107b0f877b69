SPECIFICATION Spec
CONSTANTS
  Kinds <- MCKinds
  Places <- MCPlaces
  Addresses <- MCAddresses
  Widest = 24
  LowBits = 3
  WordBits = 6
  RegBits = 14
  Parts <- MCParts
  MaskBits = 8
  LogMaskBits = 3
  NoPatch = NoPatch
  NotYet = NotYet
  Refused = Refused
  NoOperand = NoOperand
  NotDone = NotDone
  NoCode = NoCode
  LongBits = 20
  QuadBits = 24
  LabelAt = 100
  None = None
  Rip = Rip
  NoInsn = NoInsn
  NotEncoded = NotEncoded
  NoEncoding = NoEncoding
  Asms = {A, B}
  Contexts = {main, task1, task2}
  Threads = {main}
  NoAsm = NoAsm
  MaxEnters = 4
  CIntBits = 3
  CLongBits = 4
  CWideBits = 4
  Nested <- MCNested
  NoExpr = NoExpr
  NotEvaluated = NotEvaluated
  Unsupported = Unsupported
  Lengths = {6, 12}
  MaxDecls = 3
  Replacements = {4, 9}
  Tags = {S}
  EnumTags = {E}
  TypedefNames = {N, M}
  FuncNames = {F}
  Nameless = Nameless
  MaxDepth = 2
  Fine = Fine
  Own = Own
  Unset = Unset
SYMMETRY Symmetry
INVARIANTS
  AppliedRightly
  LiLoadsValue
  MaskDecodes
  EncodedRightly
  NestedBlocksSee
  AnyOrderRestores
  ConstantsRight
  OffsetsFollow
  ByValueComplete
  BlamesTheRoot
  Explained
  EnumNeverGuessed
PROPERTIES
  FailedForGood
CHECK_DEADLOCK FALSE
