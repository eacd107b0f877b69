SPECIFICATION HeaderSpec
CONSTANTS
  Tags = {S, T}
  EnumTags = {E}
  TypedefNames = {N}
  FuncNames = {}
  Nameless = Nameless
  MaxDepth = 1
  Fine = Fine
  Own = Own
  Unset = Unset
INVARIANTS
  NeverWrongLayout
