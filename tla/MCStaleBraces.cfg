SPECIFICATION TextSpec
CONSTANTS
  Lengths = {6, 12}
  MaxDecls = 3
  Replacements = {4, 9}
INVARIANTS
  MembersKeepAttributes
CHECK_DEADLOCK FALSE
