\* `packed` is read after a member that has an alignment of its own.
SPECIFICATION PackSpec
CONSTANTS
  Types <- MCTypes
  Packs = {1, 2}
  Alignments = {4}
  Ids = {}
  Unnamed = Unnamed
  Unread = Unread
  Unsupported = Unsupported
  MaxPragmas = 0
  MaxMembers = 2
  MaxBodies = 1
INVARIANTS
  LayoutIsExact
CHECK_DEADLOCK FALSE
