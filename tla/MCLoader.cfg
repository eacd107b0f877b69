SPECIFICATION LoaderSpec
CONSTANTS
  Mems = {m1, m2}
  Pages <- ThreePages
  PageSize = 2
  Sizes = {}
  Spans = {1, 2}
  Free = Free
  Threads = {t1, t2}
  Programs <- TwoPrograms
  Handles = {f1, f2}
  Entries = {1, 2}
  Defs = {d1, d2}
  NoModule = NoModule
  NoDef = NoDef
SYMMETRY Symmetry
INVARIANTS
  NoFault
  OwnsItsPages
  SealedPrefix
  NoLeak
  CallsSafe
  MethodDefsOutlive
CHECK_DEADLOCK FALSE
