SPECIFICATION MemSpec
CONSTANTS
  Mems = {m1, m2}
  Pages <- ThreePages
  PageSize = 2
  Sizes = {0, 2, 3}
  Spans = {1, 2, 3}
  Free = Free
SYMMETRY Symmetry
INVARIANTS
  TailIsWritable
