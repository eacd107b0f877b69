\* A marker written at one struct lands in the body of another.
SPECIFICATION ScanSpec
CONSTANTS
  MaxAttrs = 1
  MaxBraces = 1
  MaxBoth = 2
  MaxDeclarations = 2
INVARIANTS
  MarkersStayHome
CHECK_DEADLOCK FALSE
