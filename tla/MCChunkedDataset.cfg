CONSTANTS
  Bases = {64, 1000}
  CacheLine = 64
  PageBits = 10
  InlineElmts = 4
  MinElmts = 16
  SuperMin = 4
  IndexBits = 32
  Undefined = Undefined
  Datasets <- MCDatasets
SPECIFICATION Spec
INVARIANTS
  ExtentsApart
  PointersResolve
  ReadsBack
CHECK_DEADLOCK FALSE
