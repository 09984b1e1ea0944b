CONSTANTS
  Bases = {0}
  CacheLine = 64
  PageBits = 10
  InlineElmts = 4
  MinElmts = 16
  SuperMin = 4
  IndexBits = 32
  Undefined = Undefined
  Datasets <- LongExtensible
SPECIFICATION Spec
INVARIANT ReadsBack
CHECK_DEADLOCK FALSE
