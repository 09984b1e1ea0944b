\* Bounds: three calls of the builder, two of them before a cut.
CONSTANTS
  FirstBlock = 16
  DataCalls <- MCDataCalls
  Shapes <- MCShapes
  AttrCalls <- MCAttrCalls
  MaxCalls = 3
  ForeignFiles <- MCForeignFiles
  Cuts <- MCCuts
  MaxCutCalls = 2
SPECIFICATION Spec
INVARIANTS
  ReadsWhatWasGiven
  ForeignReads
  AttributesReadBack
  TruncationNoticed
\* A program that has read its dataset stops.
CHECK_DEADLOCK FALSE
