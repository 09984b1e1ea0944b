SPECIFICATION Spec
CONSTANTS
  Points <- MCPoints
  Distance <- MCDistance
  Inputs <- MCInputs
  Level <- LevelOf2
  M = 2
  EfConstruction = 3
  Requests <- MCRequests
INVARIANTS Layered Degrees EntryOnTop ExactWhenWide SavedReadsBack
PROPERTIES Terminates
