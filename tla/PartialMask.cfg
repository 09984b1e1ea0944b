SPECIFICATION Spec
CONSTANTS
  B = 4
  BlockWords = 4
  Error = Error
  NoAnswer = NoAnswer
  Datasets <- MCDatasets
  NumLanes = 3
  Threshold = 4
  HashLanes <- MCHashLanes
  Damages = {"cut", "flip"}
INVARIANT MasksAreHeeded
