CONSTANTS
  Coord <- MCCoord
  ChunkInfo <- MCChunkInfo
  Listing <- MCListing
  Data <- MCData
  Size <- MCSize
  ByteBudgets = {1024}
  SlotCounts = {16}
  Directions = {}
  CounterLimit = 30
  None = None
  Threads = {t1}
  Datasets = {"d1", "d2"}
  OneDataset = FALSE
  Grid <- MCGrid
  Scan <- MCScan
  Decode <- MCDecode
  Zeros = Zeros
  Damaged = Damaged
  NoAnswer = NoAnswer
  MaxCalls = 2
SPECIFICATION Spec
INVARIANT AnswersAreRight
CHECK_DEADLOCK FALSE
