CONSTANTS
  Coord <- MCCoord
  ChunkInfo <- MCChunkInfo
  Listing <- MCListing
  Data <- MCData
  Size <- MCSize
  ByteBudgets = {5}
  SlotCounts = {0, 2}
  Directions = {"row_major", "column_major", "slice_major"}
  CounterLimit = 1000
  None = None
  WindowSize = 4
  PrefetchCount = 2
  Names <- MCNames
  DatasetOf <- MCDatasetOf
  FileOf <- MCFileOf
  Contents <- MCContents
  Unreadable = Unreadable
  Unread = Unread
  Undefined = Undefined
  MaxBegun = 2
SPECIFICATION SweepSpec
INVARIANTS
  SweepReadsBack
  DetectorsAgree
  PredictsTheSweep
CHECK_DEADLOCK FALSE
