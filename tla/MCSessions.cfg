SPECIFICATION MCSpec
CONSTANTS
    None = None
    Writers = {1, 2}
    Names = {"a", "g"}
    GroupNames = {"g"}
    Arrays <- MCArrays
    AttrInputs <- MCAttrs
    MaxCalls = 3
    Images <- MCImages
    Fixed <- MCFixed
    ChunkSizes = {1, 2}
    PrefetchCounts = {1, 2}
    MappedSizes = {0, 2, 3}
    MaxWrites = 3
    MaxPreload = 1
INVARIANTS
    ReopenedIsReplayed
    PartialIsNoticed
    SnapshotsAreWritten
    MappedIsReplayed
    RingServesFile
CHECK_DEADLOCK FALSE
