CONSTANTS
  Files <- MCFiles
  NameLen <- MCNameLen
  NameRank <- MCNameRank
  Plans <- MCPlans
  DenseThreshold = 8
  Undefined = Undefined
  Missing = Missing
SPECIFICATION CreateSpec
INVARIANTS
  AddressesHold
  ReadsBack
  CreatedTogether
CHECK_DEADLOCK FALSE
