SPECIFICATION AttributesSpec
CONSTANTS
  File <- Tree
  Damages <- MCDamages
  None = 0
  MaxV1Depth = 3
  MaxContinuations = 3
  Root = 1
  Paths <- MCPaths
  MaxRequests = 2
INVARIANTS AnswersAreTrue ErrorsAreEarned CacheIsTrue ContentsAreTrue
PROPERTIES AnswersCome
CHECK_DEADLOCK FALSE
