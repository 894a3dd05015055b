SPECIFICATION Spec
CONSTANTS
  MaxChunks = 2
  MaxReplies = 1
CHECK_DEADLOCK FALSE
INVARIANT EndedMeansWholeFile
