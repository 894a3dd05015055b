SPECIFICATION Spec
CONSTANTS
  MaxChunks = 3
  MaxReplies = 2
CHECK_DEADLOCK FALSE
INVARIANTS InputIsInOrder OneOutcome
PROPERTIES CallsEnd CallIsReported
