SPECIFICATION Spec
CONSTANTS
  MaxAttempts = 2
  MaxChunks = 2
  MaxMessages = 3
INVARIANTS
  OkMeansWholeDub
  InputOutlivesUpload
  OnlyTheseFilesAreLeft
PROPERTIES
  CallEnds
  ImplementsStream
