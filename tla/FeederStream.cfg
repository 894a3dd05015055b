\* two sources and a bounded buffer, read as the request generators read it
SPECIFICATION Spec
CONSTANTS
  Source = {video, audio}
  MaxItems = 2
  Item <- MCItem
  NumQueues = 1
  MaxSize = 1
  EarlyStop = TRUE
INVARIANTS PerSourceOrder ReturnedMeansComplete
PROPERTIES ReaderIsReleased StopReleasesFeeders ImplementsStream
