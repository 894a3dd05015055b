\* video_buffer and audio_buffer: two unbounded queues, consumers may stop early
SPECIFICATION Spec
CONSTANTS
  a = a
  b = b
  Item = {a, b}
  NumQueues = 2
  MaxSize = 0
  MaxRequests = 3
  MayAbandon = TRUE
INVARIANTS CountersSettle
PROPERTIES ConsumersAreReleased ImplementsStream
