\* every interleaving of three messages, ASD configured
SPECIFICATION InputsSpec
CONSTANTS
  MaxMessages = 3
  AsdConfigured = TRUE
INVARIANTS OneReaderPerQueue NothingIsLeftBehind FanoutReachesBothReaders
PROPERTIES InputThreadsEnd
