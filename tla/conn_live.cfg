SPECIFICATION FairSpec
CONSTANTS
  M = 4
  Wraps = 2
  MSS = 2
  Threads = {"tc", "ts"}
  Owner <- OneEach
  Calls <- Duplex
  IoSizes = {1, 3}
  Lossy = {"DATA"}
  MaxWrite <- LongUpload
  MaxNet = 2
PROPERTIES
  AllDelivered
  ImplementsReliableStream
CHECK_DEADLOCK FALSE
