SPECIFICATION FairSpec
CONSTANTS
  M = 4
  Wraps = 2
  MSS = 2
  Threads = {"tc", "ts"}
  Owner <- OneEach
  Calls <- EarlyClose
  IoSizes = {1, 3}
  Lossy = {}
  MaxWrite <- Download
  MaxNet = 2
PROPERTIES
  NoWriteAfterFin
CHECK_DEADLOCK FALSE
