SPECIFICATION FairSpec
CONSTANTS
  M = 4
  Wraps = 2
  MSS = 2
  Threads = {"tc", "ts"}
  Owner <- OneEach
  Calls <- Upload
  IoSizes = {1, 3}
  Lossy = {"DATA"}
  MaxWrite <- ShortUpload
  MaxNet = 2
PROPERTIES
  CloseReturns
CHECK_DEADLOCK FALSE
