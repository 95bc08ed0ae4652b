SPECIFICATION FairSpec
CONSTANTS
  M = 4
  Wraps = 2
  MSS = 2
  Threads = {"tc", "ts"}
  Owner <- OneEach
  Calls <- Duplex
  IoSizes = {1}
  Lossy = {"ACK"}
  MaxWrite <- TwoBytes
  MaxNet = 2
PROPERTIES
  AllDelivered
CHECK_DEADLOCK FALSE
