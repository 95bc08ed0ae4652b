SPECIFICATION Spec
CONSTANTS
  M = 4
  Wraps = 2
  MSS = 2
  Threads = {"tc", "ts"}
  Owner <- OneEach
  Calls <- Upload
  IoSizes = {1, 3}
  Lossy = {"SYN", "ACK", "FIN", "DATA"}
  MaxWrite <- UploadWrites
  MaxNet = 3
INVARIANTS
  TypeOK
  AckAssertHolds
  LenAssertHolds
  CopiesFit
  Integrity
  NoFalseAck
  FinIsLast
  ClosedMeansDelivered
  EofMeansArrived
PROPERTIES
  WindowNotRetracted
  SilentAfterFin
  ImplementsStream
CHECK_DEADLOCK FALSE
