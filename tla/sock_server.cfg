SPECIFICATION Spec
CONSTANTS
  t1 = t1
  t2 = t2
  p = p
  Apps = {t1, t2}
  Ops = {"socket", "bind", "listen", "accept", "connectBad", "close"}
  Callers = {p}
  MaxSocket = 3
SYMMETRY AppsAlike
INVARIANTS
  TypeOK
  NoUseAfterFree
  AcceptedOnce
  OneSocketPerPeer
CHECK_DEADLOCK FALSE
