SPECIFICATION Spec
CONSTANTS
  t1 = t1
  t2 = t2
  p = p
  Apps = {t1, t2}
  Ops = {"socket", "bind", "listen", "accept", "io", "close"}
  Callers = {p}
  MaxSocket = 2
SYMMETRY AppsAlike
INVARIANTS
  NoCircularWait
CHECK_DEADLOCK FALSE
