SPECIFICATION FairSpec
CONSTANTS
  t1 = t1
  t2 = t2
  p = p
  Apps = {t1, t2}
  Ops = {"socket", "connect", "io", "close"}
  Callers = {}
  MaxSocket = 2
INVARIANTS
  NoUseAfterFree
  NoCircularWait
PROPERTIES
  FindReturns
