SPECIFICATION FairSpec
CONSTANTS
  N = 3
  Wants <- Mixed
  CompleteKill = TRUE
  Silent = {2}
INVARIANTS
  TypeOK
  Preempted
PROPERTIES
  Serves
  Reaped
  RightAnswer
CHECK_DEADLOCK FALSE
