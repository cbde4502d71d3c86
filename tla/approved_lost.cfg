SPECIFICATION Spec
CONSTANTS
  t1 = t1
  p1 = p1
  p2 = p2
  p3 = p3
  None = None
  Tasks = {t1}
  Pids = {p1, p2, p3}
  MaxStages = 1
  MaxRespawn = 1
  RetryLimit <- NoRetries
  Kinds = {"crash"}
  MaxEvents = 1
CHECK_DEADLOCK FALSE

INVARIANTS ApprovedKept
