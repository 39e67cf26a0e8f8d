SPECIFICATION Spec
CONSTANTS
  t1 = t1
  t2 = t2
  Topics = {t1}
  MaxControlFrames = 1
  MaxSubscriptions = 1
INVARIANTS
  HealthyConnectionKept
CHECK_DEADLOCK FALSE
