SPECIFICATION FairSpec
CONSTANTS
  t1 = t1
  t2 = t2
  Topics = {t1, t2}
  MaxControlFrames = 1
  MaxSubscriptions = 2
PROPERTIES
  SubscribedIsServed
CHECK_DEADLOCK FALSE
