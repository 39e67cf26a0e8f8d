SPECIFICATION FairSpec
CONSTANTS
  t1 = t1
  t2 = t2
  Topics = {t1, t2}
  MaxControlFrames = 2
  MaxSubscriptions = 1
INVARIANTS
  AnswerPrecedesData
  DeadIsKilled
PROPERTIES
  DueIsDelivered
  PlaceIsFreed
CHECK_DEADLOCK FALSE
