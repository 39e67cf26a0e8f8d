SPECIFICATION FairSpec
CONSTANTS
  t1 = t1
  t2 = t2
  nt = nt
  Topics = {t1, t2}
  NoTopic = nt
  DisableDuplicates = TRUE
  QueueLimit = 3
  PipeCapacity = 1
  MaxFrames = 1
  MaxControlFrames = 2
INVARIANTS
  NoLostWakeup
  AnswerPrecedesData
PROPERTIES
  OwedIsHandled
  OutputIsFlushed
  DeadLoopStops
CHECK_DEADLOCK FALSE
