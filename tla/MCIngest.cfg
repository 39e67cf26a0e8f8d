SPECIFICATION FairSpec
CONSTANTS
  t1 = t1
  t2 = t2
  t3 = t3
  p1 = p1
  p2 = p2
  l1 = l1
  Topics = {t1, t2, t3}
  Threads = {p1, p2, l1}
  Publishers = {p1, p2}
  LayerTopics <- MCLayerTopics
  MaxTopicNumber = 2
  MaxMessages = 3
  DisableDuplicates = TRUE
  QueueLimit = 3
  PipeCapacity = 2
INVARIANTS
  NoLostWakeup
PROPERTIES
  AdmittedIsAnnounced
  FullTableIsReported
