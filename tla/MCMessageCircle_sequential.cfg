SPECIFICATION Spec
CONSTANTS
  b1 = b1
  e = e
  c1 = c1
  c2 = c2
  Bodies = {b1, e}
  EmptyBody = e
  Consumers = {c1}
  Size = 2
  MaxSequence = 6
  SendLatest = FALSE
  Policies = {"Latest", "Oldest", "Disconnect"}
  NoMessage = NoMessage
  Detached = Detached
INVARIANTS
  RingHoldsWindow
  OnlyOverrunDisconnects
  PendingFrameValid
  CursorBehindProducer
  ReceivedBehindCursor
  EverySequenceAccounted
PROPERTIES
  RefinesTopicLog
CHECK_DEADLOCK FALSE
