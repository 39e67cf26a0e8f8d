SPECIFICATION Spec
CONSTANTS
  b1 = b1
  e = e
  c1 = c1
  c2 = c2
  Bodies = {b1, e}
  EmptyBody = e
  Consumers = {c1}
  Size = 2
  MaxSequence = 4
  SendLatest = FALSE
  Policies = {"Oldest"}
  NoMessage = NoMessage
  Detached = Detached
PROPERTIES
  ResumesFromLastPosition
CHECK_DEADLOCK FALSE
