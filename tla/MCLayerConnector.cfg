SPECIFICATION FairSpec
CONSTANTS
  a1 = a1
  a2 = a2
  t1 = t1
  t2 = t2
  d1 = d1
  d2 = d2
  Free = Free
  Other = Other
  NoFd = NoFd
  Addresses = {a1}
  Topics = {t1, t2}
  Circles = {t1}
  Descriptors = {d1, d2}
  MaxMessages = 2
  MaxFaults = 2
  StreamLimit = 2
INVARIANTS
  PingOwnsDescriptor
  NoDescriptorLeak
  EndedPingIsNoticed
  RelayComplete
  RelayInOrder
PROPERTIES
  LiveUpstreamKept
  BrokenLinkIsLeft
  Reconnects
