SPECIFICATION FairSpec
CONSTANTS
  Descriptors <- MCFewDescriptors
  Connections <- MCConnections
  Pings <- MCTwoPings
  MaxFrames = 1
  MaxFaults = 2
  MaxPublisherFaults = 0
PROPERTIES
  LossIsRetried
