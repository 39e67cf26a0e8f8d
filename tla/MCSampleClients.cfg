SPECIFICATION FairSpec
CONSTANTS
  Descriptors <- MCDescriptors
  Connections <- MCConnections
  Pings <- MCPings
  MaxFrames = 2
  MaxFaults = 2
  MaxPublisherFaults = 1
PROPERTIES
  Resubscribes
  KeepsPublishing
