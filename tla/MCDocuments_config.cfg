SPECIFICATION Spec
CONSTANTS
  MaxInt = 7
  MaxLargestInt = 31
  Precision = 16
  MaxDouble = 480
  StackLimit = 3
  ReservedTopics <- MCReserved
  AllownTopics <- MCAllown
  DisabledSubscribeTopics <- MCDisabled
  EnabledSubscribeTopics <- MCEnabled
  Tokens <- MCTokens
  MaxTokens = 7
  LayerLists <- MCLists
  Numbers <- MCNumbers
  TopicsName <- nameT
  Fields <- MCFields
  Policies <- MCPolicies
INVARIANTS
  MalformedConfigIsRefused
CHECK_DEADLOCK FALSE
