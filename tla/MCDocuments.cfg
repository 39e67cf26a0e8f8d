SPECIFICATION FairSpec
CONSTANTS
  MaxInt = 7
  MaxLargestInt = 31
  Precision = 16
  MaxDouble = 480
  StackLimit = 3
  ReservedTopics <- MCReserved
  AllownTopics <- MCAllown
  DisabledSubscribeTopics <- MCDisabled
  EnabledSubscribeTopics <- MCEnabled
  Tokens <- MCTokens
  MaxTokens = 9
  LayerLists <- MCLists
  Numbers <- MCNumbers
  TopicsName <- nameT
  Fields <- MCFields
  Policies <- MCPolicies
INVARIANTS
  DocumentIsTree
  NullsAreWritten
  LayerSubscribesWhatItAsked
  NumberIsExact
PROPERTIES
  ErrorIsFinal
  ParseEnds
CHECK_DEADLOCK FALSE
