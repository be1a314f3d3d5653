SPECIFICATION FairSpec
CONSTANTS
  AgentCalls <- MCCalls
  MaxBatch = 3
  MaxMessages = 5
INVARIANTS
  LowBatteryExcludesServices
  TracesBelongToTheirCalls
  EveryRequestAnsweredOnce
  ConversationEndsOnce
PROPERTIES
  Terminates
  ResponsesExplainSettings
CHECK_DEADLOCK FALSE
