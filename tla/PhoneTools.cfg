SPECIFICATION PhoneSpec
CONSTANTS
  Namespaces <- MCNamespaces
  Row <- MCRow
  Phones <- MCPhones
  Contents <- MCContents
  BaseIds = {0, 1}
  InitialRows <- MCInitialRows
  BaseRows <- MCBaseRows
  AgentCalls <- MCCalls
  MaxIndex = 8
  MaxBatch = 2
INVARIANTS
  NoDuplicates
PROPERTIES
  AnswersExplainTheWorld
  AcceptedBatchesCommute
CHECK_DEADLOCK FALSE
