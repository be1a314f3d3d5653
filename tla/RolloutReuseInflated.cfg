SPECIFICATION Spec
CONSTANTS
  AgentCalls <- MCHelperCalls
  MaxBatch = 2
  MaxMessages = 4
INVARIANTS
  ReusesAreCalls
CHECK_DEADLOCK FALSE
