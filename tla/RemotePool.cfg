SPECIFICATION Spec
CONSTANTS
  MaxCalls = 2
  MaxTokens = 2
  Timeout = 1
INVARIANTS RelayedInOrder OkIsOwnAnswer ResourcesReturned TwoDeadlines
PROPERTIES CallReturns
