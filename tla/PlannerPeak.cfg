SPECIFICATION PlanSpec
CONSTANTS
  Requests <- MCRequests
  MaxAllocs = 4
  PoolSize = 2
  ArenaAligns = {0, 4}
  Sizes <- MCSizes
  Dtypes <- MCDtypes
  Kinds <- MCKinds
  InputLists <- MCInputLists
  Policies = {"exclusive"}
  Hints <- MCHints
  InputValue = 1
  MaxRuns = 2
INVARIANT PeakCountsLive
CHECK_DEADLOCK FALSE
