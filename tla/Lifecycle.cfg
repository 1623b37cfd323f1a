SPECIFICATION Spec
CONSTANTS
  N = 3
  MaxProbes = 2
  MaxStrangers = 1
  MaxFaults = 1
INVARIANT Replaced
PROPERTY StopReturns
\* every instance may have ended
CHECK_DEADLOCK FALSE
