SPECIFICATION Spec
CONSTANTS
    Iters = 2
    MaxFaults = 2
INVARIANT PassMeansRan
INVARIANT FailBlamesGpu
PROPERTY EopMeansDone
\* main returns
CHECK_DEADLOCK FALSE
