SPECIFICATION FairSpec
CONSTANTS
    MaxEvents = 2
INVARIANTS ExitComplete ClosedWhenStopped
PROPERTIES StopProgresses EndsInTime
CHECK_DEADLOCK FALSE
