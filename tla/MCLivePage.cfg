CONSTANTS
  Cap = 2
  Batch = 1
  Lateness = 1
  File <- TwoEvents
  MaxEvents = 4
  MaxTime = 3
  MaxRuns = 2
  MaxClicks = 2
SPECIFICATION FairSpec
INVARIANT OneTimeline
PROPERTY PlaysOut
CHECK_DEADLOCK FALSE
