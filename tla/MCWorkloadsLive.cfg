CONSTANTS
  Jobs = 2
  Workers = 2
  Clients = 2
  Phases = 2
  Depth = 2
  MaxGoroutines = 9
  Selected <- Smaller
SPECIFICATION Spec
PROPERTIES Ends RegisteredHear
CHECK_DEADLOCK FALSE
