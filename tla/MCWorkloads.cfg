CONSTANTS
  Jobs = 2
  Workers = 2
  Clients = 3
  Phases = 2
  Depth = 2
  MaxGoroutines = 11
  Selected <- AllNames
SPECIFICATION SafetySpec
INVARIANTS NoPanic HangsOnlyWhen NoRace WorkDone
CHECK_DEADLOCK FALSE
