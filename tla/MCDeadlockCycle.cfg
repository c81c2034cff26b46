SPECIFICATION Spec
CONSTANTS
    Sites <- MixSites
    Cap <- MixCap
    NoPtr = "noptr"
    Window = 0
    MaxOps = 6
    MaxClock = 2
INVARIANTS CycleIsDeadlock
PROPERTIES DeadlockReported
CHECK_DEADLOCK FALSE
