SPECIFICATION Spec
CONSTANTS
    Gor = {"g1"}
    MaxTime = 13
INVARIANTS BlockedIsWaiting ShownBlockedIsStill BlockedTimeExact IntroducedWhenNamed
CHECK_DEADLOCK FALSE
