SPECIFICATION Spec
CONSTANTS
    Slot = {s1, s2}
    Name = {"w"}
    Text = {"a"}
    Asks <- MCLevelAsks
    MaxRequests = 2
INVARIANTS OwnOptions
CHECK_DEADLOCK FALSE
