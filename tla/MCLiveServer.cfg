SPECIFICATION Spec
CONSTANTS
    Slot = {s1, s2, s3}
    Name = {"w"}
    Text = {"a", "b"}
    Asks <- MCAsks
    MaxRequests = 4
SYMMETRY MCSymmetry
INVARIANTS RunsCurrent CacheTrue
CHECK_DEADLOCK FALSE
