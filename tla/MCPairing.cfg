SPECIFICATION Spec
CONSTANTS
    Sites <- MixSites
    Cap <- MixCap
    SkipPairing = {"jobs"}
    NoPtr = "none"
    MaxOps = 6
INVARIANTS PairedOnce NeverBothWaiting SameChannel TruePeer ReceivesPaired
CHECK_DEADLOCK FALSE
