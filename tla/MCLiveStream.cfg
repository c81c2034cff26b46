SPECIFICATION FairSpec
CONSTANTS
    HistoryCap = 2
    EventBuf = 1
    LiveBuf = 2
    PipeCap = 1
    MaxItems = 3
    MaxEvents = 5
INVARIANTS NoSeam RunEndComplete
PROPERTIES Progresses DeliverySpec RunReturns ClientCatchesUp GoroutinesEndUnlessFull
CHECK_DEADLOCK FALSE
