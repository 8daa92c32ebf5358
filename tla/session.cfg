CONSTANTS
    MaxCaptures = 2
    MaxClicks = 4
    MaxRefusals = 1
    MaxDeaths = 1
    MaxCloses = 1
SPECIFICATION FairSpec
INVARIANTS TypeOK HijackingAgrees FinderWhileHijacking
PROPERTIES LossyFifoSpec QueueIsFetched ToolEnds
CHECK_DEADLOCK FALSE
