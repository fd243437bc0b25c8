SPECIFICATION BothSpec
CONSTANTS
    MaxEntriesPerLedger = 3
    MixedAcks = FALSE
    MaxAppends = 6
    MaxResets = 3
    MaxInterrupts = 1
INVARIANT BackendsAgree
INVARIANT MarkIsFrontier
INVARIANT ReportsRight
INVARIANT RangesFaithful
PROPERTY AckLogSpec
PROPERTY MemoryAckLog
CHECK_DEADLOCK FALSE
