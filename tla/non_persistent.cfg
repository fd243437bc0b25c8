SPECIFICATION FairSpec
CONSTANTS
    Nobody = Nobody
    s1 = s1
    s2 = s2
    p1 = p1
    Subs = {s1, s2}
    Kinds <- MCKinds
    Consumers = {1, 2}
    SubOf <- MCSubOf
    Priority <- MCPriority
    PartitionIndex = 1
    RingChoice <- MCRingChoice
    Producers = {p1}
    Messages = {1, 2}
    ProducerOf <- MCProducerOf
    HashOf <- MCHashOf
    Weight <- MCWeight
    HashSpace = 2
    StickyRanges <- MCStickyRanges
    QueueCap = 2
    BatchMax = 2
    FlowSize = 1
    PermitCap = 1
    MaxClogs = 1
    MaxRemovals = 1
INVARIANT InOrderOnce
INVARIANT NothingUncounted
 
PROPERTY WorkerNeverBlocks
CHECK_DEADLOCK FALSE
