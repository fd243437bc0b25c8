SPECIFICATION FairSpec
CONSTANTS
    Nobody = Nobody
    c1 = c1
    c2 = c2
    t1 = t1
    t2 = t2
    Consumers <- MCTwoConsumers
    Tasks <- MCOneTask
    MaxMessages = 2
    Weight <- MCPairs
    RoundSize = 2
    MaxUnacked = 9
    FlowSize = 2
    PermitCap = 3
    SendMayFail = FALSE
    StorageMayFail = FALSE
    MaxDisturbances = 2
    MaxSeeks = 0
INVARIANT NoStranded
PROPERTY Delivered
CHECK_DEADLOCK FALSE
