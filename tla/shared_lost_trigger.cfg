SPECIFICATION Spec
CONSTANTS
    Nobody = Nobody
    c1 = c1
    c2 = c2
    t1 = t1
    t2 = t2
    Consumers <- MCOneConsumer
    Tasks <- MCTwoTasks
    MaxMessages = 2
    Weight <- MCSingles
    RoundSize = 2
    MaxUnacked = 9
    FlowSize = 1
    PermitCap = 2
    SendMayFail = FALSE
    StorageMayFail = FALSE
    MaxDisturbances = 0
    MaxSeeks = 0
SYMMETRY MCSymmetry
INVARIANT NoStranded
CHECK_DEADLOCK FALSE
