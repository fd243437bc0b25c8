SPECIFICATION Spec
CONSTANTS
    Nobody = Nobody
    c1 = c1
    c2 = c2
    t1 = t1
    t2 = t2
    Consumers <- MCTwoConsumers
    Tasks <- MCTwoTasks
    MaxMessages = 2
    Weight <- MCSingles
    RoundSize = 2
    MaxUnacked = 2
    FlowSize = 1
    PermitCap = 2
    SendMayFail = TRUE
    StorageMayFail = TRUE
    MaxDisturbances = 2
    MaxSeeks = 1
SYMMETRY MCSymmetry
INVARIANT ConservedUnlessUpset
INVARIANT OneOwner
 
PROPERTY CountGrows
CHECK_DEADLOCK FALSE
