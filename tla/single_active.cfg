SPECIFICATION Spec
CONSTANTS
    Nobody = Nobody
    c1 = c1
    c2 = c2
    t1 = t1
    t2 = t2
    Consumers <- MCConsumers
    Tasks <- MCTasks
    Rank <- MCRank
    Kinds <- MCBoth
    MaxMessages = 2
    BatchSize = 1
    FlowSize = 2
    PermitCap = 2
    Modulus = 16
    MaxDisturbances = 2
    MaxFaults = 1
SYMMETRY MCSymmetry
 
INVARIANT OnlyActiveReceives
 
 
CHECK_DEADLOCK FALSE
