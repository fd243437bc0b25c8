SPECIFICATION Spec
CONSTANTS
    NoHash = NoHash
    Nobody = Nobody
    t1 = t1
    t2 = t2
    Consumers = {1, 2}
    Tasks <- MCTasks
    Policies <- MCPolicies
    StickyRanges <- MCStickyRanges
    HashSpace = 3
    Hashes <- MCHashes
    HashOf <- MCHashOf
    MaxMessages = 2
    BatchSize = 1
    Modulus = 8
    FlowSize = 1
    PermitCap = 1
    MaxDisturbances = 2
SYMMETRY MCSymmetry
INVARIANT HashesCounted
 
PROPERTY KeyOrder
PROPERTY SentToOwner
CHECK_DEADLOCK FALSE
