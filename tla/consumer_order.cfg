SPECIFICATION Spec
CONSTANTS
    a = a
    b1 = b1
    b2 = b2
    b3 = b3
    z = z
    Consumers <- MCConsumers
    Priority <- MCPriority
    MaxPermits = 2
SYMMETRY MCSymmetry
INVARIANT BestLevel
INVARIANT TakeTurns
