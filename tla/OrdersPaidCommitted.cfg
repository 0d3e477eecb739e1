\* A declined order that is paid on retry has no committed stock.
SPECIFICATION Spec
CONSTANTS
    p1 = p1
    p2 = p2
    k1 = k1
    k2 = k2
    r1 = r1
    MaxOrders = 1
    Products <- MCProducts
    InitStock <- MCStock
    Carts <- MCOneCart
    Keys <- MCKeys
    WorkerOutcomes = {"success"}
    Replicas <- MCOneReplica
    SweepLimit = 1
    MaxFaults = 0
INVARIANTS
    PaidIsCommitted
CHECK_DEADLOCK FALSE
