\* One order, from the checkout through relay, topic and worker, which charges it.
SPECIFICATION FairPipeSpec
CONSTANTS
    p1 = p1
    k1 = k1
    r1 = r1
    a = a
    b = b
    MaxOrders = 1
    Products <- MCProducts
    InitStock <- MCStock
    Carts <- MCCarts
    Keys <- MCKeys
    WorkerOutcomes = {"success"}
    Replicas <- MCReplicas
    SweepLimit = 1
    MaxFaults = 0
    Partitions <- MCPartitions
    MaxUpsets = 1
INVARIANTS
    NoEventSlips
PROPERTIES
    ImplementsOrders
    EveryEventIsHandled
CHECK_DEADLOCK FALSE
