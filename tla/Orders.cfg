\* Two orders compete for the stock; a replica sweeps, and may fail or restart in
\* the middle; the worker charges or declines and gets the outbox rows in any order
\* and more than once.
SPECIFICATION FairSpec
CONSTANTS
    p1 = p1
    p2 = p2
    k1 = k1
    k2 = k2
    r1 = r1
    MaxOrders = 2
    Products <- MCProducts
    InitStock <- MCStock
    Carts <- MCCarts
    Keys <- MCOneKey
    WorkerOutcomes = {"success", "fail"}
    Replicas <- MCOneReplica
    SweepLimit = 2
    MaxFaults = 1
INVARIANTS
    TypeOK
    HoldsMatchStatus
    ChargedOnce
    LedgerTellsReservation
    StockConserved
    OutboxTellsHistory
    PaidUncommittedWasDeclined
PROPERTIES
    ContractSpec
    InventoryFindsNothing
    ClosedIsFinal
    HoldsExpire
CHECK_DEADLOCK FALSE
