\* A seeded product and a new one, two faults or reindexes, a low trip count.
SPECIFICATION FairIndexSpec
CONSTANTS
    p1 = p1
    p2 = p2
    Products <- MCProducts
    Seeded <- MCSeeded
    Edited <- MCEdited
    MaxVersion = 2
    MaxJobs = 2
    Trip = 3
    MaxFaults = 2
INVARIANTS
    CalmIsExact
    CalmStaysClosed
    ReindexRepairs
PROPERTIES
    BreakerRecovers
CHECK_DEADLOCK FALSE
