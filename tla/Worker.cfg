\* Two partitions, every kind of message, three audit attempts, three faults.
SPECIFICATION FairSpec
CONSTANTS
    a = a
    b = b
    e1 = e1
    e2 = e2
    x1 = x1
    bad = bad
    Partitions <- MCPartitions
    CommerceEvents <- MCCommerce
    OtherEvents <- MCOther
    Poison <- MCPoison
    MaxLog = 2
    MaxRetries = 3
    MaxFaults = 3
INVARIANTS
    AuditIsTrue
    CommittedWasHandled
PROPERTIES
    EventuallyHandled
CHECK_DEADLOCK FALSE
