\* One partition, one failing handler.
SPECIFICATION Spec
CONSTANTS
    a = a
    b = b
    e1 = e1
    e2 = e2
    x1 = x1
    bad = bad
    Partitions <- MCOnePartition
    CommerceEvents <- MCTwoCommerce
    OtherEvents = {}
    Poison = {}
    MaxLog = 2
    MaxRetries = 3
    MaxFaults = 1
INVARIANTS
    CommittedIsDone
CHECK_DEADLOCK FALSE
