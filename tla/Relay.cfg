\* Two relays, batches of two, failures and pauses.
SPECIFICATION FairSpec
CONSTANTS
    r1 = r1
    r2 = r2
    Replicas <- MCReplicas
    MaxRows = 3
    BatchSize = 2
    MaxFaults = 2
    MaxPauses = 2
INVARIANTS
    PublishedWasSent
    
PROPERTIES
    RelayKeepsPromise
    EventuallyPublished
CHECK_DEADLOCK FALSE
