\* Two peers, four events, the second one undecodable.
SPECIFICATION FairSpec
CONSTANTS
    c1 = c1
    c2 = c2
    Clients <- MCClients
    NumEvents = 4
    Poison = {2}
    MaxFaults = 2
INVARIANTS
    StreamHasNoGaps
PROPERTIES
    GoneLeavesHub
    EveryEventGoesOut
CHECK_DEADLOCK FALSE
