\* Two requests at a time, no failure.
SPECIFICATION Spec
CONSTANTS
    q1 = q1
    q2 = q2
    q3 = q3
    q4 = q4
    k1 = k1
    k2 = k2
    a = a
    b = b
    none = none
    Requests <- MCRequests
    KeyOf <- MCKeyOf
    BodyOf <- MCBodyOf
    InitStock <- MCInitStock
    NoRequest = none
    MaxInFlight = 2
    MaxFaults = 0
INVARIANTS
    OneOrderPerKey
CHECK_DEADLOCK FALSE
