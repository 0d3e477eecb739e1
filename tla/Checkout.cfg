\* Four requests at a time, two failing statements, timeouts or crashes, and rows locked
\* in opposite order.
SPECIFICATION FairSpec
CONSTANTS
    q1 = q1
    q2 = q2
    q3 = q3
    q4 = q4
    k1 = k1
    k2 = k2
    a = a
    b = b
    none = none
    Requests <- MCRequests
    KeyOf <- MCKeyOf
    BodyOf <- MCBodyOf
    InitStock <- MCInitStock
    NoRequest = none
    MaxInFlight = 4
    MaxFaults = 2
INVARIANTS
    AnswersNameOwnOrder
    BasketsAreWhole
    OrdersPerKeyBounded
PROPERTIES
    EveryRequestEnds
CHECK_DEADLOCK FALSE
