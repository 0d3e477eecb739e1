\* Two requests, overlapping or not, on the product, its pages and the wishlist.
SPECIFICATION FairSpec
CONSTANTS
    c1 = c1
    c2 = c2
    Clients <- MCClients
    InitStock = 1
    Restocks = {3}
    MaxWrites = 3
INVARIANTS
    UndisturbedIsFresh
    UnitsAddUp
PROPERTIES
    UndisturbedStaysDeleted
    StaleDoesNotLast
