SPECIFICATION FairSpec
CONSTANTS
    h1 = h1
    h2 = h2
    a1 = a1
    l1 = l1
    l2 = l2
    l3 = l3
    Host <- MCHost
    Address <- MCAddress
    LookupId <- MCLookupId
    MaxRequests = 3
    NoHost = NoHost
    NoLookup = NoLookup
INVARIANTS
    SessionSound
    ResultsInOrder
PROPERTIES
    SessionGoesOn
CHECK_DEADLOCK FALSE
