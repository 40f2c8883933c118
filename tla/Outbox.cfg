SPECIFICATION FairSpec
CONSTANTS
    n1 = n1
    n2 = n2
    d1 = d1
    d2 = d2
    Notes = {n1, n2}
    Dispatchers = {d1, d2}
    Batch = 2
    Delays <- OneDelay
    Asks = {2}
    MaxTook = 1
    MaxFaults = 2
    None = None
INVARIANTS
    SentWasDelivered
    CopiesAreAccountedFor
    GivenUpForAReason
PROPERTIES
    AsksNoEarlier
    EverySettles
