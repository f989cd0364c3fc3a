CONSTANTS
    a = a
    b = b
    c = c
    c1 = c1
    c2 = c2
    k1 = k1
    k2 = k2
    p1 = p1
    p2 = p2
    PublicKeys = {k1, k2}
    Prefixes = {p1, p2}
    Interfaces = {"if1", "if2"}
    AutoTable = {"if1"}
    Families = {"ipv4"}
    DefaultRoute <- MCDefaultRoute
    Endpoints = {"none"}
    NoEndpoint = "none"
    Keepalives = {0}
    FECPolicies = {"balanced"}
    PresharedKeys = {"none"}
    NoKey = "none"
    RequestIDs = {a, b}
    NoID = NoID
    Clients = {c1, c2}
    Requests <- MCCacheRequests
    Epoch = "epoch"
    Initial <- MCInitial
    CacheEntries = 1
    CacheTTL = 1
    MaxEntries = 2
    MaxTime = 1
SPECIFICATION FairSpec
PROPERTIES
    EveryTransactionEnds
    CloseEnds
