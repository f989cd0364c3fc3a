CONSTANTS
    a = a
    b = b
    c = c
    c1 = c1
    c2 = c2
    k1 = k1
    k2 = k2
    p1 = p1
    p2 = p2
    PublicKeys = {k1, k2}
    Prefixes = {p1, p2}
    Interfaces = {"if1", "if2"}
    AutoTable = {"if1"}
    Families = {"ipv4"}
    DefaultRoute <- MCDefaultRoute
    Endpoints = {"none"}
    NoEndpoint = "none"
    Keepalives = {0}
    FECPolicies = {"balanced"}
    PresharedKeys = {"none"}
    NoKey = "none"
    RequestIDs = {a, b, c}
    NoID = NoID
    Clients = {c1, c2}
    Requests <- MCRequests
    Epoch = "epoch"
    Initial <- MCInitial
    CacheEntries = 1
    CacheTTL = 2
    MaxEntries = 3
    MaxTime = 0
SYMMETRY MCSymmetry
SPECIFICATION Spec
INVARIANTS
    CommittedFromItsBase
    GenerationHistory
    ResultsAreTrue
PROPERTIES
    TerminalIsFinal
    ImplementsDesiredState
