\* Transactions that fail anywhere, interleaved with DNS migrations.
CONSTANTS
    a = a  b = b  n1 = n1  n2 = n2  n3 = n3  e1 = e1  e2 = e2  e3 = e3
    PublicKeys = {a, b}
    Prefixes = {n1, n2, n3}
    Interfaces = {"auto"}
    AutoTable = {"auto"}
    OffTable = {}
    Families = {"v4"}
    DefaultRoute <- MCDefaultRoute
    Endpoints = {"none", "name", "other", "third"}
    NoEndpoint = "none"
    Keepalives = {0}
    FECPolicies = {"balanced", "latency"}
    PresharedKeys = {"nokey"}
    NoKey = "nokey"
    AddrPorts = {e1, e2, e3}
    NoAddr = NoAddr
    TransactionIDs = {"t1", "t2"}
    NoTx = "notx"
    MaxPeers = 3
    Obfs = TRUE
    RetainedTransactions = 2
    DNS <- MCDNS
    Dynamic = {"name", "other"}
    MaxPendingLeases = 1
    ResponseMayBeLost = FALSE
    RouteMayFail = TRUE
    DeadlineMayPass = TRUE
    MaxRefreshes = 2
    InitialConfig <- MCInitialConfig
    InitialAddress <- MCInitialAddress
    Desireds <- MCFaulty
    CommandMayFail = TRUE
    MaxTransactions = 2
SPECIFICATION Spec
CHECK_DEADLOCK FALSE
INVARIANTS
    Consistent RouteHasOwner EndpointPinned OuterLeaseAccounting
    SupervisorFollowsCore
PROPERTIES
    AdoptsOnlyReady UnaffectedKept
