CONSTANTS
    a = a  b = b  n1 = n1  n2 = n2  n3 = n3  e1 = e1  e2 = e2  e3 = e3
    PublicKeys = {a, b}
    Prefixes = {n1, n2, n3}
    Interfaces = {"auto"}
    AutoTable = {"auto"}
    OffTable = {}
    Families = {"v4"}
    DefaultRoute <- MCDefaultRoute
    Endpoints = {"none", "name", "other", "third"}
    NoEndpoint = "none"
    Keepalives = {0}
    FECPolicies = {"balanced", "latency"}
    PresharedKeys = {"nokey"}
    NoKey = "nokey"
    AddrPorts = {e1, e2, e3}
    NoAddr = NoAddr
    TransactionIDs = {"t1"}
    NoTx = "notx"
    MaxPeers = 3
    Obfs = TRUE
    RetainedTransactions = 2
    DNS <- MCDNS
    Dynamic = {"name", "other"}
    MaxPendingLeases = 2
    ResponseMayBeLost = FALSE
    RouteMayFail = FALSE
    DeadlineMayPass = FALSE
    MaxRefreshes = 0
    InitialConfig <- MCInitialConfig
    InitialAddress <- MCInitialAddress
    Desireds <- MCBoth
    CommandMayFail = FALSE
    MaxTransactions = 1
SPECIFICATION Spec
CHECK_DEADLOCK FALSE
INVARIANTS FailedRestoresPrior
