\* The control operations of a core, in both scenarios.
CONSTANTS
    a = a  b = b  c = c  n1 = n1  n2 = n2  e1 = e1  e2 = e2  f = f
    PublicKeys = {a, b, c}
    Prefixes = {n1, n2}
    Interfaces = {"auto"}
    AutoTable = {"auto"}
    Families <- MCFamilies
    DefaultRoute <- MCDefaultRoute
    Endpoints = {"none"}
    NoEndpoint = "none"
    Keepalives = {0}
    FECPolicies = {"balanced", "latency"}
    PresharedKeys = {"nokey"}
    NoKey = "nokey"
    AddrPorts = {e1, e2}
    NoAddr = NoAddr
    TransactionIDs = {"t1", "t2"}
    NoTx = "notx"
    MaxPeers = 2
    Obfs = TRUE
    RetainedTransactions = 1
    InitialPeers <- MCInitialPeers
    InitialAddresses <- MCInitialAddresses
    MutationSets <- MCMutationSets
    MaxGeneration = 3
    MaxInstalls = 2
    Reconnects = {}
    MaxPackets = 0
SPECIFICATION MCSpec
CHECK_DEADLOCK FALSE
INVARIANTS
    LeaseAccounting SelectedPolicy ReceiveKeyAccounting
    DeviceExplained PolicySettled FreshAuthentication
