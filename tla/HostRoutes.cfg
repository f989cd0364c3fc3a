\* What wg-quic changes on a host, with crashes, failures and foreign routes.
CONSTANTS
    Keys = {k1, k2}
    NoKey = k0
    Instances = {i1, i2}
    Nobody = i0
    MaxLeases = 2
    Prefixes = {p1, p2}
    MaxTransactions = 2
    MaxLuid = 2
    Addresses = {a1}
    Links = {l1, l2}
    Gateways = {g1}
    None = None
    MaxStarts = 2
    MaxCalls = 4
    MaxFaults = 2
    MaxHostFaults = 1
    MaxForeign = 1
    Notifiers = {n1, n2}
    Pins = {k1}
    Others = {k2}
    Unknown = k0
    NotificationLimit = 1
    MaxChanges = 3
    MaxFailures = 1
SPECIFICATION Spec
INVARIANTS
    LeaseRecorded JournalCovers ProjectionInstalled PinnedWhileRouted PinsAccounted
    ChangeOnItsWay
CHECK_DEADLOCK FALSE
