SPECIFICATION DataPath
CONSTANTS
    TTL = 1
    FECParity = 2
    FECInterleave = 2
    ProbeFrames = 1
    MaxGroups = 2
    MaxCompleted = 1
    Grace = 0
    MaxFrames = 4
    MaxTime = 2
    MaxEvents = 2
    Senders = {s1, s2}
    Sizes = {1, 3}
    Budgets = {2, 4}
    Startup = 3
    QueueSize = 1
    PrioritySize = 1
    Callers = {g1, g2}
    MaxWork = 3
    MaxBudgets = 1
    Sessions = {"a", "b"}
    MaxFragments = 3
    MaxFragmentData = 2
    MaxDatagram = 5
    MaxReassemblies = 1
    ReceiveQueue = 3
    ReserveLimit = 1
    ControlSize = 1
    Batch = 2
    MaxArrivals = 5
    ReceiveTime = 2
    Shards = {2, 4}
    MaxShards = 4
    MaxParity = 3
    MaxInterleave = 4
    ParityFloor = 2
    MissingThreshold = 3
    DecreaseGroups = 2
    LongDecreaseGroups = 3
    EnoughFrames = 4
    MaxSessionEvents = 2
    MaxRecent = 1
    EventPageSize = 2
    MaxEventPages = 2
    SessionIDs = {0, 1}
    MaxSessions = 2
    MaxSamples = 2
    MaxChanges = 4
    MaxFaults = 1
INVARIANTS
    RecoveredWhenPossible
    FeedbackTruthful
    SendAccounting
    EmptyQueueWakes
    NewestPolicyWins
    ReservationAccounting
    ReassemblyAccepts
    EventsWhole
    SeriesClosed
PROPERTIES
    LessOnlyWhenCalm
CHECK_DEADLOCK FALSE
