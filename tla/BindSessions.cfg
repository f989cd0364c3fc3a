\* Sessions, admission and reconnects of one run of the bind.
CONSTANTS
    Objects = {1, 2}
    NoEndpoint = 0
    Remotes = {"home"}
    Home = "home"
    MaxSessions = 2
    MaxInboundSessions = 1
    MaxPendingInbound = 1
    MaxRecent = 1
    MaxIDs = 3
    MaxCalls = 1
SPECIFICATION Spec
INVARIANTS
    AdmissionAccounting ReplacementHistory MaintainedEndpoint
