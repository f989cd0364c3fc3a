\* One address, two interfaces that may hold the default route; no command fails.
CONSTANTS
    Addresses = {a1}
    Links = {l1, l2}
    Gateways = {}
    None = None
    MaxStarts = 2
    MaxCalls = 4
    MaxFaults = 0
    MaxForeign = 1
SPECIFICATION Spec
INVARIANT RecoveryMatchesLiveRoute
CHECK_DEADLOCK FALSE
