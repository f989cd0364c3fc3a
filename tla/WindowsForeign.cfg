\* Two ways to the endpoint and two processes; nothing fails.
CONSTANTS
    Keys = {k1, k2}
    NoKey = k0
    Instances = {i1, i2}
    Nobody = i0
    MaxCalls = 4
    MaxFaults = 0
    MaxForeign = 2
    MaxLeases = 1
SPECIFICATION Spec
PROPERTY ForeignRoutesKept
CHECK_DEADLOCK FALSE
