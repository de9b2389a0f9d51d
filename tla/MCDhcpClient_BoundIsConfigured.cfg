SPECIFICATION Spec
CONSTANTS
    Configs <- FourConfigs
    LeaseTimes = {5}
    MIN_INTERVAL = 2
    NetlinkFails = TRUE
    ServerFails = TRUE
    Horizon = 7
    None = None
INVARIANT
    BoundIsConfigured
