SPECIFICATION Spec
CONSTANTS
    Configs <- OneConfig
    LeaseTimes = {96}
    MIN_INTERVAL = 2
    NetlinkFails = FALSE
    ServerFails = FALSE
    Horizon = 98
    None = None
INVARIANT
    RebindingBroadcasts
