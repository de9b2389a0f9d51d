SPECIFICATION LanFairSpec
CONSTANTS
    Macs = {m1, m2}
    NetSize = 8
    server_ip = 1
    LAN_LEASE = 2
    None = None
    Wanted = {2, 8}
    Squatted = {}
    MaxInFlight = 1
    MaxReplies = 1
    Faults = FALSE
    Prompt = TRUE
PROPERTY
    AskingGetsAddress
