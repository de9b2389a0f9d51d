SPECIFICATION LanSpec
CONSTANTS
    Macs = {m1, m2}
    NetSize = 4
    server_ip = 1
    LAN_LEASE = 2
    None = None
    Wanted = {2, 3}
    Squatted = {2}
    MaxInFlight = 2
    MaxReplies = 1
    Faults = TRUE
    Prompt = FALSE
SYMMETRY LanSymmetry
INVARIANTS
    LanTypeOK
    NoDoubleUse
    LeaseBacked
PROPERTIES
    ClientsImplementPool
