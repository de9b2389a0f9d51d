SPECIFICATION Spec
CONSTANTS
    Macs = {m1, m2, m3}
    NetSize = 4
    server_ip = 1
    LAN_LEASE = 2
    None = None
SYMMETRY MacSymmetry
INVARIANTS
    TypeOK
    UniqueLiveLease
    NoLeakedAddress
    ServerIpNeverLeased
PROPERTIES
    NoFalseExhaustion
    LiveLeaseUndisturbed
    ImplementsPool
