SPECIFICATION Spec
CONSTANTS
    Macs = {m1, m2}
    NetSize = 4
    server_ip = 1
    LAN_LEASE = 2
    None = None
INVARIANT
    OfferNotTaken
